------------------------- MODULE InnerSessionProofs -------------------------
(***************************************************************************)
(* Proofs about InnerSession for every number of frames and restarts: type *)
(* correctness, the replay protection, the reason for every refusal while  *)
(* the peer is in its first run, and that the two sessions implement       *)
(* FrameDelivery.                                                          *)
(***************************************************************************)
EXTENDS InnerSession, TLAPS

-----------------------------------------------------------------------------
(* The inductive invariant. *)

\* What is on the wire to e was sealed by its peer.
WireWasSealed ==
    \A e \in Ends : \A f \in wire[e] : Id(f) \in sealed[Peer(e)]

\* So is what e has opened.
OpenedWasSealed ==
    \A e \in Ends : \A i \in DOMAIN opened[e] : Id(opened[e][i]) \in sealed[Peer(e)]

\* A message e sealed belongs to a past run of e's process, or to the present
\* one and then its number is not above the counter.
SealedBelowCounter ==
    \A e \in Ends : \A m \in sealed[e] :
        /\ m[1] <= life[e]
        /\ m[1] = life[e] => m[2] <= sendSequence[e]

\* Numbers start at one and stay within the bound.
SealedInRange ==
    \A e \in Ends : \A m \in sealed[e] : 1 <= m[2] /\ m[2] <= MaxSeals[e]

\* The counter and the process run stay within their bounds.
CountersInRange == \A e \in Ends : sendSequence[e] <= MaxSeals[e]

\* The highest number e has opened bounds them all, whichever run of the peer
\* they come from: this is what makes a repeated number recognisable.
LastIsHighest ==
    \A e \in Ends : \A i \in DOMAIN opened[e] : opened[e][i].seq <= lastReceived[e]

\* It is also one of them.
LastWasOpened ==
    \A e \in Ends : lastReceived[e] > 0 =>
        \E i \in DOMAIN opened[e] : opened[e][i].seq = lastReceived[e]

\* Stronger than OpenedOnceInOrder: numbers increase across runs, too.
OpenedIncreasing ==
    \A e \in Ends : \A i, j \in DOMAIN opened[e] :
        i < j => opened[e][i].seq < opened[e][j].seq

\* A refused frame was sealed, and is not above the highest number opened.
RefusedNotAboveLast ==
    \A e \in Ends : \A f \in rejected[e] :
        Id(f) \in sealed[Peer(e)] /\ f.seq <= lastReceived[e]

IInv ==
    /\ TypeOK
    /\ WireWasSealed
    /\ SealedBelowCounter
    /\ SealedInRange
    /\ CountersInRange
    /\ OpenedWasSealed
    /\ LastIsHighest
    /\ LastWasOpened
    /\ OpenedIncreasing
    /\ RefusedNotAboveLast

-----------------------------------------------------------------------------
(* Facts about the operators. *)

\* Peer is the other end.
LEMMA PeerFacts ==
    ASSUME NEW e \in Ends
    PROVE  Peer(e) \in Ends /\ Peer(e) # e /\ Peer(Peer(e)) = e
BY DEF Ends, Peer

\* create_inner_session gives one of the two formats or none.
LEMMA CreateType ==
    ASSUME NEW psk \in {"empty", "malformed", "key"}, NEW windows \in BOOLEAN,
           create_inner_session(psk, windows) # "null"
    PROVE  create_inner_session(psk, windows) \in Mode
BY DEF create_inner_session, Mode

\* The numbers a frame carries.
LEMMA FrameFacts ==
    ASSUME NEW f \in Frame
    PROVE  f.version \in Mode /\ f.life \in Nat /\ f.seq \in Nat /\ f.whole \in BOOLEAN
BY DEF Frame

\* Opening a frame appends it to the log and leaves the other end's log alone.
LEMMA AppendFacts ==
    ASSUME NEW s \in Seq(Frame), NEW f \in Frame
    PROVE  /\ Append(s, f) \in Seq(Frame)
           /\ DOMAIN Append(s, f) = DOMAIN s \cup {Len(s) + 1}
           /\ DOMAIN s = 1..Len(s)
           /\ Len(s) \in Nat
           /\ \A i \in DOMAIN s : Append(s, f)[i] = s[i]
           /\ Append(s, f)[Len(s) + 1] = f
OBVIOUS

-----------------------------------------------------------------------------
(* The invariant holds initially and is preserved by every action. *)

\* Both sessions start empty, in a format create_inner_session can choose.
LEMMA InitIInv == Init => IInv
<1> SUFFICES ASSUME Init PROVE IInv
    OBVIOUS
<1>1. TypeOK
    <2>1. mode \in [Ends -> Mode]
        BY CreateType DEF Init
    <2>2. life \in [Ends -> 0..MaxRestarts]
        BY BoundsAssumption DEF Init
    <2> QED
        BY <2>1, <2>2 DEF Init, TypeOK
<1>2. /\ WireWasSealed /\ SealedBelowCounter /\ SealedInRange
      /\ OpenedWasSealed /\ LastIsHighest /\ OpenedIncreasing
      /\ RefusedNotAboveLast /\ LastWasOpened
    BY DEF Init, WireWasSealed, SealedBelowCounter, SealedInRange, OpenedWasSealed,
           LastIsHighest, OpenedIncreasing, RefusedNotAboveLast, LastWasOpened
<1>3. CountersInRange
    <2> SUFFICES ASSUME NEW e \in Ends PROVE sendSequence[e] <= MaxSeals[e]
        BY DEF CountersInRange
    <2>1. sendSequence[e] = 0
        BY DEF Init
    <2>2. MaxSeals[e] \in Nat
        BY BoundsAssumption
    <2> QED
        BY <2>1, <2>2
<1> QED
    BY <1>1, <1>2, <1>3 DEF IInv

\* Sealing uses the next number, so the new frame is new to everybody.
LEMMA SealIInv ==
    ASSUME IInv, NEW e \in Ends, Seal(e)
    PROVE  IInv'
<1> DEFINE n == sendSequence[e] + 1
           f == [version |-> mode[e], life |-> life[e], seq |-> n, whole |-> TRUE]
<1>1. /\ Peer(e) \in Ends /\ Peer(e) # e /\ Peer(Peer(e)) = e
      /\ n \in Nat /\ f \in Frame /\ Id(f) = <<life[e], n>> /\ Id(f) \in Nat \X Nat
    <2>1. sendSequence[e] \in Nat /\ life[e] \in Nat /\ mode[e] \in Mode
        BY BoundsAssumption DEF IInv, TypeOK
    <2> QED
        BY <2>1, PeerFacts DEF Frame, Id
<1>2. /\ sendSequence' = [sendSequence EXCEPT ![e] = n]
      /\ wire' = [wire EXCEPT ![Peer(e)] = @ \cup {f}]
      /\ sealed' = [sealed EXCEPT ![e] = @ \cup {Id(f)}]
      /\ sendSequence[e] < MaxSeals[e]
      /\ UNCHANGED <<mode, lastReceived, life, opened, rejected>>
    BY DEF Seal
<1> HIDE DEF f
<1>3. TypeOK'
    BY <1>1, <1>2 DEF IInv, TypeOK
<1>4. WireWasSealed'
    BY <1>1, <1>2 DEF IInv, TypeOK, WireWasSealed
<1>5. SealedBelowCounter' /\ SealedInRange' /\ CountersInRange'
    <2>1. \A x \in Ends : sendSequence[x] \in Nat /\ life[x] \in Nat /\ MaxSeals[x] \in Nat
        BY BoundsAssumption DEF IInv, TypeOK
    <2>2. \A x \in Ends : \A m \in sealed[x] : m[1] \in Nat /\ m[2] \in Nat
        BY DEF IInv, TypeOK
    <2>3. /\ sendSequence'[e] = n /\ life' = life
          /\ \A x \in Ends : x # e => /\ sendSequence'[x] = sendSequence[x]
                                       /\ sealed'[x] = sealed[x]
          /\ sealed'[e] = sealed[e] \cup {<<life[e], n>>}
        BY <1>1, <1>2 DEF IInv, TypeOK
    <2>4. n <= MaxSeals[e] /\ 1 <= n /\ n > sendSequence[e]
        BY <1>2, <2>1
    <2> HIDE DEF n
    <2>5. CountersInRange'
        BY <2>1, <2>3, <2>4 DEF IInv, CountersInRange
    <2>6. SealedInRange'
        BY <2>1, <2>2, <2>3, <2>4 DEF IInv, SealedInRange
    <2>7. SealedBelowCounter'
        <3> SUFFICES ASSUME NEW x \in Ends, NEW m \in sealed'[x]
                     PROVE  m[1] <= life[x] /\ (m[1] = life[x] => m[2] <= sendSequence'[x])
            BY <2>3 DEF SealedBelowCounter
        <3>1. CASE m \in sealed[x]
            BY <3>1, <1>1, <2>1, <2>2, <2>3, <2>4 DEF IInv, SealedBelowCounter
        <3>2. CASE x = e /\ m = <<life[e], n>>
            BY <3>2, <1>1, <2>1, <2>3
        <3> QED
            BY <3>1, <3>2, <2>3
    <2> QED
        BY <2>5, <2>6, <2>7
<1>6. OpenedWasSealed' /\ RefusedNotAboveLast'
    BY <1>1, <1>2, PeerFacts DEF IInv, TypeOK, OpenedWasSealed, RefusedNotAboveLast
<1>7. LastIsHighest' /\ LastWasOpened' /\ OpenedIncreasing'
    BY <1>2 DEF IInv, LastIsHighest, LastWasOpened, OpenedIncreasing
<1> QED
    BY <1>3, <1>4, <1>5, <1>6, <1>7 DEF IInv

\* A failed encryption only moves the counter.
LEMMA SealFailsIInv ==
    ASSUME IInv, NEW e \in Ends, SealFails(e)
    PROVE  IInv'
<1>1. /\ sendSequence[e] \in Nat /\ sendSequence[e] < MaxSeals[e]
      /\ sendSequence' = [sendSequence EXCEPT ![e] = sendSequence[e] + 1]
      /\ UNCHANGED <<mode, lastReceived, life, wire, sealed, opened, rejected>>
    BY DEF IInv, TypeOK, SealFails
<1>2. TypeOK'
    BY <1>1 DEF IInv, TypeOK
<1>3. SealedBelowCounter' /\ CountersInRange'
    <2>1. \A x \in Ends : sendSequence[x] \in Nat /\ life[x] \in Nat /\ MaxSeals[x] \in Nat
        BY BoundsAssumption DEF IInv, TypeOK
    <2>2. \A x \in Ends : \A m \in sealed[x] : m[1] \in Nat /\ m[2] \in Nat
        BY DEF IInv, TypeOK
    <2> QED
        BY <1>1, <2>1, <2>2, SMTT(30) DEF IInv, TypeOK, SealedBelowCounter, CountersInRange
<1>4. /\ WireWasSealed' /\ SealedInRange' /\ OpenedWasSealed' /\ LastIsHighest'
      /\ LastWasOpened' /\ OpenedIncreasing' /\ RefusedNotAboveLast'
    BY <1>1 DEF IInv, WireWasSealed, SealedInRange, OpenedWasSealed, LastIsHighest,
                LastWasOpened, OpenedIncreasing, RefusedNotAboveLast
<1> QED
    BY <1>2, <1>3, <1>4 DEF IInv

\* Opening raises the highest number to that of the frame, which was above it.
LEMMA OpenAcceptIInv ==
    ASSUME IInv, NEW e \in Ends, NEW f \in wire[e], OpenAccept(e, f)
    PROVE  IInv'
<1> DEFINE k == Len(opened[e]) + 1
<1>1. /\ f \in Frame /\ f.seq \in Nat /\ f.seq > lastReceived[e]
      /\ Id(f) \in sealed[Peer(e)] /\ opened[e] \in Seq(Frame)
      /\ \A x \in Ends : lastReceived[x] \in Nat
    <2>1. f \in Frame /\ opened[e] \in Seq(Frame) /\ \A x \in Ends : lastReceived[x] \in Nat
        BY DEF IInv, TypeOK
    <2>2. f.seq \in Nat
        BY <2>1, FrameFacts
    <2>3. f.seq > lastReceived[e]
        BY DEF OpenAccept, Accepts
    <2>4. Id(f) \in sealed[Peer(e)]
        BY DEF IInv, WireWasSealed
    <2> QED
        BY <2>1, <2>2, <2>3, <2>4
<1>2. /\ lastReceived' = [lastReceived EXCEPT ![e] = f.seq]
      /\ opened' = [opened EXCEPT ![e] = Append(opened[e], f)]
      /\ UNCHANGED <<mode, sendSequence, life, wire, sealed, rejected>>
    BY DEF OpenAccept
<1>3. /\ opened'[e] = Append(opened[e], f) /\ lastReceived'[e] = f.seq
      /\ \A x \in Ends : x # e => /\ opened'[x] = opened[x]
                                   /\ lastReceived'[x] = lastReceived[x]
    BY <1>2 DEF IInv, TypeOK
<1>4. /\ DOMAIN opened'[e] = DOMAIN opened[e] \cup {k}
      /\ DOMAIN opened[e] = 1..Len(opened[e]) /\ k \in Nat /\ Len(opened[e]) \in Nat
      /\ \A i \in DOMAIN opened[e] : opened'[e][i] = opened[e][i]
      /\ opened'[e][k] = f
    BY <1>1, <1>3, AppendFacts
<1>5. \A x \in Ends : \A i \in DOMAIN opened[x] : opened[x][i].seq \in Nat
    <2>1. \A x \in Ends : \A i \in DOMAIN opened[x] : opened[x][i] \in Frame
        BY DEF IInv, TypeOK
    <2> QED
        BY <2>1, FrameFacts
<1>6. TypeOK'
    <2>1. Append(opened[e], f) \in Seq(Frame)
        BY <1>1
    <2> QED
        BY <1>1, <1>2, <2>1 DEF IInv, TypeOK
<1>7. OpenedWasSealed'
    BY <1>1, <1>2, <1>3, <1>4 DEF IInv, OpenedWasSealed
<1>8. LastIsHighest'
    <2> SUFFICES ASSUME NEW x \in Ends, NEW i \in DOMAIN opened'[x]
                 PROVE  opened'[x][i].seq <= lastReceived'[x]
        BY DEF LastIsHighest
    <2>1. CASE x # e
        BY <1>3, <2>1 DEF IInv, LastIsHighest
    <2>2. CASE x = e /\ i = k
        BY <1>1, <1>3, <1>4, <2>2
    <2>3. CASE x = e /\ i # k
        <3>1. i \in DOMAIN opened[e] /\ opened'[e][i] = opened[e][i]
            BY <1>4, <2>3
        <3>2. opened[e][i].seq <= lastReceived[e] /\ opened[e][i].seq \in Nat
            BY <3>1, <1>5 DEF IInv, LastIsHighest
        <3>3. lastReceived[e] \in Nat
            BY <1>1
        <3> QED
            BY <1>1, <1>3, <2>3, <3>1, <3>2, <3>3
    <2> QED
        BY <2>1, <2>2, <2>3
<1>9. LastWasOpened'
    <2>1. k \in DOMAIN opened'[e] /\ opened'[e][k].seq = lastReceived'[e]
        BY <1>3, <1>4
    <2> QED
        BY <1>3, <2>1 DEF IInv, LastWasOpened
<1>10. OpenedIncreasing'
    <2> SUFFICES ASSUME NEW x \in Ends, NEW i \in DOMAIN opened'[x],
                        NEW j \in DOMAIN opened'[x], i < j
                 PROVE  opened'[x][i].seq < opened'[x][j].seq
        BY DEF OpenedIncreasing
    <2>1. CASE x # e
        BY <1>3, <2>1 DEF IInv, OpenedIncreasing
    <2>2. CASE x = e /\ j = k
        <3>1. i \in DOMAIN opened[e] /\ opened'[e][i] = opened[e][i]
            BY <1>4, <2>2
        <3>2. opened[e][i].seq <= lastReceived[e] /\ opened[e][i].seq \in Nat
            BY <3>1, <1>5 DEF IInv, LastIsHighest
        <3> QED
            BY <1>1, <1>4, <2>2, <3>1, <3>2
    <2>3. CASE x = e /\ j # k
        <3>1. i \in DOMAIN opened[e] /\ j \in DOMAIN opened[e]
            BY <1>4, <2>3
        <3> QED
            BY <1>4, <2>3, <3>1 DEF IInv, OpenedIncreasing
    <2> QED
        BY <2>1, <2>2, <2>3
<1>11. RefusedNotAboveLast'
    <2> SUFFICES ASSUME NEW x \in Ends, NEW g \in rejected[x]
                 PROVE  Id(g) \in sealed[Peer(x)] /\ g.seq <= lastReceived'[x]
        BY <1>2 DEF RefusedNotAboveLast
    <2>1. Id(g) \in sealed[Peer(x)] /\ g.seq <= lastReceived[x] /\ g.seq \in Nat
        BY DEF IInv, TypeOK, Frame, RefusedNotAboveLast
    <2>2. lastReceived[x] <= lastReceived'[x] /\ lastReceived'[x] \in Nat
        BY <1>1, <1>3
    <2> QED
        BY <1>1, <2>1, <2>2
<1>12. /\ WireWasSealed' /\ SealedBelowCounter' /\ SealedInRange' /\ CountersInRange'
    BY <1>2 DEF IInv, WireWasSealed, SealedBelowCounter, SealedInRange, CountersInRange
<1> QED
    BY <1>6, <1>7, <1>8, <1>9, <1>10, <1>11, <1>12 DEF IInv

\* A refusal is recorded only for an undamaged frame of the right format, which
\* can then only have failed the test of its number.
LEMMA OpenRejectIInv ==
    ASSUME IInv, NEW e \in Ends, NEW f \in wire[e], OpenReject(e, f)
    PROVE  IInv'
<1>1. /\ f \in Frame /\ f.seq \in Nat /\ Id(f) \in sealed[Peer(e)]
      /\ lastReceived[e] \in Nat
    BY DEF IInv, TypeOK, WireWasSealed, Frame
<1>2. /\ rejected' = [rejected EXCEPT ![e] =
                          rejected[e] \cup {g \in {f} : g.whole /\ g.version = mode[e]}]
      /\ ~Accepts(mode[e], lastReceived[e], f)
      /\ UNCHANGED <<mode, sendSequence, lastReceived, life, wire, sealed, opened>>
    BY DEF OpenReject
<1>3. TypeOK'
    BY <1>1, <1>2 DEF IInv, TypeOK
<1>4. f.whole /\ f.version = mode[e] => f.seq <= lastReceived[e]
    BY <1>1, <1>2 DEF Accepts
<1>5. RefusedNotAboveLast'
    BY <1>1, <1>2, <1>4 DEF IInv, TypeOK, RefusedNotAboveLast
<1>6. /\ WireWasSealed' /\ SealedBelowCounter' /\ SealedInRange' /\ CountersInRange'
      /\ OpenedWasSealed' /\ LastIsHighest' /\ LastWasOpened' /\ OpenedIncreasing'
    BY <1>2 DEF IInv, WireWasSealed, SealedBelowCounter, SealedInRange, CountersInRange,
                OpenedWasSealed, LastIsHighest, LastWasOpened, OpenedIncreasing
<1> QED
    BY <1>3, <1>5, <1>6 DEF IInv

\* A cut frame keeps its number.
LEMMA CutIInv ==
    ASSUME IInv, NEW e \in Ends, Cut(e)
    PROVE  IInv'
<1>1. PICK f \in wire[e] :
          wire' = [wire EXCEPT ![e] = (wire[e] \ {f}) \cup {CutShort(f)}]
    BY DEF Cut
<1>2. UNCHANGED <<mode, sendSequence, lastReceived, life, sealed, opened, rejected>>
    BY DEF Cut
<1>3. /\ CutShort(f) \in Frame /\ Id(CutShort(f)) = Id(f)
      /\ Id(f) \in sealed[Peer(e)]
    BY DEF IInv, TypeOK, WireWasSealed, Frame, Id, CutShort
<1>4. TypeOK' /\ WireWasSealed'
    BY <1>1, <1>2, <1>3 DEF IInv, TypeOK, WireWasSealed
<1>5. /\ SealedBelowCounter' /\ SealedInRange' /\ CountersInRange' /\ OpenedWasSealed'
      /\ LastIsHighest' /\ LastWasOpened' /\ OpenedIncreasing' /\ RefusedNotAboveLast'
    BY <1>2 DEF IInv, SealedBelowCounter, SealedInRange, CountersInRange, OpenedWasSealed,
                LastIsHighest, LastWasOpened, OpenedIncreasing, RefusedNotAboveLast
<1> QED
    BY <1>4, <1>5 DEF IInv

\* A new client process has an empty log; what the old one sealed is past.
LEMMA RestartIInv ==
    ASSUME IInv, RestartClient
    PROVE  IInv'
<1>1. "client" \in Ends /\ \A x \in Ends : life[x] \in Nat /\ MaxSeals[x] \in Nat
    BY BoundsAssumption DEF Ends, IInv, TypeOK
<1>2. /\ life["client"] < MaxRestarts
      /\ life' = [life EXCEPT !["client"] = life["client"] + 1]
      /\ sendSequence' = [sendSequence EXCEPT !["client"] = 0]
      /\ lastReceived' = [lastReceived EXCEPT !["client"] = 0]
      /\ wire' = [wire EXCEPT !["client"] = {}]
      /\ opened' = [opened EXCEPT !["client"] = <<>>]
      /\ rejected' = [rejected EXCEPT !["client"] = {}]
      /\ UNCHANGED <<mode, sealed>>
    BY DEF RestartClient
<1>3. TypeOK'
    <2>1. life' \in [Ends -> 0..MaxRestarts]
        BY <1>1, <1>2, BoundsAssumption DEF IInv, TypeOK
    <2>2. opened' \in [Ends -> Seq(Frame)]
        BY <1>1, <1>2 DEF IInv, TypeOK
    <2> QED
        BY <1>1, <1>2, <2>1, <2>2 DEF IInv, TypeOK
<1>4. WireWasSealed' /\ SealedInRange' /\ CountersInRange'
    BY <1>1, <1>2 DEF IInv, TypeOK, WireWasSealed, SealedInRange, CountersInRange
<1>5. SealedBelowCounter'
    <2>1. \A x \in Ends : \A m \in sealed[x] : m[1] \in Nat /\ m[2] \in Nat
        BY DEF IInv, TypeOK
    <2> QED
        BY <1>1, <1>2, <2>1 DEF IInv, TypeOK, SealedBelowCounter
<1>6. DOMAIN opened'["client"] = {} /\ lastReceived'["client"] = 0
    BY <1>1, <1>2 DEF IInv, TypeOK
<1>7. \A x \in Ends : x # "client" => /\ opened'[x] = opened[x]
                                      /\ lastReceived'[x] = lastReceived[x]
                                      /\ rejected'[x] = rejected[x]
    BY <1>2 DEF IInv, TypeOK
<1>8. OpenedWasSealed' /\ LastIsHighest' /\ LastWasOpened' /\ OpenedIncreasing'
    BY <1>2, <1>6, <1>7
    DEF IInv, OpenedWasSealed, LastIsHighest, LastWasOpened, OpenedIncreasing
<1>9. RefusedNotAboveLast'
    BY <1>1, <1>2, <1>7 DEF IInv, TypeOK, RefusedNotAboveLast
<1> QED
    BY <1>3, <1>4, <1>5, <1>8, <1>9 DEF IInv

\* The invariant is inductive.
LEMMA NextIInv == IInv /\ [Next]_vars => IInv'
<1> SUFFICES ASSUME IInv, [Next]_vars PROVE IInv'
    OBVIOUS
<1>1. CASE UNCHANGED vars
    BY <1>1 DEF vars, IInv, TypeOK, WireWasSealed, SealedBelowCounter, SealedInRange,
                CountersInRange, OpenedWasSealed, LastIsHighest, LastWasOpened,
                OpenedIncreasing, RefusedNotAboveLast
<1>2. CASE RestartClient
    BY <1>2, RestartIInv
<1>3. ASSUME NEW e \in Ends, Seal(e) PROVE IInv'
    BY <1>3, SealIInv
<1>4. ASSUME NEW e \in Ends, SealFails(e) PROVE IInv'
    BY <1>4, SealFailsIInv
<1>5. ASSUME NEW e \in Ends, Open(e) PROVE IInv'
    <2>1. PICK f \in wire[e] : OpenAccept(e, f) \/ OpenReject(e, f)
        BY <1>5 DEF Open
    <2> QED
        BY <2>1, OpenAcceptIInv, OpenRejectIInv
<1>6. ASSUME NEW e \in Ends, Cut(e) PROVE IInv'
    BY <1>6, CutIInv
<1> QED
    BY <1>1, <1>2, <1>3, <1>4, <1>5, <1>6 DEF Next

\* IInv is an invariant of the two sessions.
THEOREM InvariantHolds == Spec => []IInv
BY InitIInv, NextIInv, PTL DEF Spec

-----------------------------------------------------------------------------
(* The properties. *)

\* Every variable has its type in every reachable state.
THEOREM TypeCorrect == Spec => []TypeOK
<1>1. IInv => TypeOK
    BY DEF IInv
<1> QED
    BY <1>1, InvariantHolds, PTL

\* open() never succeeds twice for a frame, nor out of order, for any number of
\* frames and of client restarts.
THEOREM ReplayProtection == Spec => []OpenedOnceInOrder
<1>1. IInv => OpenedOnceInOrder
    BY DEF IInv, OpenedIncreasing, OpenedOnceInOrder
<1> QED
    BY <1>1, InvariantHolds, PTL

\* How far the refusals of a restarted client go (inner_session.cpp:110): open() refuses
\* an undamaged frame of its format only if it has opened one with the same or a higher
\* number, of whatever run of the peer, and what it opens has increasing numbers across
\* runs.  So a new client's frames are refused up to the highest number of its
\* predecessors that was opened, and none above it.
RefusedNotAboveOpened ==
    \A e \in Ends : \A f \in rejected[e] :
        \E i \in DOMAIN opened[e] : f.seq <= opened[e][i].seq

\* The refusals after a restart end with the highest number opened before it.
THEOREM RefusalsAreBounded == Spec => [](OpenedIncreasing /\ RefusedNotAboveOpened)
<1>1. IInv => OpenedIncreasing /\ RefusedNotAboveOpened
    <2> SUFFICES ASSUME IInv, NEW e \in Ends, NEW f \in rejected[e]
                 PROVE  \E i \in DOMAIN opened[e] : f.seq <= opened[e][i].seq
        BY DEF RefusedNotAboveOpened, IInv
    <2>1. /\ f \in Frame /\ Id(f) \in sealed[Peer(e)] /\ f.seq <= lastReceived[e]
          /\ lastReceived[e] \in Nat /\ Peer(e) \in Ends
        BY PeerFacts DEF IInv, TypeOK, RefusedNotAboveLast
    <2>2. 1 <= f.seq /\ f.seq \in Nat
        BY <2>1, FrameFacts DEF IInv, SealedInRange, Id
    <2>3. PICK i \in DOMAIN opened[e] : opened[e][i].seq = lastReceived[e]
        BY <2>1, <2>2 DEF IInv, LastWasOpened
    <2> QED
        BY <2>1, <2>3
<1> QED
    BY <1>1, InvariantHolds, PTL

\* While the peer is in its first run, open() refuses an undamaged frame of its
\* format only after it has opened the same frame or a later one.
THEOREM RefusalsAreJustified == Spec => []RefusedInFirstRun
<1>1. IInv => RefusedInFirstRun
    <2> SUFFICES ASSUME IInv, NEW e \in Ends, life[Peer(e)] = 0, NEW f \in rejected[e]
                 PROVE  \E i \in DOMAIN opened[e] : SealedNoEarlier(opened[e][i], f)
        BY DEF RefusedInFirstRun, RefusedAreOvertaken
    <2>1. /\ f \in Frame /\ Id(f) \in sealed[Peer(e)] /\ f.seq <= lastReceived[e]
          /\ lastReceived[e] \in Nat /\ Peer(e) \in Ends
        BY PeerFacts DEF IInv, TypeOK, RefusedNotAboveLast
    <2>3. \A g \in Frame : Id(g) \in sealed[Peer(e)] => g.life = 0 /\ g.seq >= 1
        <3> SUFFICES ASSUME NEW g \in Frame, Id(g) \in sealed[Peer(e)]
                     PROVE  g.life = 0 /\ g.seq >= 1
            OBVIOUS
        <3>1. Id(g)[1] <= life[Peer(e)] /\ 1 <= Id(g)[2]
            BY <2>1 DEF IInv, SealedBelowCounter, SealedInRange
        <3>2. Id(g)[1] = g.life /\ Id(g)[2] = g.seq /\ g.life \in Nat /\ g.seq \in Nat
            BY FrameFacts DEF Id
        <3> QED
            BY <2>1, <3>1, <3>2
    <2>4. f.seq \in Nat /\ f.seq >= 1 /\ f.life = 0
        BY <2>1, <2>3, FrameFacts
    <2>5. PICK i \in DOMAIN opened[e] : opened[e][i].seq = lastReceived[e]
        BY <2>1, <2>4 DEF IInv, LastWasOpened
    <2>6. opened[e][i] \in Frame
        BY DEF IInv, TypeOK
    <2>7. opened[e][i].life = 0
        BY <2>3, <2>6 DEF IInv, OpenedWasSealed
    <2> QED
        BY <2>1, <2>4, <2>5, <2>7 DEF SealedNoEarlier
<1> QED
    BY <1>1, InvariantHolds, PTL

-----------------------------------------------------------------------------
(* The refinement. *)

\* An empty log holds no messages.
LEMMA EmptyIds ==
    ASSUME NEW s, s = <<>>
    PROVE  [i \in DOMAIN s |-> Id(s[i])] = <<>>
OBVIOUS

\* The sessions start as FrameDelivery does.
LEMMA InitDelivery == Init => Delivery!Init
<1> SUFFICES ASSUME Init PROVE Delivery!Init
    OBVIOUS
<1>1. sealed = [e \in Ends |-> {}]
    BY DEF Init
<1>2. openedIds = [e \in Ends |-> <<>>]
    <2>1. \A e \in Ends : opened[e] = <<>>
        BY DEF Init
    <2> QED
        BY <2>1, EmptyIds DEF openedIds
<1> QED
    BY <1>1, <1>2 DEF Delivery!Init

\* Every step of the sessions is a step of FrameDelivery or none.
LEMMA NextDelivery == IInv /\ [Next]_vars => [Delivery!Next]_Delivery!vars
<1> SUFFICES ASSUME IInv, [Next]_vars PROVE [Delivery!Next]_Delivery!vars
    OBVIOUS
<1>1. ASSUME UNCHANGED <<sealed, opened>> PROVE UNCHANGED Delivery!vars
    BY <1>1 DEF Delivery!vars, openedIds
<1>2. CASE UNCHANGED vars
    BY <1>1, <1>2 DEF vars
<1>3. CASE RestartClient
    <2>1. "client" \in Ends /\ sealed' = sealed
          /\ opened' = [opened EXCEPT !["client"] = <<>>]
        BY <1>3 DEF RestartClient, Ends
    <2>2. openedIds' = [openedIds EXCEPT !["client"] = <<>>]
        <3>1. opened'["client"] = <<>>
            BY <2>1 DEF IInv, TypeOK
        <3>2. \A e \in Ends : e # "client" => opened'[e] = opened[e]
            BY <2>1 DEF IInv, TypeOK
        <3>3. openedIds'["client"] = <<>>
            BY <2>1, <3>1, EmptyIds DEF openedIds
        <3>4. \A e \in Ends : e # "client" => openedIds'[e] = openedIds[e]
            BY <3>2 DEF openedIds
        <3>5. openedIds' = [e \in Ends |-> openedIds'[e]]
              /\ openedIds = [e \in Ends |-> openedIds[e]]
            BY DEF openedIds
        <3> QED
            BY <2>1, <3>3, <3>4, <3>5
    <2> QED
        BY <2>1, <2>2 DEF Delivery!Next, Delivery!Restart
<1>4. ASSUME NEW e \in Ends, Seal(e) PROVE Delivery!Next
    <2> DEFINE m == <<life[e], sendSequence[e] + 1>>
    <2>1. sealed' = [sealed EXCEPT ![e] = sealed[e] \cup {m}] /\ opened' = opened
        BY <1>4 DEF Seal, Id
    <2>2. m \in Delivery!Message
        <3>1. /\ life[e] \in 0..MaxRestarts
              /\ sendSequence[e] \in Nat /\ sendSequence[e] < MaxSeals[e]
            BY <1>4 DEF IInv, TypeOK, Seal
        <3>2. /\ MaxSeals["client"] \in Nat /\ MaxSeals["server"] \in Nat
              /\ e = "client" \/ e = "server"
            BY BoundsAssumption DEF Ends
        <3>3. sendSequence[e] + 1 \in 1..(MaxSeals["client"] + MaxSeals["server"])
            BY <3>1, <3>2
        <3> QED
            BY <3>1, <3>3 DEF Delivery!Message
    <2>3. \A k \in sealed[e] : k[1] = m[1] => k[2] < m[2]
        <3>1. \A k \in sealed[e] : k[1] \in Nat /\ k[2] \in Nat
            BY DEF IInv, TypeOK
        <3>2. sendSequence[e] \in Nat
            BY DEF IInv, TypeOK
        <3> QED
            BY <3>1, <3>2 DEF IInv, SealedBelowCounter
    <2>4. openedIds' = openedIds
        BY <2>1 DEF openedIds
    <2> HIDE DEF m
    <2>5. Delivery!Send(e, m)
        BY <2>1, <2>3, <2>4 DEF Delivery!Send
    <2> QED
        BY <2>2, <2>5 DEF Delivery!Next
<1>5. ASSUME NEW e \in Ends, SealFails(e) PROVE UNCHANGED Delivery!vars
    BY <1>1, <1>5 DEF SealFails
<1>6. ASSUME NEW e \in Ends, Cut(e) PROVE UNCHANGED Delivery!vars
    BY <1>1, <1>6 DEF Cut
<1>7. ASSUME NEW e \in Ends, NEW f \in wire[e], OpenReject(e, f)
      PROVE  UNCHANGED Delivery!vars
    BY <1>1, <1>7 DEF OpenReject
<1>8. ASSUME NEW e \in Ends, NEW f \in wire[e], OpenAccept(e, f)
      PROVE  Delivery!Next
    <2> DEFINE k == Len(opened[e]) + 1
    <2>1. /\ f \in Frame /\ opened[e] \in Seq(Frame) /\ f.seq > lastReceived[e]
          /\ f.seq \in Nat /\ f.life \in Nat /\ lastReceived[e] \in Nat
          /\ Id(f) \in sealed[Peer(e)] /\ Peer(e) \in Ends
        <3>1. f \in Frame /\ opened[e] \in Seq(Frame) /\ lastReceived[e] \in Nat
            BY DEF IInv, TypeOK
        <3>2. f.seq > lastReceived[e]
            BY <1>8 DEF OpenAccept, Accepts
        <3>3. Id(f) \in sealed[Peer(e)]
            BY DEF IInv, WireWasSealed
        <3> QED
            BY <3>1, <3>2, <3>3, FrameFacts, PeerFacts
    <2>2. opened' = [opened EXCEPT ![e] = Append(opened[e], f)] /\ sealed' = sealed
        BY <1>8 DEF OpenAccept
    <2>3. Id(f) \in Delivery!Message
        <3>1. life[Peer(e)] \in 0..MaxRestarts
            BY <2>1 DEF IInv, TypeOK
        <3>2. Id(f)[1] = f.life /\ Id(f)[2] = f.seq /\ Id(f) = <<f.life, f.seq>>
            BY DEF Id
        <3>3. f.life <= life[Peer(e)] /\ 1 <= f.seq /\ f.seq <= MaxSeals[Peer(e)]
            BY <2>1, <3>2 DEF IInv, SealedBelowCounter, SealedInRange
        <3>4. /\ MaxSeals["client"] \in Nat /\ MaxSeals["server"] \in Nat
              /\ MaxRestarts \in Nat /\ Peer(e) \in {"client", "server"}
            BY <2>1, BoundsAssumption DEF Ends
        <3>5. f.seq \in 1..(MaxSeals["client"] + MaxSeals["server"])
            BY <2>1, <3>3, <3>4
        <3>6. f.life \in 0..MaxRestarts
            BY <2>1, <3>1, <3>3, BoundsAssumption
        <3> QED
            BY <3>2, <3>5, <3>6 DEF Delivery!Message
    <2>4. \A i \in DOMAIN opened[e] : opened[e][i].seq < f.seq
        <3>1. \A i \in DOMAIN opened[e] : opened[e][i] \in Frame
            BY <2>1
        <3>2. \A i \in DOMAIN opened[e] : opened[e][i].seq \in Nat
            BY <3>1, FrameFacts
        <3> QED
            BY <2>1, <3>2 DEF IInv, LastIsHighest
    <2>5. openedIds' = [openedIds EXCEPT ![e] = Append(openedIds[e], Id(f))]
        <3>1. opened'[e] = Append(opened[e], f)
              /\ \A x \in Ends : x # e => opened'[x] = opened[x]
            BY <2>2 DEF IInv, TypeOK
        <3>2. [i \in DOMAIN opened'[e] |-> Id(opened'[e][i])]
                = Append([i \in DOMAIN opened[e] |-> Id(opened[e][i])], Id(f))
            <4>1. /\ DOMAIN opened'[e] = 1..k /\ DOMAIN opened[e] = 1..Len(opened[e])
                  /\ Len(opened[e]) \in Nat
                  /\ \A i \in DOMAIN opened[e] : opened'[e][i] = opened[e][i]
                  /\ opened'[e][k] = f
                BY <2>1, <3>1
            <4> DEFINE s == [i \in DOMAIN opened[e] |-> Id(opened[e][i])]
            <4>2. s \in Seq({Id(opened[e][i]) : i \in DOMAIN opened[e]})
                  /\ Len(s) = Len(opened[e])
                BY <4>1
            <4>3. /\ DOMAIN Append(s, Id(f)) = 1..k
                  /\ \A i \in 1..Len(opened[e]) : Append(s, Id(f))[i] = Id(opened[e][i])
                  /\ Append(s, Id(f))[k] = Id(f)
                BY <4>1, <4>2
            <4> QED
                BY <4>1, <4>2, <4>3
        <3> QED
            BY <3>1, <3>2 DEF openedIds
    <2>6. \A i \in DOMAIN openedIds[e] :
              openedIds[e][i][1] = Id(f)[1] => openedIds[e][i][2] < Id(f)[2]
        BY <2>4 DEF openedIds, Id
    <2>7. Delivery!Accept(e, Id(f))
        BY <2>1, <2>2, <2>5, <2>6 DEF Delivery!Accept
    <2> QED
        BY <2>3, <2>7 DEF Delivery!Next
<1> QED
    BY <1>2, <1>3, <1>4, <1>5, <1>6, <1>7, <1>8 DEF Next, Open

\* The inner sessions deliver as FrameDelivery promises.
THEOREM ImplementsDelivery == Spec => DeliverySpec
BY InitDelivery, NextDelivery, InvariantHolds, PTL DEF Spec, DeliverySpec, Delivery!Spec
=============================================================================
