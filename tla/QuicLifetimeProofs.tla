------------------------- MODULE QuicLifetimeProofs -------------------------
(***************************************************************************)
(* Proofs about QuicLifetime, for any finite set of objects.               *)
(***************************************************************************)
EXTENDS QuicLifetime, FiniteSetTheorems, TLAPS

-----------------------------------------------------------------------------
(* The inductive invariant. *)

\* connect() of o has not come to ensure_api_open() yet.
Unopened(o) ==
    \/ at[o]["main"] \in {"new", "acquire"} \cup Releasing
    \/ at[o]["main"] = "check" /\ then[o]["main"] = "acquire"

\* Nothing is open before; closed_ is set from the end of the close() with which
\* connect() begins, so the main thread never releases anything; the handler's
\* thread releases only in an object whose opening it has overtaken.
Phases(o) ==
    /\ at[o]["main"] # "forget"
    /\ at[o]["handler"] \in {"new", "idle", "check"} \cup Releasing
    /\ then[o]["handler"] = "idle"
    /\ at[o]["handler"] = "forget" => apiOpen[o]
    /\ at[o]["main"] \in Releasing => then[o]["main"] = "acquire"
    /\ Unopened(o) => ~apiOpen[o] /\ open[o] = {}
    /\ ~Unopened(o) \/ at[o]["main"] = "acquire" => closed[o]
    /\ at[o]["main"] \in Releasing \ {"set"} => closed[o]
    /\ ~Unopened(o) /\ o \notin raced => at[o]["handler"] \notin Releasing

\* How far connect() has come tells what is open.
Progress(o) ==
    /\ at[o]["main"] \in Opening \ {"acquire"} => apiOpen[o]
    /\ at[o]["main"] \in {"openConfiguration", "newContexts", "openLink"} => "registration" \in open[o]
    /\ at[o]["main"] \in {"newContexts", "openLink"} => "configuration" \in open[o]
    /\ at[o]["main"] = "openLink" => "contexts" \in open[o]
    /\ o \notin undefined
    /\ "link" \in open[o] => {"registration", "configuration", "contexts"} \subseteq open[o]
    /\ "configuration" \in open[o] => "registration" \in open[o]
    /\ "registration" \in open[o] => apiOpen[o]

ObjectInv(o) == Phases(o) /\ (o \notin raced => Progress(o))

QuicInv ==
    /\ QuicTypeOK
    /\ ApiCounted
    /\ \A o \in Objects : ObjectInv(o)

\* The initial state.
LEMMA QuicInitInv == QuicInit => QuicInv
<1> SUFFICES ASSUME QuicInit PROVE QuicInv
  OBVIOUS
<1>1. QuicTypeOK
  BY DEF QuicInit, QuicTypeOK, Parts, Releasing, Opening, Threads
<1>2. Holders = {}
  BY DEF QuicInit, Holders
<1>3. ApiCounted
  BY <1>2, FS_EmptySet DEF QuicInit, ApiCounted
<1>4. \A o \in Objects : ObjectInv(o)
  BY DEF QuicInit, ObjectInv, Phases, Progress, Unopened, Releasing, Opening, Threads
<1> QED
  BY <1>1, <1>3, <1>4 DEF QuicInv

-----------------------------------------------------------------------------
(* The reference count. *)

\* A step that changes neither references nor the count.
LEMMA SameHolders ==
    ASSUME ApiCounted, Holders' = Holders, UNCHANGED <<table, refCount>>
    PROVE  ApiCounted'
  BY DEF ApiCounted

\* acquire() for an object without a reference.
LEMMA AcquireCounts ==
    ASSUME ApiCounted, NEW o \in Objects, o \notin Holders, Holders' = Holders \cup {o},
           acquire
    PROVE  ApiCounted'
<1>1. IsFiniteSet(Holders)
  BY ObjectsAssumption, FS_Subset DEF Holders
<1>2. Cardinality(Holders) \in Nat /\ Cardinality(Holders') = Cardinality(Holders) + 1
  BY <1>1, FS_CardinalityType, FS_AddElement
<1> QED
  BY <1>2 DEF ApiCounted, acquire

\* release() for an object with a reference.
LEMMA ReleaseCounts ==
    ASSUME ApiCounted, NEW o \in Objects, o \in Holders, Holders' = Holders \ {o},
           release
    PROVE  ApiCounted'
<1>1. IsFiniteSet(Holders)
  BY ObjectsAssumption, FS_Subset DEF Holders
<1>2. /\ Cardinality(Holders) \in Nat /\ Cardinality(Holders') \in Nat
      /\ Cardinality(Holders') = Cardinality(Holders) - 1
  BY <1>1, FS_CardinalityType, FS_RemoveElement
<1>3. refCount = Cardinality(Holders) /\ refCount > 0 /\ table
  BY <1>2 DEF ApiCounted
<1>4. refCount' = refCount - 1 /\ table' = (table /\ refCount > 1)
  <2>1. refCount # 0
    BY <1>2, <1>3
  <2> QED
    BY <2>1, Zenon DEF release
<1>5. refCount' = Cardinality(Holders') /\ (refCount' > 0 <=> refCount > 1)
  BY <1>2, <1>3, <1>4
<1>6. table' <=> refCount > 1
  BY <1>3, <1>4, Zenon
<1> QED
  BY <1>5, <1>6, Zenon DEF ApiCounted

\* The count stays a number.
LEMMA ReleaseType ==
    ASSUME table \in BOOLEAN, refCount \in Nat, release
    PROVE  table' \in BOOLEAN /\ refCount' \in Nat
<1>1. CASE refCount = 0
  BY <1>1 DEF release
<1>2. CASE refCount # 0
  <2>1. refCount' = refCount - 1 /\ table' = (table /\ refCount > 1)
    BY <1>2, Zenon DEF release
  <2>2. refCount' \in Nat
    BY <1>2, <2>1
  <2>3. table' \in BOOLEAN
    BY <2>1, Zenon
  <2> QED
    BY <2>2, <2>3
<1> QED
  BY <1>1, <1>2

-----------------------------------------------------------------------------
(* The steps. *)

\* A step of o leaves every other object as it was.
LEMMA OtherObjects ==
    ASSUME NEW o \in Objects, NEW p \in Objects, p # o, ObjectInv(p), QuicTypeOK,
           closed'[p] = closed[p], apiOpen'[p] = apiOpen[p], open'[p] = open[p],
           at'[p] = at[p], then'[p] = then[p],
           raced' \in {raced, raced \cup {o}}, undefined' \in {undefined, undefined \cup {o}}
    PROVE  ObjectInv(p)'
<1>1. (p \in raced') = (p \in raced) /\ (p \in undefined') = (p \in undefined)
  OBVIOUS
<1> QED
  BY <1>1 DEF ObjectInv, Phases, Progress, Unopened

\* Steps of close().
LEMMA CloseInv ==
    ASSUME QuicInv, NEW o \in Objects, NEW t \in Threads, Close(o, t)
    PROVE  QuicInv'
<1>1. QuicTypeOK /\ ApiCounted /\ ObjectInv(o)
  BY DEF QuicInv
<1>2. Phases(o)
  BY <1>1 DEF ObjectInv
<1> USE DEF Threads
<1>3. ASSUME BeginClose(o, t)
      PROVE  QuicTypeOK' /\ ApiCounted' /\ ObjectInv(o)'
  <2>1. QuicTypeOK'
    BY <1>1, <1>3 DEF BeginClose, GoTo, QuicTypeOK
  <2>2. Holders' = Holders
    BY <1>1, <1>3 DEF BeginClose, GoTo, QuicTypeOK, Holders
  <2>3. ApiCounted'
    BY <1>1, <1>3, <2>2, SameHolders DEF BeginClose
  <2>4. ObjectInv(o)'
    BY <1>1, <1>3 DEF BeginClose, GoTo, QuicTypeOK, ObjectInv, Phases, Progress, Unopened, Releasing, Opening
  <2> QED
    BY <2>1, <2>3, <2>4
<1>4. ASSUME CloseCheck(o, t)
      PROVE  QuicTypeOK' /\ ApiCounted' /\ ObjectInv(o)'
  <2>1. QuicTypeOK'
    BY <1>1, <1>4 DEF CloseCheck, GoTo, QuicTypeOK, Releasing, Opening
  <2>2. Holders' = Holders
    BY <1>1, <1>4 DEF CloseCheck, GoTo, QuicTypeOK, Holders
  <2>3. ApiCounted'
    BY <1>1, <1>4, <2>2, SameHolders DEF CloseCheck
  <2>4. ObjectInv(o)'
    BY <1>1, <1>4 DEF CloseCheck, GoTo, QuicTypeOK, ObjectInv, Phases, Progress, Unopened, Releasing, Opening
  <2> QED
    BY <2>1, <2>3, <2>4
<1>5. ASSUME CloseSet(o, t)
      PROVE  QuicTypeOK' /\ ApiCounted' /\ ObjectInv(o)'
  <2>1. QuicTypeOK'
    BY <1>1, <1>5 DEF CloseSet, GoTo, QuicTypeOK, Releasing, Opening
  <2>2. Holders' = Holders
    BY <1>1, <1>5 DEF CloseSet, GoTo, QuicTypeOK, Holders
  <2>3. ApiCounted'
    BY <1>1, <1>5, <2>2, SameHolders DEF CloseSet
  <2>4. ObjectInv(o)'
    BY <1>1, <1>5 DEF CloseSet, GoTo, QuicTypeOK, ObjectInv, Phases, Progress, Unopened, Releasing, Opening
  <2> QED
    BY <2>1, <2>3, <2>4
<1>6. ASSUME CloseHandle(o, t)
      PROVE  QuicTypeOK' /\ ApiCounted' /\ ObjectInv(o)'
  <2>1. /\ at[o][t] \in {"link", "configuration", "registration"}
        /\ at' = [at EXCEPT ![o][t] = AfterClosing[at[o][t]]]
        /\ AfterClosing[at[o][t]] \in {"configuration", "registration", "contexts"}
    BY <1>6 DEF CloseHandle, GoTo, AfterClosing
  <2>2. QuicTypeOK'
    BY <1>1, <1>6, <2>1 DEF CloseHandle, QuicTypeOK, Releasing, Opening
  <2>3. Holders' = Holders
    BY <1>1, <1>6, <2>1 DEF CloseHandle, QuicTypeOK, Holders
  <2>4. ApiCounted'
    BY <1>1, <1>6, <2>3, SameHolders DEF CloseHandle
  <2>5. ObjectInv(o)'
    BY <1>1, <1>6, <2>1 DEF CloseHandle, QuicTypeOK, ObjectInv, Phases, Progress, Unopened, Releasing, Opening
  <2> QED
    BY <2>2, <2>4, <2>5
<1>7. ASSUME CloseContexts(o, t)
      PROVE  QuicTypeOK' /\ ApiCounted' /\ ObjectInv(o)'
  <2>1. QuicTypeOK'
    BY <1>1, <1>7 DEF CloseContexts, GoTo, QuicTypeOK, Releasing, Opening
  <2>2. Holders' = Holders
    BY <1>1, <1>7 DEF CloseContexts, GoTo, QuicTypeOK, Holders
  <2>3. ApiCounted'
    BY <1>1, <1>7, <2>2, SameHolders DEF CloseContexts
  <2>4. ObjectInv(o)'
    BY <1>1, <1>7 DEF CloseContexts, GoTo, QuicTypeOK, ObjectInv, Phases, Progress, Unopened, Releasing, Opening
  <2> QED
    BY <2>1, <2>3, <2>4
<1>8. ASSUME CloseRelease(o, t)
      PROVE  QuicTypeOK' /\ ApiCounted' /\ ObjectInv(o)'
  <2>1. ObjectInv(o)'
    BY <1>1, <1>8 DEF CloseRelease, GoTo, QuicTypeOK, ObjectInv, Phases, Progress, Unopened, Releasing, Opening
  <2>2. CASE apiOpen[o]
    <3>1. QuicTypeOK'
      <4>1. table' \in BOOLEAN /\ refCount' \in Nat
        BY <1>1, <1>8, <2>2, ReleaseType DEF CloseRelease, QuicTypeOK
      <4>2. at' = [at EXCEPT ![o][t] = "forget"]
        BY <1>8, <2>2 DEF CloseRelease, GoTo
      <4>3. at' \in [Objects -> [Threads -> {"new", "idle", "check", "undefined"} \cup Releasing \cup Opening]]
        BY <1>1, <4>2 DEF QuicTypeOK, Releasing
      <4> QED
        BY <1>1, <1>8, <4>1, <4>3 DEF CloseRelease, QuicTypeOK
    <3>2. o \in Holders
      BY <1>1, <1>2, <1>8, <2>2 DEF CloseRelease, Phases, Unopened, Holders, Releasing
    <3>3. Holders' = Holders \ {o}
      BY <1>1, <1>8, <2>2 DEF CloseRelease, GoTo, QuicTypeOK, Holders
    <3>4. ApiCounted'
      BY <1>1, <1>8, <2>2, <3>2, <3>3, ReleaseCounts DEF CloseRelease
    <3> QED
      BY <2>1, <3>1, <3>4
  <2>3. CASE ~apiOpen[o]
    <3>1. QuicTypeOK'
      <4>1. at' = [at EXCEPT ![o][t] = then[o][t]] /\ UNCHANGED <<table, refCount>>
        BY <1>8, <2>3 DEF CloseRelease, GoTo
      <4>2. then[o][t] \in {"idle", "acquire"}
        BY <1>1 DEF QuicTypeOK
      <4>3. at' \in [Objects -> [Threads -> {"new", "idle", "check", "undefined"} \cup Releasing \cup Opening]]
        BY <1>1, <4>1, <4>2 DEF QuicTypeOK, Opening
      <4> QED
        BY <1>1, <1>8, <4>1, <4>3 DEF CloseRelease, QuicTypeOK
    <3>2. Holders' = Holders
      BY <1>1, <1>8, <2>3 DEF CloseRelease, GoTo, QuicTypeOK, Holders
    <3>3. ApiCounted'
      BY <1>1, <1>8, <2>3, <3>2, SameHolders DEF CloseRelease
    <3> QED
      BY <2>1, <3>1, <3>3
  <2> QED
    BY <2>2, <2>3
<1>9. ASSUME CloseForget(o, t)
      PROVE  QuicTypeOK' /\ ApiCounted' /\ ObjectInv(o)'
  <2>1. QuicTypeOK'
    BY <1>1, <1>9 DEF CloseForget, GoTo, QuicTypeOK, Releasing, Opening
  <2>2. Holders' = Holders
    BY <1>1, <1>9 DEF CloseForget, GoTo, QuicTypeOK, Holders
  <2>3. ApiCounted'
    BY <1>1, <1>9, <2>2, SameHolders DEF CloseForget
  <2>4. ObjectInv(o)'
    BY <1>1, <1>9 DEF CloseForget, GoTo, QuicTypeOK, ObjectInv, Phases, Progress, Unopened, Releasing, Opening
  <2> QED
    BY <2>1, <2>3, <2>4
<1>10. QuicTypeOK' /\ ApiCounted' /\ ObjectInv(o)'
  BY <1>3, <1>4, <1>5, <1>6, <1>7, <1>8, <1>9 DEF Close
<1>11. ASSUME NEW p \in Objects, p # o PROVE ObjectInv(p)'
  <2>1. /\ closed'[p] = closed[p] /\ apiOpen'[p] = apiOpen[p] /\ open'[p] = open[p]
        /\ at'[p] = at[p] /\ then'[p] = then[p] /\ raced' = raced /\ undefined' = undefined
    BY <1>1, <1>11 DEF Close, BeginClose, CloseCheck, CloseSet, CloseHandle, CloseContexts,
                       CloseRelease, CloseForget, GoTo, QuicTypeOK
  <2>2. ObjectInv(p)
    BY DEF QuicInv
  <2> QED
    BY <1>1, <1>11, <2>1, <2>2, OtherObjects
<1> QED
  BY <1>10, <1>11 DEF QuicInv

\* Steps of connect().
LEMMA ConnectInv ==
    ASSUME QuicInv, NEW o \in Objects, Connect(o)
    PROVE  QuicInv'
<1>1. QuicTypeOK /\ ApiCounted /\ ObjectInv(o)
  BY DEF QuicInv
<1>2. Phases(o)
  BY <1>1 DEF ObjectInv
<1> DEFINE Places == {"new", "idle", "check", "undefined"} \cup Releasing \cup Opening
<1> USE DEF Threads
<1>3. ASSUME BeginConnect(o)
      PROVE  QuicTypeOK' /\ ApiCounted' /\ ObjectInv(o)'
  <2>1. QuicTypeOK'
    BY <1>1, <1>3 DEF BeginConnect, GoTo, QuicTypeOK
  <2>2. Holders' = Holders
    BY <1>1, <1>3 DEF BeginConnect, GoTo, QuicTypeOK, Holders
  <2>3. ApiCounted'
    BY <1>1, <1>3, <2>2, SameHolders DEF BeginConnect
  <2>4. ObjectInv(o)'
    BY <1>1, <1>3 DEF BeginConnect, GoTo, QuicTypeOK, ObjectInv, Phases, Progress, Unopened, Releasing, Opening
  <2> QED
    BY <2>1, <2>3, <2>4
<1>4. ASSUME NewContexts(o)
      PROVE  QuicTypeOK' /\ ApiCounted' /\ ObjectInv(o)'
  <2>1. QuicTypeOK'
    BY <1>1, <1>4 DEF NewContexts, GoTo, QuicTypeOK, Opening, Parts
  <2>2. Holders' = Holders
    BY <1>1, <1>4 DEF NewContexts, GoTo, QuicTypeOK, Holders
  <2>3. ApiCounted'
    BY <1>1, <1>4, <2>2, SameHolders DEF NewContexts
  <2>4. ObjectInv(o)'
    BY <1>1, <1>4 DEF NewContexts, GoTo, QuicTypeOK, ObjectInv, Phases, Progress, Unopened, Releasing, Opening
  <2> QED
    BY <2>1, <2>3, <2>4
<1>5. ASSUME NEW ok \in BOOLEAN, EnsureApiOpen(o, ok)
      PROVE  QuicTypeOK' /\ ApiCounted' /\ ObjectInv(o)'
  <2>1. ~apiOpen[o] /\ o \notin Holders /\ at[o]["main"] = "acquire" /\ closed[o]
    BY <1>2, <1>5 DEF EnsureApiOpen, Phases, Unopened, Holders
  <2>2. CASE ok \/ table
    <3>1. /\ acquire
          /\ apiOpen' = [apiOpen EXCEPT ![o] = TRUE]
          /\ at' = [at EXCEPT ![o]["main"] = "openRegistration"]
          /\ raced' = IF at[o]["handler"] \in Releasing THEN raced \cup {o} ELSE raced
          /\ UNCHANGED <<closed, open, then, undefined>>
      BY <1>5, <2>1, <2>2 DEF EnsureApiOpen, GoTo
    <3>2. QuicTypeOK'
      BY <1>1, <3>1 DEF QuicTypeOK, Opening, acquire
    <3>3. Holders' = Holders \cup {o}
      BY <1>1, <1>2, <2>1, <3>1 DEF QuicTypeOK, Holders, Phases
    <3>4. ApiCounted'
      BY <1>1, <2>1, <3>1, <3>3, AcquireCounts
    <3>5. ObjectInv(o)'
      BY <1>1, <2>1, <3>1 DEF QuicTypeOK, ObjectInv, Phases, Progress, Unopened, Releasing, Opening
    <3> QED
      BY <3>2, <3>4, <3>5
  <2>3. CASE ~(ok \/ table)
    <3>1. /\ at' = [at EXCEPT ![o]["main"] = "check"]
          /\ then' = [then EXCEPT ![o]["main"] = "idle"]
          /\ raced' = IF at[o]["handler"] \in Releasing THEN raced \cup {o} ELSE raced
          /\ UNCHANGED <<table, refCount, closed, apiOpen, open, undefined>>
      BY <1>5, <2>1, <2>3 DEF EnsureApiOpen, GoTo, Fail
    <3>2. QuicTypeOK'
      BY <1>1, <3>1 DEF QuicTypeOK
    <3>3. Holders' = Holders
      BY <1>1, <3>1, <2>1 DEF QuicTypeOK, Holders
    <3>4. ApiCounted'
      BY <1>1, <3>1, <3>3, SameHolders
    <3>5. ObjectInv(o)'
      BY <1>1, <2>1, <3>1 DEF QuicTypeOK, ObjectInv, Phases, Progress, Unopened, Releasing, Opening
    <3> QED
      BY <3>2, <3>4, <3>5
  <2> QED
    BY <2>2, <2>3
<1>6. ASSUME at[o]["main"] \in Opening \ {"acquire"}, Fail(o),
             UNCHANGED <<table, refCount, closed, apiOpen, raced>>
      PROVE  QuicTypeOK' /\ ApiCounted' /\ ObjectInv(o)'
  <2>1. QuicTypeOK'
    BY <1>1, <1>6 DEF Fail, GoTo, QuicTypeOK
  <2>2. Holders' = Holders
    BY <1>1, <1>6 DEF Fail, GoTo, QuicTypeOK, Holders, Opening
  <2>3. ApiCounted'
    BY <1>1, <1>6, <2>2, SameHolders
  <2>4. ObjectInv(o)'
    BY <1>1, <1>6 DEF Fail, GoTo, QuicTypeOK, ObjectInv, Phases, Progress, Unopened, Releasing, Opening
  <2> QED
    BY <2>1, <2>3, <2>4
<1>7. ASSUME at[o]["main"] \in Opening \ {"acquire"}, ~HasTable(o),
             undefined' = undefined \cup {o}, at' = [at EXCEPT ![o]["main"] = "undefined"],
             UNCHANGED <<table, refCount, closed, apiOpen, open, then, raced>>
      PROVE  QuicTypeOK' /\ ApiCounted' /\ ObjectInv(o)'
  <2>1. QuicTypeOK'
    BY <1>1, <1>7 DEF QuicTypeOK
  <2>2. Holders' = Holders
    BY <1>1, <1>7 DEF QuicTypeOK, Holders, Opening
  <2>3. ApiCounted'
    BY <1>1, <1>7, <2>2, SameHolders
  <2>4. o \in raced
    BY <1>1, <1>7 DEF HasTable, ObjectInv, Phases, Progress, Unopened, Releasing, Opening
  <2>5. Phases(o)'
    BY <1>1, <1>7 DEF QuicTypeOK, ObjectInv, Phases, Unopened, Releasing, Opening
  <2> QED
    BY <1>7, <2>1, <2>3, <2>4, <2>5 DEF ObjectInv
<1>8. ASSUME NEW ok \in BOOLEAN, OpenRegistration(o, ok)
      PROVE  QuicTypeOK' /\ ApiCounted' /\ ObjectInv(o)'
  <2>1. at[o]["main"] = "openRegistration" /\ at[o]["main"] \in Opening \ {"acquire"}
    BY <1>8 DEF OpenRegistration, Opening
  <2>2. CASE ~HasTable(o) \/ ~ok
    BY <1>6, <1>7, <1>8, <2>1, <2>2 DEF OpenRegistration, OpenPart, GoTo
  <2>3. CASE HasTable(o) /\ ok
    <3>1. /\ open' = [open EXCEPT ![o] = open[o] \cup {"registration"}]
          /\ at' = [at EXCEPT ![o]["main"] = "openConfiguration"]
          /\ UNCHANGED <<table, refCount, closed, apiOpen, then, raced, undefined>>
      BY <1>8, <2>3 DEF OpenRegistration, OpenPart, GoTo
    <3>2. QuicTypeOK'
      BY <1>1, <3>1 DEF QuicTypeOK, Parts, Opening
    <3>3. Holders' = Holders
      BY <1>1, <2>1, <3>1 DEF QuicTypeOK, Holders
    <3>4. ApiCounted'
      BY <1>1, <3>1, <3>3, SameHolders
    <3>5. ObjectInv(o)'
      BY <1>1, <2>1, <2>3, <3>1
         DEF HasTable, QuicTypeOK, ObjectInv, Phases, Progress, Unopened, Releasing, Opening
    <3> QED
      BY <3>2, <3>4, <3>5
  <2> QED
    BY <2>2, <2>3
<1>9. ASSUME NEW ok \in BOOLEAN, LoadConfiguration(o, ok)
      PROVE  QuicTypeOK' /\ ApiCounted' /\ ObjectInv(o)'
  <2>1. at[o]["main"] = "openConfiguration" /\ at[o]["main"] \in Opening \ {"acquire"}
    BY <1>9 DEF LoadConfiguration, Opening
  <2>2. CASE "registration" \notin open[o] \/ ~HasTable(o) \/ ~ok
    BY <1>6, <1>7, <1>9, <2>1, <2>2 DEF LoadConfiguration, OpenPart, GoTo
  <2>3. CASE "registration" \in open[o] /\ HasTable(o) /\ ok
    <3>1. /\ open' = [open EXCEPT ![o] = open[o] \cup {"configuration"}]
          /\ at' = [at EXCEPT ![o]["main"] = "newContexts"]
          /\ UNCHANGED <<table, refCount, closed, apiOpen, then, raced, undefined>>
      BY <1>9, <2>3 DEF LoadConfiguration, OpenPart, GoTo
    <3>2. QuicTypeOK'
      BY <1>1, <3>1 DEF QuicTypeOK, Parts, Opening
    <3>3. Holders' = Holders
      BY <1>1, <2>1, <3>1 DEF QuicTypeOK, Holders
    <3>4. ApiCounted'
      BY <1>1, <3>1, <3>3, SameHolders
    <3>5. ObjectInv(o)'
      BY <1>1, <2>1, <2>3, <3>1
         DEF HasTable, QuicTypeOK, ObjectInv, Phases, Progress, Unopened, Releasing, Opening
    <3> QED
      BY <3>2, <3>4, <3>5
  <2> QED
    BY <2>2, <2>3
<1>10. ASSUME NEW ok \in BOOLEAN, StartLink(o, ok)
       PROVE  QuicTypeOK' /\ ApiCounted' /\ ObjectInv(o)'
  <2>1. at[o]["main"] = "openLink" /\ at[o]["main"] \in Opening \ {"acquire"}
    BY <1>10 DEF StartLink, Opening
  <2>2. CASE "registration" \notin open[o] \/ ~HasTable(o) \/ ~ok
    BY <1>6, <1>7, <1>10, <2>1, <2>2 DEF StartLink, OpenPart, GoTo
  <2>3. CASE "registration" \in open[o] /\ HasTable(o) /\ ok
    <3>1. /\ open' = [open EXCEPT ![o] = open[o] \cup {"link"}]
          /\ at' = [at EXCEPT ![o]["main"] = "idle"]
          /\ UNCHANGED <<table, refCount, closed, apiOpen, then, raced, undefined>>
      BY <1>10, <2>3 DEF StartLink, OpenPart, GoTo
    <3>2. QuicTypeOK'
      BY <1>1, <3>1 DEF QuicTypeOK, Parts
    <3>3. Holders' = Holders
      BY <1>1, <2>1, <3>1 DEF QuicTypeOK, Holders
    <3>4. ApiCounted'
      BY <1>1, <3>1, <3>3, SameHolders
    <3>5. ObjectInv(o)'
      BY <1>1, <2>1, <2>3, <3>1
         DEF HasTable, QuicTypeOK, ObjectInv, Phases, Progress, Unopened, Releasing, Opening
    <3> QED
      BY <3>2, <3>4, <3>5
  <2> QED
    BY <2>2, <2>3
<1>11. QuicTypeOK' /\ ApiCounted' /\ ObjectInv(o)'
  BY <1>3, <1>4, <1>5, <1>8, <1>9, <1>10 DEF Connect
<1>12. ASSUME NEW p \in Objects, p # o PROVE ObjectInv(p)'
  <2>1. /\ closed'[p] = closed[p] /\ apiOpen'[p] = apiOpen[p] /\ open'[p] = open[p]
        /\ at'[p] = at[p] /\ then'[p] = then[p]
        /\ raced' \in {raced, raced \cup {o}} /\ undefined' \in {undefined, undefined \cup {o}}
    BY <1>1, <1>12 DEF Connect, BeginConnect, NewContexts, EnsureApiOpen, OpenRegistration,
                       LoadConfiguration, StartLink, OpenPart, Fail, GoTo, QuicTypeOK
  <2>2. ObjectInv(p)
    BY DEF QuicInv
  <2> QED
    BY <1>1, <1>12, <2>1, <2>2, OtherObjects
<1> QED
  BY <1>11, <1>12 DEF QuicInv

\* Every step of the transports keeps the invariant, and so does any other step
\* of the process.
LEMMA QuicNextInv == QuicInv /\ [QuicNext]_quicVars => QuicInv'
<1>1. QuicInv /\ UNCHANGED quicVars => QuicInv'
  BY DEF QuicInv, QuicTypeOK, ApiCounted, Holders, ObjectInv, Phases, Progress, Unopened, quicVars
<1> QED
  BY <1>1, CloseInv, ConnectInv DEF QuicNext, QuicStep

-----------------------------------------------------------------------------
(* Theorems. *)

\* The invariant holds in every reachable state.
THEOREM QuicInvariance == QuicSpec => []QuicInv
  BY QuicInitInv, QuicNextInv, PTL DEF QuicSpec

\* MsQuicApi: the count is the number of references held, and the table is open
\* exactly while there is one, for any number of objects.
THEOREM ApiIsCounted == QuicSpec => []ApiCounted
<1>1. QuicInv => ApiCounted
  BY DEF QuicInv
<1> QED
  BY <1>1, QuicInvariance, PTL

\* connect() and close() in two threads: no call through a released table, no
\* handle without what it needs, unless close() had overtaken connect().
THEOREM NoCallsAfterClose == QuicSpec => []NoCallAfterClose
<1>1. QuicInv => NoCallAfterClose
  BY DEF QuicInv, ObjectInv, Phases, Progress, Unopened, NoCallAfterClose, HasTable
<1> QED
  BY <1>1, QuicInvariance, PTL

=============================================================================
