------------------------ MODULE StreamFramingProofs ------------------------
(***************************************************************************)
(* Proofs about StreamFraming, for any number of streams and frames, any   *)
(* payloads, and any size of byte and limit that FramingAssumption allows. *)
(***************************************************************************)
EXTENDS StreamFraming, SequenceTheorems, TLAPS

-----------------------------------------------------------------------------
(* Sequences. *)

\* The elements of a concatenation.
LEMMA ConcatElements ==
    ASSUME NEW S, NEW a \in Seq(S), NEW b \in Seq(S), NEW c, c = a \o b
    PROVE  /\ c \in Seq(S)
           /\ Len(c) = Len(a) + Len(b)
           /\ \A k \in 1 .. Len(a) : c[k] = a[k]
           /\ \A k \in 1 .. Len(b) : c[Len(a) + k] = b[k]
<1>1. Len(a) \in Nat /\ Len(b) \in Nat
  BY LenProperties
<1> QED
  BY <1>1, ConcatProperties

\* The elements of a concatenation of three sequences.
LEMMA ConcatThree ==
    ASSUME NEW S, NEW a \in Seq(S), NEW b \in Seq(S), NEW c \in Seq(S),
           NEW d, d = a \o b \o c
    PROVE  /\ d \in Seq(S)
           /\ Len(d) = Len(a) + Len(b) + Len(c)
           /\ \A k \in 1 .. Len(a) : d[k] = a[k]
           /\ \A k \in 1 .. Len(b) : d[Len(a) + k] = b[k]
           /\ \A k \in 1 .. Len(c) : d[Len(a) + Len(b) + k] = c[k]
<1>1. Len(a) \in Nat /\ Len(b) \in Nat /\ Len(c) \in Nat
  BY LenProperties
<1>2. PICK u : u = a \o b
  OBVIOUS
<1>3. /\ u \in Seq(S)
      /\ Len(u) = Len(a) + Len(b)
      /\ \A k \in 1 .. Len(a) : u[k] = a[k]
      /\ \A k \in 1 .. Len(b) : u[Len(a) + k] = b[k]
  BY <1>2, ConcatElements
<1>4. u \in Seq(S) /\ d = u \o c
  BY <1>2, <1>3
<1>5. /\ d \in Seq(S)
      /\ Len(d) = Len(u) + Len(c)
      /\ \A k \in 1 .. Len(u) : d[k] = u[k]
      /\ \A k \in 1 .. Len(c) : d[Len(u) + k] = c[k]
  BY <1>4, ConcatElements
<1> QED
  BY <1>1, <1>3, <1>5

\* The elements of a part of a sequence, from m + 1 to n.
LEMMA SliceElements ==
    ASSUME NEW S, NEW a \in Seq(S), NEW m \in Nat, NEW n \in Nat, m <= n, n <= Len(a)
    PROVE  /\ SubSeq(a, m + 1, n) \in Seq(S)
           /\ Len(SubSeq(a, m + 1, n)) = n - m
           /\ \A k \in 1 .. n - m : SubSeq(a, m + 1, n)[k] = a[m + k]
<1>1. Len(a) \in Nat /\ m + 1 \in Int /\ n \in Int
  BY LenProperties
<1>2. \A i \in m + 1 .. n : a[i] \in S
  BY <1>1, ElementOfSeq
<1>3. /\ SubSeq(a, m + 1, n) \in Seq(S)
      /\ Len(SubSeq(a, m + 1, n)) = IF m + 1 <= n THEN n - (m + 1) + 1 ELSE 0
      /\ \A k \in 1 .. n - (m + 1) + 1 : SubSeq(a, m + 1, n)[k] = a[m + 1 + k - 1]
  BY <1>1, <1>2, SubSeqProperties
<1>4. n - (m + 1) + 1 = n - m /\ \A k \in 1 .. n - m : m + 1 + k - 1 = m + k
  OBVIOUS
<1> QED
  BY <1>3, <1>4

\* The elements after an element is added.
LEMMA AppendElements ==
    ASSUME NEW S, NEW a \in Seq(S), NEW e \in S
    PROVE  /\ Append(a, e) \in Seq(S)
           /\ Len(Append(a, e)) = Len(a) + 1
           /\ \A k \in 1 .. Len(a) : Append(a, e)[k] = a[k]
           /\ Append(a, e)[Len(a) + 1] = e
  BY AppendProperties

-----------------------------------------------------------------------------
(* The length field. *)

\* Quotient and remainder.
LEMMA DivMod ==
    ASSUME NEW n \in Nat, NEW b \in Nat, b > 0
    PROVE  /\ n \div b \in Nat
           /\ n % b \in 0 .. b - 1
           /\ n = (n \div b) * b + (n % b)
  OBVIOUS

\* Division keeps the order.
LEMMA DivMonotone ==
    ASSUME NEW m \in Nat, NEW n \in Nat, NEW b \in Nat, b > 0, m <= n
    PROVE  m \div b <= n \div b
<1> DEFINE p == m \div b
           q == n \div b
<1>1. /\ p \in Nat /\ q \in Nat
      /\ m % b \in 0 .. b - 1 /\ n % b \in 0 .. b - 1
      /\ m = p * b + (m % b) /\ n = q * b + (n % b)
  BY DivMod
<1>2. SUFFICES ASSUME p >= q + 1 PROVE FALSE
  BY <1>1
<1>3. p * b >= (q + 1) * b
  BY <1>1, <1>2
<1>4. (q + 1) * b = q * b + b
  BY <1>1
<1> QED
  BY <1>1, <1>3, <1>4

\* A legal length is read back from the four bytes it is written as.
LEMMA HeaderCorrect ==
    ASSUME NEW n \in Nat, Legal(n)
    PROVE  /\ Header(n) \in Seq(Byte)
           /\ Len(Header(n)) = 4
           /\ SizeOf(Header(n)) = n
<1> DEFINE q1 == n \div Base
           q2 == q1 \div Base
           q3 == q2 \div Base
           l1 == Limit \div Base
           l2 == l1 \div Base
<1>1. Base \in Nat /\ Base > 0 /\ Limit \in Nat /\ n <= Limit /\ l2 \div Base < Base
  BY FramingAssumption DEF Legal
<1>2. q1 \in Nat /\ n % Base \in 0 .. Base - 1 /\ n = q1 * Base + (n % Base)
  BY <1>1, DivMod
<1>3. q2 \in Nat /\ q1 % Base \in 0 .. Base - 1 /\ q1 = q2 * Base + (q1 % Base)
  BY <1>1, <1>2, DivMod
<1>4. q3 \in Nat /\ q2 % Base \in 0 .. Base - 1 /\ q2 = q3 * Base + (q2 % Base)
  BY <1>1, <1>3, DivMod
<1>5. l1 \in Nat /\ l2 \in Nat /\ l2 \div Base \in Nat
  BY <1>1, DivMod
<1>6. q1 <= l1
  BY <1>1, DivMonotone
<1>7. q2 <= l2
  BY <1>1, <1>2, <1>5, <1>6, DivMonotone
<1>8. q3 <= l2 \div Base
  BY <1>1, <1>3, <1>5, <1>7, DivMonotone
<1> HIDE DEF q1, q2, q3, l1, l2
<1>9. q3 < Base
  BY <1>1, <1>4, <1>5, <1>8
<1>10. q3 % Base = q3
  BY <1>1, <1>4, <1>9
<1>11. Header(n) = <<q3, q2 % Base, q1 % Base, n % Base>>
  BY <1>10 DEF Header, q1, q2, q3
<1>12. q3 \in Byte /\ q2 % Base \in Byte /\ q1 % Base \in Byte /\ n % Base \in Byte
  BY <1>1, <1>2, <1>3, <1>4, <1>9 DEF Byte
<1>13. Header(n) \in Seq(Byte) /\ Len(Header(n)) = 4
  BY <1>11, <1>12
<1>14. SizeOf(Header(n)) = ((q3 * Base + (q2 % Base)) * Base + (q1 % Base)) * Base + (n % Base)
  BY <1>11 DEF SizeOf
<1> QED
  BY <1>2, <1>3, <1>4, <1>13, <1>14

\* The length field of any four bytes is a number.
LEMMA SizeOfType ==
    ASSUME NEW b \in Seq(Byte), Len(b) >= 4
    PROVE  SizeOf(b) \in Nat
<1>1. Base \in Nat
  BY FramingAssumption
<1>2. b[1] \in Nat /\ b[2] \in Nat /\ b[3] \in Nat /\ b[4] \in Nat
  BY <1>1 DEF Byte
<1>3. ASSUME NEW x \in Nat, NEW y \in Nat PROVE x * Base + y \in Nat
  BY <1>1, <1>3
<1>4. b[1] * Base + b[2] \in Nat
  BY <1>2, <1>3
<1>5. (b[1] * Base + b[2]) * Base + b[3] \in Nat
  BY <1>2, <1>3, <1>4
<1> QED
  BY <1>2, <1>3, <1>5 DEF SizeOf
-----------------------------------------------------------------------------
(* The inductive invariant. *)

\* Where frame i of stream s starts; the frame after the last starts at the end.
Start(s, i) == IF i <= Len(sent[s]) THEN sent[s][i].at ELSE Len(written[s])

\* Where the next frame of s to be cut starts.
Position(s) == Start(s, Len(frames[s]) + 1)

\* Frame i of stream s as it lies on the stream.
FrameAt(s, i) ==
    LET f == sent[s][i] IN
    /\ f.at \in Nat
    /\ f.data \in Seq(Byte)
    /\ Legal(Len(f.data))
    /\ f.at + 4 + Len(f.data) <= Len(written[s])
    /\ Start(s, i + 1) = f.at + 4 + Len(f.data)
    /\ \A k \in 1 .. 4 : written[s][f.at + k] = Header(Len(f.data))[k]
    /\ \A k \in 1 .. Len(f.data) : written[s][f.at + 4 + k] = f.data[k]

\* The frames lie on the stream one after the other, from its first byte.
Layout ==
    \A s \in Streams :
        /\ Start(s, 1) = 0
        /\ \A i \in 1 .. Len(sent[s]) : FrameAt(s, i)

\* The buffer of a source that has not been mixed is the part of its stream from
\* the next frame on; another stream has had all its bytes cut.
AlignedOn(s) ==
    /\ Len(frames[s]) <= Len(sent[s])
    /\ \A i \in 1 .. Len(frames[s]) : frames[s][i] = sent[s][i].data
    /\ source # s => arrived[s] = Position(s)
    /\ source = s => /\ arrived[s] = Position(s) + Len(reassembly)
                     /\ \A k \in 1 .. Len(reassembly) :
                            reassembly[k] = written[s][Position(s) + k]

Aligned == \A s \in Streams \ mixed : AlignedOn(s)

Arrivals == \A s \in Streams : arrived[s] <= Len(written[s])

HasSource == source = NoStream => reassembly = <<>> /\ ~cutting

\* Between callbacks the buffer holds no frame that could be cut.
Rest == ~cutting => Len(reassembly) < 4 \/ (LegalStart /\ ~WholeFrame)

Inv ==
    /\ TypeOK
    /\ Layout
    /\ Aligned
    /\ Arrivals
    /\ HasSource
    /\ Rest
    /\ ClearOnlyMixed

\* Init establishes the invariant.
LEMMA InitInv == Init => Inv
<1> SUFFICES ASSUME Init PROVE Inv
  OBVIOUS
<1>1. ASSUME NEW s \in Streams
      PROVE  /\ written[s] = <<>> /\ frames[s] = <<>> /\ sent[s] = <<>>
             /\ arrived[s] = 0 /\ source # s
  BY FramingAssumption DEF Init
<1>2. ASSUME NEW s \in Streams PROVE Start(s, 1) = 0 /\ Position(s) = 0
  BY <1>1 DEF Start, Position
<1>3. TypeOK
  BY EmptySeq DEF Init, TypeOK
<1>4. Layout
  <2> SUFFICES ASSUME NEW s \in Streams
               PROVE  Start(s, 1) = 0 /\ \A i \in 1 .. Len(sent[s]) : FrameAt(s, i)
    BY DEF Layout
  <2> QED
    BY <1>1, <1>2
<1>5. Aligned
  <2> SUFFICES ASSUME NEW s \in Streams PROVE AlignedOn(s)
    BY DEF Aligned
  <2> QED
    BY <1>1, <1>2 DEF AlignedOn
<1>6. Arrivals
  <2> SUFFICES ASSUME NEW s \in Streams PROVE arrived[s] <= Len(written[s])
    BY DEF Arrivals
  <2> QED
    BY <1>1
<1>7. HasSource /\ Rest /\ ClearOnlyMixed
  BY EmptySeq DEF Init, HasSource, Rest, ClearOnlyMixed
<1> QED
  BY <1>3, <1>4, <1>5, <1>6, <1>7 DEF Inv

\* The place of a frame on its stream is a number.
LEMMA StartType ==
    ASSUME TypeOK, NEW s \in Streams, NEW i \in Nat, i > 0
    PROVE  Start(s, i) \in Nat
<1>1. /\ sent[s] \in Seq([at : Nat, data : Seq(Byte)])
      /\ written[s] \in Seq(Byte)
  BY DEF TypeOK
<1>2. CASE i <= Len(sent[s])
  <2>1. sent[s][i] \in [at : Nat, data : Seq(Byte)]
    <3>1. i \in 1 .. Len(sent[s])
      BY <1>1, <1>2, LenProperties
    <3> QED
      BY <1>1, <3>1, ElementOfSeq
  <2> QED
    BY <1>2, <2>1 DEF Start
<1>3. CASE ~(i <= Len(sent[s]))
  BY <1>1, <1>3 DEF Start
<1> QED
  BY <1>2, <1>3

\* So is the place of the next frame to be cut.
LEMMA PositionType ==
    ASSUME TypeOK, NEW s \in Streams
    PROVE  Position(s) \in Nat
<1>1. Len(frames[s]) + 1 \in Nat /\ Len(frames[s]) + 1 > 0
  BY DEF TypeOK
<1> QED
  BY <1>1, StartType DEF Position

-----------------------------------------------------------------------------
(* send_payload() *)

\* A frame that is written goes to the end, and moves nothing.
LEMMA SendPayloadInv ==
    ASSUME Inv, NEW s \in Streams, NEW p \in Payloads, SendPayload(s, p)
    PROVE  Inv'
<1> DEFINE R == [at : Nat, data : Seq(Byte)]
<1>1. p \in Seq(Byte) /\ Len(p) \in Nat /\ Legal(Len(p))
  BY FramingAssumption, LenProperties DEF SendPayload
<1>2. PICK h : h = Header(Len(p))
  OBVIOUS
<1>3. h \in Seq(Byte) /\ Len(h) = 4
  BY <1>1, <1>2, HeaderCorrect
<1>4. PICK w : w = written[s]
  OBVIOUS
<1>5. w \in Seq(Byte) /\ Len(w) \in Nat
  BY <1>4, LenProperties DEF Inv, TypeOK
<1>6. PICK v : v = w \o h \o p
  OBVIOUS
<1>7. /\ v \in Seq(Byte)
      /\ Len(v) = Len(w) + 4 + Len(p)
      /\ \A k \in 1 .. Len(w) : v[k] = w[k]
      /\ \A k \in 1 .. 4 : v[Len(w) + k] = h[k]
      /\ \A k \in 1 .. Len(p) : v[Len(w) + 4 + k] = p[k]
  <2>1. h \in Seq(Byte)
    BY <1>3
  <2>2. /\ v \in Seq(Byte)
        /\ Len(v) = Len(w) + Len(h) + Len(p)
        /\ \A k \in 1 .. Len(w) : v[k] = w[k]
        /\ \A k \in 1 .. Len(h) : v[Len(w) + k] = h[k]
        /\ \A k \in 1 .. Len(p) : v[Len(w) + Len(h) + k] = p[k]
    BY <1>1, <1>5, <1>6, <2>1, ConcatThree
  <2> QED
    BY <1>1, <1>3, <1>5, <2>2
<1>8. PICK n : n = Len(sent[s])
  OBVIOUS
<1>9. sent[s] \in Seq(R) /\ n \in Nat
  BY <1>8, LenProperties DEF Inv, TypeOK
<1>10. PICK rec : rec = [at |-> Len(w), data |-> p]
  OBVIOUS
<1>11. rec \in R /\ rec.at = Len(w) /\ rec.data = p
  BY <1>1, <1>5, <1>10
<1>12. /\ written' = [written EXCEPT ![s] = v]
       /\ sent' = [sent EXCEPT ![s] = Append(sent[s], rec)]
       /\ UNCHANGED <<arrived, reassembly, cutting, frames, source, mixed, dropped>>
  BY <1>2, <1>4, <1>6, <1>10 DEF SendPayload
<1>13. /\ written'[s] = v
       /\ sent'[s] = Append(sent[s], rec)
       /\ \A t \in Streams : t # s => sent'[t] = sent[t] /\ written'[t] = written[t]
  BY <1>12 DEF Inv, TypeOK
<1>14. /\ sent'[s] \in Seq(R)
       /\ Len(sent'[s]) = n + 1
       /\ \A i \in 1 .. n : sent'[s][i] = sent[s][i]
       /\ sent'[s][n + 1] = rec
  BY <1>8, <1>9, <1>11, <1>13, AppendElements
<1>15. TypeOK'
  BY <1>7, <1>12, <1>13, <1>14 DEF Inv, TypeOK
<1>16. ASSUME NEW t \in Streams, NEW i \in 1 .. Len(sent[t]) + 1
       PROVE  Start(t, i)' = Start(t, i)
  <2>1. CASE t # s
    BY <2>1, <1>13 DEF Start
  <2>2. CASE t = s
    <3>1. CASE i <= n
      <4>1. i <= Len(sent'[s]) /\ sent'[s][i] = sent[s][i]
        BY <3>1, <1>9, <1>14
      <4> QED
        BY <2>2, <3>1, <4>1, <1>8 DEF Start
    <3>2. CASE i = n + 1
      <4>1. i <= Len(sent'[s]) /\ sent'[s][i].at = Len(w) /\ ~(i <= n)
        BY <3>2, <1>9, <1>11, <1>14
      <4> QED
        BY <2>2, <4>1, <1>4, <1>8 DEF Start
    <3> QED
      BY <2>2, <3>1, <3>2, <1>8, <1>9
  <2> QED
    BY <2>1, <2>2
<1>17. Layout'
  <2> SUFFICES ASSUME NEW t \in Streams
               PROVE  /\ Start(t, 1)' = 0
                      /\ \A i \in 1 .. Len(sent'[t]) : FrameAt(t, i)'
    BY DEF Layout
  <2>1. Len(sent[t]) \in Nat
    BY LenProperties DEF Inv, TypeOK
  <2>2. Start(t, 1)' = 0
    BY <1>16, <2>1 DEF Inv, Layout
  <2>3. ASSUME NEW i \in 1 .. Len(sent[t]) PROVE FrameAt(t, i)'
    <3>1. FrameAt(t, i)
      BY DEF Inv, Layout
    <3>2. i + 1 \in 1 .. Len(sent[t]) + 1
      BY <2>1
    <3>3. Start(t, i + 1)' = Start(t, i + 1)
      BY <1>16, <3>2
    <3>4. CASE t # s
      BY <3>1, <3>3, <3>4, <1>13 DEF FrameAt
    <3>5. CASE t = s
      <4>1. PICK f : f = sent[t][i]
        OBVIOUS
      <4>2. sent'[t][i] = f /\ written'[t] = v /\ written[t] = w
        BY <3>5, <4>1, <1>4, <1>8, <1>13, <1>14
      <4>3. f.at \in Nat /\ Len(f.data) \in Nat /\ f.at + 4 + Len(f.data) <= Len(w)
        BY <3>1, <4>1, <4>2, LenProperties DEF FrameAt
      <4>4. \A k \in 1 .. 4 : v[f.at + k] = w[f.at + k]
        <5>1. \A k \in 1 .. 4 : f.at + k \in 1 .. Len(w)
          BY <1>5, <4>3
        <5> QED
          BY <1>7, <5>1
      <4>5. \A k \in 1 .. Len(f.data) : v[f.at + 4 + k] = w[f.at + 4 + k]
        <5>1. \A k \in 1 .. Len(f.data) : f.at + 4 + k \in 1 .. Len(w)
          BY <1>5, <4>3
        <5> QED
          BY <1>7, <5>1
      <4>6. f.at + 4 + Len(f.data) <= Len(v)
        BY <1>1, <1>5, <1>7, <4>3
      <4> QED
        BY <3>1, <3>3, <4>1, <4>2, <4>4, <4>5, <4>6 DEF FrameAt
    <3> QED
      BY <3>4, <3>5
  <2>4. ASSUME t = s PROVE FrameAt(t, n + 1)'
    <3>1. sent'[t][n + 1] = rec /\ written'[t] = v /\ Len(sent'[t]) = n + 1
      BY <2>4, <1>13, <1>14
    <3>2. Start(t, n + 1 + 1)' = Len(v)
      <4>1. ~(n + 1 + 1 <= n + 1)
        BY <1>9
      <4> QED
        BY <3>1, <4>1 DEF Start
    <3>3. Len(v) = rec.at + 4 + Len(rec.data)
      BY <1>7, <1>11
    <3>4. Len(v) <= Len(v)
      BY <1>1, <1>5, <1>7
    <3> QED
      BY <3>1, <3>2, <3>3, <3>4, <1>1, <1>2, <1>5, <1>7, <1>11 DEF FrameAt
  <2>5. CASE t = s
    BY <2>2, <2>3, <2>4, <2>5, <1>8, <1>9, <1>14
  <2>6. CASE t # s
    BY <2>2, <2>3, <2>6, <1>13
  <2> QED
    BY <2>5, <2>6
<1>18. Aligned'
  <2> SUFFICES ASSUME NEW t \in Streams \ mixed PROVE AlignedOn(t)'
    BY <1>12 DEF Aligned
  <2>1. AlignedOn(t)
    BY DEF Inv, Aligned
  <2>2. Len(frames[t]) \in Nat /\ Len(sent[t]) \in Nat /\ Len(frames[t]) <= Len(sent[t])
    BY <2>1, LenProperties DEF Inv, TypeOK, AlignedOn
  <2>3. Position(t)' = Position(t)
    BY <1>12, <1>16, <2>2 DEF Position
  <2>4. /\ Len(sent[t]) <= Len(sent'[t])
        /\ \A i \in 1 .. Len(frames[t]) : sent'[t][i] = sent[t][i]
    <3>1. CASE t = s
      BY <3>1, <2>2, <1>8, <1>9, <1>14
    <3>2. CASE t # s
      BY <3>2, <2>2, <1>13
    <3> QED
      BY <3>1, <3>2
  <2>5. source = t => \A k \in 1 .. Len(reassembly) :
                        written'[t][Position(t) + k] = written[t][Position(t) + k]
    <3> SUFFICES ASSUME source = t, t = s, NEW k \in 1 .. Len(reassembly)
                 PROVE  v[Position(t) + k] = w[Position(t) + k]
      BY <1>4, <1>13
    <3>1. TypeOK /\ reassembly \in Seq(Byte) /\ t \in Streams
      BY DEF Inv, TypeOK
    <3>2. Position(t) \in Nat /\ Len(reassembly) \in Nat
      BY <3>1, PositionType, LenProperties
    <3>3. Position(t) + Len(reassembly) <= Len(w)
      BY <2>1, <1>4 DEF Inv, AlignedOn, Arrivals
    <3>4. Position(t) + k \in 1 .. Len(w)
      BY <3>2, <3>3, <1>5
    <3> QED
      BY <3>4, <1>7
  <2>6. Len(sent'[t]) \in Nat
    BY <1>15, LenProperties DEF TypeOK
  <2>7. /\ Len(frames'[t]) <= Len(sent'[t])
        /\ \A i \in 1 .. Len(frames'[t]) : frames'[t][i] = sent'[t][i].data
    BY <2>1, <2>2, <2>4, <2>6, <1>12 DEF AlignedOn
  <2> QED
    BY <2>1, <2>3, <2>5, <2>7, <1>12 DEF AlignedOn
<1>19. Arrivals'
  <2> SUFFICES ASSUME NEW t \in Streams PROVE arrived[t] <= Len(written'[t])
    BY <1>12 DEF Arrivals
  <2>1. arrived[t] \in Nat /\ arrived[t] <= Len(written[t])
    BY DEF Inv, TypeOK, Arrivals
  <2>2. CASE t = s
    BY <2>1, <2>2, <1>1, <1>4, <1>5, <1>7, <1>13
  <2>3. CASE t # s
    BY <2>1, <2>3, <1>13
  <2> QED
    BY <2>2, <2>3
<1>20. HasSource' /\ Rest' /\ ClearOnlyMixed'
  BY <1>12 DEF Inv, HasSource, Rest, LegalStart, WholeFrame, SizeOf, Legal, ClearOnlyMixed
<1> QED
  BY <1>15, <1>17, <1>18, <1>19, <1>20 DEF Inv

-----------------------------------------------------------------------------
(* RECEIVE *)

\* Bytes that arrive continue the part of the stream that is in the buffer, or
\* start a new part at a frame, or mix two streams.
LEMMA ReceiveInv ==
    ASSUME Inv, NEW s \in Streams, NEW n \in 1 .. Len(written[s]), Receive(s, n)
    PROVE  Inv'
<1>1. TypeOK
  BY DEF Inv
<1>2. PICK w : w = written[s]
  OBVIOUS
<1>3. PICK a : a = arrived[s]
  OBVIOUS
<1>4. /\ w \in Seq(Byte) /\ Len(w) \in Nat /\ a \in Nat /\ n \in Nat /\ n > 0
      /\ a + n <= Len(w)
      /\ reassembly \in Seq(Byte) /\ Len(reassembly) \in Nat
  BY <1>1, <1>2, <1>3, LenProperties DEF TypeOK, Receive
<1>5. PICK d : d = SubSeq(w, a + 1, a + n)
  OBVIOUS
<1>6. /\ d \in Seq(Byte)
      /\ Len(d) = n
      /\ \A k \in 1 .. n : d[k] = w[a + k]
  <2>1. a + n \in Nat /\ a <= a + n /\ a + n - a = n
    BY <1>4
  <2>2. /\ SubSeq(w, a + 1, a + n) \in Seq(Byte)
        /\ Len(SubSeq(w, a + 1, a + n)) = a + n - a
        /\ \A k \in 1 .. a + n - a : SubSeq(w, a + 1, a + n)[k] = w[a + k]
    BY <1>4, <2>1, SliceElements
  <2> QED
    BY <1>5, <2>1, <2>2
<1>7. /\ arrived' = [arrived EXCEPT ![s] = a + n]
      /\ reassembly' = reassembly \o d
      /\ cutting' = TRUE
      /\ source' = s
      /\ mixed' = IF reassembly # <<>> /\ source # s THEN mixed \cup {source, s} ELSE mixed
      /\ UNCHANGED <<written, frames, sent, dropped>>
  BY <1>2, <1>3, <1>5 DEF Receive
<1>8. /\ reassembly' \in Seq(Byte)
      /\ Len(reassembly') = Len(reassembly) + n
      /\ \A k \in 1 .. Len(reassembly) : reassembly'[k] = reassembly[k]
      /\ \A k \in 1 .. n : reassembly'[Len(reassembly) + k] = d[k]
  <2>1. d \in Seq(Byte) /\ reassembly' = reassembly \o d /\ reassembly \in Seq(Byte)
    BY <1>4, <1>6, <1>7
  <2>2. /\ reassembly' \in Seq(Byte)
        /\ Len(reassembly') = Len(reassembly) + Len(d)
        /\ \A k \in 1 .. Len(reassembly) : reassembly'[k] = reassembly[k]
        /\ \A k \in 1 .. Len(d) : reassembly'[Len(reassembly) + k] = d[k]
    BY <2>1, ConcatElements
  <2> QED
    BY <1>6, <2>2
<1>9. reassembly # <<>> => source \in Streams
  BY <1>1 DEF Inv, HasSource, TypeOK
<1>10. TypeOK'
  <2>1. mixed' \subseteq Streams
    BY <1>1, <1>7, <1>9 DEF TypeOK
  <2>2. arrived' \in [Streams -> Nat]
    BY <1>1, <1>4, <1>7 DEF TypeOK
  <2>3. reassembly' \in Seq(Byte)
    BY <1>8
  <2> QED
    BY <2>1, <2>2, <2>3, <1>1, <1>7 DEF TypeOK
<1>11. \A t \in Streams, i \in Nat : Start(t, i)' = Start(t, i)
  BY <1>7 DEF Start
<1>12. \A t \in Streams : Position(t)' = Position(t)
  BY <1>7 DEF Start, Position
<1>13. Layout'
  <2> SUFFICES ASSUME NEW t \in Streams
               PROVE  /\ Start(t, 1)' = 0
                      /\ \A i \in 1 .. Len(sent[t]) : FrameAt(t, i)'
    BY <1>7 DEF Layout
  <2>1. Start(t, 1)' = 0
    BY <1>11 DEF Inv, Layout
  <2>2. ASSUME NEW i \in 1 .. Len(sent[t]) PROVE FrameAt(t, i)'
    <3>1. FrameAt(t, i)
      BY DEF Inv, Layout
    <3>2. Start(t, i + 1)' = Start(t, i + 1)
      BY <1>11
    <3> QED
      BY <3>1, <3>2, <1>7 DEF FrameAt
  <2> QED
    BY <2>1, <2>2
<1>14. Aligned'
  <2> SUFFICES ASSUME NEW t \in Streams, t \notin mixed' PROVE AlignedOn(t)'
    BY DEF Aligned
  <2>1. t \notin mixed /\ AlignedOn(t)
    BY <1>7 DEF Inv, Aligned
  <2>2. CASE t # s
    <3>1. source = t => reassembly = <<>>
      BY <2>2, <1>7
    <3>2. arrived'[t] = arrived[t]
      BY <2>2, <1>1, <1>7 DEF TypeOK
    <3>3. Position(t) \in Nat
      BY <1>1, PositionType
    <3>4. arrived[t] = Position(t)
      BY <2>1, <3>1, <3>3 DEF AlignedOn
    <3> QED
      BY <2>1, <2>2, <3>2, <3>4, <1>7, <1>12 DEF AlignedOn
  <2>3. CASE t = s
    <3>1. PICK q : q = Position(t)
      OBVIOUS
    <3>2. q \in Nat
      BY <1>1, <3>1, PositionType
    <3>3. /\ arrived[t] = q + Len(reassembly)
          /\ \A k \in 1 .. Len(reassembly) : reassembly[k] = w[q + k]
      <4>1. CASE source = t
        BY <2>1, <2>3, <3>1, <4>1, <1>2 DEF AlignedOn
      <4>2. CASE source # t
        <5>1. reassembly = <<>>
          BY <2>3, <4>2, <1>7
        <5> QED
          BY <2>1, <3>1, <3>2, <4>2, <5>1 DEF AlignedOn
      <4> QED
        BY <4>1, <4>2
    <3>4. a = q + Len(reassembly)
      BY <2>3, <3>3, <1>3
    <3>5. arrived'[t] = q + Len(reassembly')
      BY <2>3, <3>2, <3>4, <1>1, <1>4, <1>7, <1>8 DEF TypeOK
    <3>6. ASSUME NEW k \in 1 .. Len(reassembly') PROVE reassembly'[k] = w[q + k]
      <4>1. CASE k <= Len(reassembly)
        BY <4>1, <3>3, <1>4, <1>8
      <4>2. CASE k > Len(reassembly)
        <5>1. PICK j \in 1 .. n : k = Len(reassembly) + j
          <6>1. k - Len(reassembly) \in 1 .. n /\ k = Len(reassembly) + (k - Len(reassembly))
            BY <4>2, <1>4, <1>8
          <6> QED
            BY <6>1
        <5>2. reassembly'[k] = w[a + j]
          BY <5>1, <1>6, <1>8
        <5>3. a + j = q + k
          BY <5>1, <3>2, <3>4, <1>4
        <5> QED
          BY <5>2, <5>3
      <4> QED
        BY <4>1, <4>2, <1>4, <1>8
    <3> QED
      BY <2>1, <2>3, <3>1, <3>5, <3>6, <1>2, <1>7, <1>12 DEF AlignedOn
  <2> QED
    BY <2>2, <2>3
<1>15. Arrivals'
  <2> SUFFICES ASSUME NEW t \in Streams PROVE arrived'[t] <= Len(written[t])
    BY <1>7 DEF Arrivals
  <2>1. CASE t = s
    BY <2>1, <1>1, <1>2, <1>4, <1>7 DEF TypeOK
  <2>2. CASE t # s
    BY <2>2, <1>1, <1>7 DEF Inv, Arrivals, TypeOK
  <2> QED
    BY <2>1, <2>2
<1>16. HasSource' /\ Rest' /\ ClearOnlyMixed'
  BY <1>7, FramingAssumption DEF Inv, HasSource, Rest, ClearOnlyMixed
<1> QED
  BY <1>10, <1>13, <1>14, <1>15, <1>16 DEF Inv

-----------------------------------------------------------------------------
(* append_received_bytes *)

\* In a buffer that is not mixed, the first four bytes are the length of the
\* next frame that was sent.
LEMMA FrontFrame ==
    ASSUME Inv, NEW t \in Streams, t \notin mixed, source = t, Len(reassembly) >= 4,
           NEW i, i = Len(frames[t]) + 1
    PROVE  /\ i \in 1 .. Len(sent[t])
           /\ FrameAt(t, i)
           /\ Position(t) = sent[t][i].at
           /\ SizeOf(reassembly) = Len(sent[t][i].data)
           /\ Legal(SizeOf(reassembly))
<1>1. TypeOK /\ AlignedOn(t)
  BY DEF Inv, Aligned
<1>2. /\ Len(frames[t]) \in Nat /\ Len(sent[t]) \in Nat /\ Len(reassembly) \in Nat
      /\ Len(written[t]) \in Nat /\ Position(t) \in Nat
  BY <1>1, LenProperties, PositionType DEF TypeOK
<1>3. Position(t) + Len(reassembly) <= Len(written[t])
  BY <1>1 DEF Inv, Arrivals, AlignedOn
<1>4. i <= Len(sent[t])
  <2> SUFFICES ASSUME ~(i <= Len(sent[t])) PROVE FALSE
    OBVIOUS
  <2>1. Position(t) = Len(written[t])
    BY DEF Position, Start
  <2> QED
    BY <2>1, <1>2, <1>3
<1>5. i \in 1 .. Len(sent[t])
  BY <1>2, <1>4
<1>6. FrameAt(t, i)
  BY <1>5 DEF Inv, Layout
<1>7. PICK f : f = sent[t][i]
  OBVIOUS
<1>8. Position(t) = f.at
  BY <1>4, <1>7 DEF Position, Start
<1>9. PICK h : h = Header(Len(f.data))
  OBVIOUS
<1>10. \A k \in 1 .. 4 : reassembly[k] = h[k]
  <2>1. \A k \in 1 .. 4 : written[t][f.at + k] = h[k]
    BY <1>6, <1>7, <1>9 DEF FrameAt
  <2>2. \A k \in 1 .. Len(reassembly) : reassembly[k] = written[t][f.at + k]
    BY <1>1, <1>8 DEF AlignedOn
  <2> QED
    BY <2>1, <2>2, <1>2
<1>11. reassembly[1] = h[1] /\ reassembly[2] = h[2] /\ reassembly[3] = h[3] /\ reassembly[4] = h[4]
  BY <1>10
<1>12. SizeOf(reassembly) = SizeOf(h)
  BY <1>11 DEF SizeOf
<1>13. Len(f.data) \in Nat /\ Legal(Len(f.data))
  BY <1>6, <1>7, LenProperties DEF FrameAt
<1>14. SizeOf(h) = Len(f.data)
  BY <1>9, <1>13, HeaderCorrect
<1> QED
  BY <1>5, <1>6, <1>7, <1>8, <1>12, <1>13, <1>14

\* Nothing the loop changes is part of the layout.
LEMMA LayoutUnchanged ==
    ASSUME Layout, UNCHANGED <<written, sent>>
    PROVE  Layout' /\ \A t, i : Start(t, i)' = Start(t, i)
<1>1. \A t, i : Start(t, i)' = Start(t, i)
  BY DEF Start
<1>2. Layout'
  <2> SUFFICES ASSUME NEW t \in Streams
               PROVE  /\ Start(t, 1)' = 0
                      /\ \A i \in 1 .. Len(sent[t]) : FrameAt(t, i)'
    BY DEF Layout
  <2>1. Start(t, 1)' = 0
    BY <1>1 DEF Layout
  <2>2. ASSUME NEW i \in 1 .. Len(sent[t]) PROVE FrameAt(t, i)'
    <3>1. FrameAt(t, i)
      BY DEF Layout
    <3> QED
      BY <3>1, <1>1 DEF FrameAt
  <2> QED
    BY <2>1, <2>2
<1> QED
  BY <1>1, <1>2

\* The loop leaves every other stream alone.
LEMMA OthersUnchanged ==
    ASSUME NEW t \in Streams, AlignedOn(t), source # t, frames'[t] = frames[t],
           UNCHANGED <<written, sent, arrived, source>>
    PROVE  AlignedOn(t)'
<1>1. Position(t)' = Position(t)
  BY DEF Position, Start
<1> QED
  BY <1>1 DEF AlignedOn

\* A frame that is cut is the next one that was sent, unless bytes are mixed.
LEMMA CutFrameInv == Inv /\ CutFrame => Inv'
<1> SUFFICES ASSUME Inv, CutFrame PROVE Inv'
  OBVIOUS
<1> DEFINE F == {f \in Seq(Byte) : Len(f) \in 1 .. Limit}
<1>1. TypeOK /\ cutting /\ Len(reassembly) >= 4
  BY DEF Inv, CutFrame, WholeFrame, LegalStart
<1>2. source \in Streams
  BY <1>1 DEF Inv, HasSource, TypeOK
<1>3. PICK n : n = SizeOf(reassembly)
  OBVIOUS
<1>4. /\ reassembly \in Seq(Byte) /\ Len(reassembly) \in Nat
      /\ n \in Nat /\ 0 < n /\ n <= Limit /\ Limit \in Nat
      /\ 4 + n <= Len(reassembly)
  BY <1>1, <1>3, SizeOfType, LenProperties, FramingAssumption
     DEF TypeOK, CutFrame, WholeFrame, LegalStart, Legal
<1>5. PICK c : c = SubSeq(reassembly, 5, 4 + n)
  OBVIOUS
<1>6. /\ c \in Seq(Byte)
      /\ Len(c) = n
      /\ \A k \in 1 .. n : c[k] = reassembly[4 + k]
  <2>1. 4 + n \in Nat /\ 4 <= 4 + n /\ 4 + n - 4 = n /\ 4 + 1 = 5
    BY <1>4
  <2>2. /\ SubSeq(reassembly, 4 + 1, 4 + n) \in Seq(Byte)
        /\ Len(SubSeq(reassembly, 4 + 1, 4 + n)) = 4 + n - 4
        /\ \A k \in 1 .. 4 + n - 4 : SubSeq(reassembly, 4 + 1, 4 + n)[k] = reassembly[4 + k]
    BY <1>4, <2>1, SliceElements
  <2> QED
    BY <1>5, <2>1, <2>2
<1>7. c \in F
  BY <1>4, <1>6
<1>8. PICK m : m = 4 + n
  OBVIOUS
<1>9. m \in Nat /\ m <= Len(reassembly) /\ 5 + n = m + 1
  BY <1>4, <1>8
<1>10. /\ frames' = [frames EXCEPT ![source] = Append(frames[source], c)]
       /\ reassembly' = SubSeq(reassembly, m + 1, Len(reassembly))
       /\ UNCHANGED <<written, arrived, cutting, source, sent, mixed, dropped>>
  BY <1>3, <1>5, <1>9 DEF CutFrame
<1>11. /\ reassembly' \in Seq(Byte)
       /\ Len(reassembly') = Len(reassembly) - m
       /\ \A k \in 1 .. Len(reassembly) - m : reassembly'[k] = reassembly[m + k]
  <2>1. Len(reassembly) <= Len(reassembly)
    BY <1>4
  <2> QED
    BY <1>4, <1>9, <1>10, <2>1, SliceElements
<1>12. PICK g : g = frames[source]
  OBVIOUS
<1>13. g \in Seq(F) /\ Len(g) \in Nat
  BY <1>1, <1>2, <1>12, LenProperties DEF TypeOK
<1>14. /\ frames'[source] = Append(g, c)
       /\ \A t \in Streams : t # source => frames'[t] = frames[t]
  BY <1>1, <1>2, <1>10, <1>12 DEF TypeOK
<1>15. /\ frames'[source] \in Seq(F)
       /\ Len(frames'[source]) = Len(g) + 1
       /\ \A k \in 1 .. Len(g) : frames'[source][k] = g[k]
       /\ frames'[source][Len(g) + 1] = c
  BY <1>7, <1>13, <1>14, AppendElements
<1>16. TypeOK'
  <2>1. frames' \in [Streams -> Seq(F)]
    BY <1>1, <1>2, <1>10, <1>14, <1>15 DEF TypeOK
  <2> QED
    BY <2>1, <1>1, <1>10, <1>11 DEF TypeOK
<1>17. Layout' /\ \A t, i : Start(t, i)' = Start(t, i)
  BY <1>10, LayoutUnchanged DEF Inv
<1>18. Aligned'
  <2> SUFFICES ASSUME NEW t \in Streams, t \notin mixed PROVE AlignedOn(t)'
    BY <1>10 DEF Aligned
  <2>1. AlignedOn(t)
    BY DEF Inv, Aligned
  <2>2. CASE t # source
    BY <2>1, <2>2, <1>10, <1>14, OthersUnchanged
  <2>3. CASE t = source
    <3>1. PICK i : i = Len(frames[t]) + 1
      OBVIOUS
    <3>2. /\ i \in 1 .. Len(sent[t])
          /\ FrameAt(t, i)
          /\ Position(t) = sent[t][i].at
          /\ SizeOf(reassembly) = Len(sent[t][i].data)
      BY <2>3, <3>1, <1>1, FrontFrame
    <3>3. PICK f : f = sent[t][i]
      OBVIOUS
    <3>4. PICK q : q = f.at
      OBVIOUS
    <3>5. /\ q \in Nat /\ f.data \in Seq(Byte) /\ n = Len(f.data)
          /\ Start(t, i + 1) = q + 4 + n
          /\ \A k \in 1 .. n : written[t][q + 4 + k] = f.data[k]
      BY <3>2, <3>3, <3>4, <1>3 DEF FrameAt
    <3>6. /\ q \in Nat
          /\ arrived[t] = q + Len(reassembly)
          /\ \A k \in 1 .. Len(reassembly) : reassembly[k] = written[t][q + k]
      BY <2>1, <2>3, <3>2, <3>3, <3>4, <3>5 DEF AlignedOn
    <3>7. c = f.data
      <4>1. \A k \in 1 .. n : c[k] = f.data[k]
        <5> SUFFICES ASSUME NEW k \in 1 .. n PROVE c[k] = f.data[k]
          OBVIOUS
        <5>1. 4 + k \in 1 .. Len(reassembly) /\ q + (4 + k) = q + 4 + k
          BY <3>5, <1>4
        <5> QED
          BY <5>1, <3>5, <3>6, <1>6
      <4> QED
        BY <4>1, <3>5, <1>6, SeqEqual
    <3>8. Position(t)' = q + m
      <4>1. Len(frames'[t]) + 1 = i + 1
        BY <2>3, <3>1, <1>12, <1>15
      <4>2. Start(t, i + 1)' = Start(t, i + 1)
        BY <1>17
      <4>3. q + 4 + n = q + m
        <5>1. q \in Nat
          BY <3>5
        <5> QED
          BY <5>1, <1>4, <1>8
      <4> QED
        BY <4>1, <4>2, <4>3, <3>5 DEF Position
    <3>9. arrived[t] = q + m + Len(reassembly')
      BY <3>6, <1>4, <1>9, <1>11
    <3>10. ASSUME NEW k \in 1 .. Len(reassembly')
           PROVE  reassembly'[k] = written[t][q + m + k]
      <4>1. m + k \in 1 .. Len(reassembly) /\ q + (m + k) = q + m + k /\ k \in 1 .. Len(reassembly) - m
        BY <3>6, <1>4, <1>9, <1>11
      <4> QED
        BY <4>1, <3>6, <1>11
    <3>11. Len(frames'[t]) = i /\ i <= Len(sent[t])
      BY <2>3, <3>1, <3>2, <1>12, <1>13, <1>15
    <3>12. ASSUME NEW k \in 1 .. i PROVE frames'[t][k] = sent[t][k].data
      <4>1. CASE k = i
        BY <4>1, <2>3, <3>1, <3>3, <3>7, <1>12, <1>15
      <4>2. CASE k # i
        <5>1. k \in 1 .. Len(g) /\ g = frames[t]
          BY <4>2, <2>3, <3>1, <1>12, <1>13
        <5> QED
          BY <5>1, <2>1, <2>3, <1>15 DEF AlignedOn
      <4> QED
        BY <4>1, <4>2
    <3>13. UNCHANGED <<written, arrived, source, sent>>
      BY <1>10
    <3> QED
      BY <2>3, <3>8, <3>9, <3>10, <3>11, <3>12, <3>13 DEF AlignedOn
  <2> QED
    BY <2>2, <2>3
<1>19. Arrivals' /\ ClearOnlyMixed'
  BY <1>10 DEF Inv, Arrivals, ClearOnlyMixed
<1>20. HasSource' /\ Rest'
  BY <1>1, <1>2, <1>10, FramingAssumption DEF HasSource, Rest
<1> QED
  BY <1>16, <1>17, <1>18, <1>19, <1>20 DEF Inv

\* The buffer is cleared only when it is mixed.
LEMMA CutIllegalInv == Inv /\ CutIllegal => Inv'
<1> SUFFICES ASSUME Inv, CutIllegal PROVE Inv'
  OBVIOUS
<1>1. TypeOK /\ cutting /\ Len(reassembly) >= 4 /\ ~Legal(SizeOf(reassembly))
  BY DEF Inv, CutIllegal
<1>2. source \in Streams
  BY <1>1 DEF Inv, HasSource, TypeOK
<1>3. source \in mixed
  <2> SUFFICES ASSUME source \notin mixed PROVE FALSE
    OBVIOUS
  <2>1. PICK i : i = Len(frames[source]) + 1
    OBVIOUS
  <2>2. Legal(SizeOf(reassembly))
    BY <2>1, <1>1, <1>2, FrontFrame
  <2> QED
    BY <2>2, <1>1
<1>4. /\ reassembly' = <<>> /\ cutting' = FALSE /\ dropped' = dropped \cup {source}
      /\ UNCHANGED <<written, arrived, frames, source, sent, mixed>>
  BY DEF CutIllegal
<1>5. TypeOK'
  BY <1>1, <1>2, <1>4, EmptySeq DEF TypeOK
<1>6. Layout'
  BY <1>4, LayoutUnchanged DEF Inv
<1>7. Aligned'
  <2> SUFFICES ASSUME NEW t \in Streams, t \notin mixed PROVE AlignedOn(t)'
    BY <1>4 DEF Aligned
  <2>1. AlignedOn(t) /\ source # t
    BY <1>3 DEF Inv, Aligned
  <2> QED
    BY <2>1, <1>4, OthersUnchanged
<1>8. Arrivals' /\ ClearOnlyMixed'
  BY <1>3, <1>4 DEF Inv, Arrivals, ClearOnlyMixed
<1>9. HasSource' /\ Rest'
  BY <1>4, EmptySeq DEF HasSource, Rest
<1> QED
  BY <1>5, <1>6, <1>7, <1>8, <1>9 DEF Inv

\* The loop ends where no frame can be cut.
LEMMA CutDoneInv == Inv /\ CutDone => Inv'
<1> SUFFICES ASSUME Inv, CutDone PROVE Inv'
  OBVIOUS
<1>1. /\ cutting' = FALSE
      /\ UNCHANGED <<written, arrived, reassembly, frames, source, sent, mixed, dropped>>
  BY DEF CutDone
<1>2. TypeOK' /\ Arrivals' /\ ClearOnlyMixed' /\ HasSource'
  BY <1>1 DEF Inv, TypeOK, Arrivals, ClearOnlyMixed, HasSource
<1>3. Rest'
  BY <1>1 DEF CutDone, Rest, LegalStart, WholeFrame, Legal, SizeOf
<1>4. Layout' /\ \A t, i : Start(t, i)' = Start(t, i)
  BY <1>1, LayoutUnchanged DEF Inv
<1>5. Aligned'
  <2> SUFFICES ASSUME NEW t \in Streams, t \notin mixed PROVE AlignedOn(t)'
    BY <1>1 DEF Aligned
  <2>1. AlignedOn(t)
    BY DEF Inv, Aligned
  <2>2. Position(t)' = Position(t)
    BY <1>1 DEF Position, Start
  <2> QED
    BY <2>1, <2>2, <1>1 DEF AlignedOn
<1> QED
  BY <1>2, <1>3, <1>4, <1>5 DEF Inv

\* A stuttering step changes nothing the invariant speaks of.
LEMMA StutterInv == Inv /\ UNCHANGED vars => Inv'
<1> SUFFICES ASSUME Inv, UNCHANGED vars PROVE Inv'
  OBVIOUS
<1>1. TypeOK' /\ Arrivals' /\ ClearOnlyMixed' /\ HasSource'
  BY DEF Inv, TypeOK, Arrivals, ClearOnlyMixed, HasSource, vars
<1>2. Rest'
  BY DEF Inv, Rest, LegalStart, WholeFrame, Legal, SizeOf, vars
<1>3. Layout'
  BY LayoutUnchanged DEF Inv, vars
<1>4. Aligned'
  <2> SUFFICES ASSUME NEW t \in Streams, t \notin mixed PROVE AlignedOn(t)'
    BY DEF Aligned, vars
  <2>1. AlignedOn(t)
    BY DEF Inv, Aligned
  <2>2. Position(t)' = Position(t)
    BY DEF Position, Start, vars
  <2> QED
    BY <2>1, <2>2 DEF AlignedOn, vars
<1> QED
  BY <1>1, <1>2, <1>3, <1>4 DEF Inv

\* Every step keeps the invariant.
LEMMA NextInv == Inv /\ [Next]_vars => Inv'
  BY SendPayloadInv, ReceiveInv, CutFrameInv, CutIllegalInv, CutDoneInv, StutterInv DEF Next

-----------------------------------------------------------------------------
(* Theorems. *)

\* The invariant holds in every reachable state.
THEOREM Invariance == Spec => []Inv
  BY InitInv, NextInv, PTL DEF Spec

\* Every frame append_received_bytes puts into the queue has a length from 1 to
\* Limit, for every way the bytes of any number of streams are cut and mixed.
THEOREM TypeCorrect == Spec => []TypeOK
<1>1. Inv => TypeOK
  BY DEF Inv
<1> QED
  BY <1>1, Invariance, PTL

\* send_payload() and append_received_bytes together carry payloads: the frames
\* of a stream that is not mixed are those sent, in order, none twice.
THEOREM FramesFaithful == Spec => []FramesAsSent
<1>1. Inv => FramesAsSent
  BY DEF Inv, Aligned, AlignedOn, FramesAsSent
<1> QED
  BY <1>1, Invariance, PTL

\* When the callback returns and all bytes of a stream that is not mixed have
\* arrived, every payload sent on it is in the queue.
THEOREM AllDelivered == Spec => []NothingLeftBehind
<1>1. Inv => NothingLeftBehind
  <2> SUFFICES ASSUME Inv, ~cutting, NEW s \in Streams, s \notin mixed,
                      arrived[s] = Len(written[s])
               PROVE  Len(frames[s]) = Len(sent[s])
    BY DEF NothingLeftBehind
  <2>1. TypeOK /\ AlignedOn(s)
    BY DEF Inv, Aligned
  <2>2. /\ Len(frames[s]) \in Nat /\ Len(sent[s]) \in Nat /\ Len(reassembly) \in Nat
        /\ Len(written[s]) \in Nat /\ Position(s) \in Nat /\ Len(frames[s]) <= Len(sent[s])
    BY <2>1, LenProperties, PositionType DEF TypeOK, AlignedOn
  <2> SUFFICES ASSUME Len(frames[s]) < Len(sent[s]) PROVE FALSE
    BY <2>2
  <2>3. PICK i : i = Len(frames[s]) + 1
    OBVIOUS
  <2>4. i \in 1 .. Len(sent[s])
    BY <2>2, <2>3
  <2>5. FrameAt(s, i)
    BY <2>4 DEF Inv, Layout
  <2>6. PICK l : l = Len(sent[s][i].data)
    OBVIOUS
  <2>7. /\ l \in Nat
        /\ Position(s) + 4 + l <= Len(written[s])
    <3>1. Position(s) = sent[s][i].at
      BY <2>3, <2>4 DEF Position, Start
    <3>2. sent[s][i].data \in Seq(Byte) /\ sent[s][i].at + 4 + Len(sent[s][i].data) <= Len(written[s])
      BY <2>5 DEF FrameAt
    <3> QED
      BY <3>1, <3>2, <2>6, LenProperties
  <2>8. source = s /\ arrived[s] = Position(s) + Len(reassembly)
    BY <2>1, <2>2, <2>7 DEF AlignedOn
  <2>9. Len(reassembly) >= 4 + l
    BY <2>2, <2>7, <2>8
  <2>10. Len(reassembly) >= 4
    BY <2>2, <2>7, <2>9
  <2>11. SizeOf(reassembly) = l /\ Legal(SizeOf(reassembly))
    BY <2>3, <2>6, <2>8, <2>10, FrontFrame
  <2>12. WholeFrame
    BY <2>9, <2>10, <2>11 DEF WholeFrame, LegalStart
  <2> QED
    BY <2>2, <2>10, <2>12 DEF Inv, Rest
<1> QED
  BY <1>1, Invariance, PTL

\* append_received_bytes clears the buffer only when streams are mixed.
THEOREM ClearsOnlyMixed == Spec => []ClearOnlyMixed
<1>1. Inv => ClearOnlyMixed
  BY DEF Inv
<1> QED
  BY <1>1, Invariance, PTL

\* The reassembly buffer is bounded between callbacks, mixed or not.
THEOREM Bounded == Spec => []BufferBounded
<1>1. Inv => BufferBounded
  <2> SUFFICES ASSUME Inv, ~cutting PROVE Len(reassembly) < 4 + Limit
    BY DEF BufferBounded
  <2>1. reassembly \in Seq(Byte) /\ Len(reassembly) \in Nat /\ Limit \in Nat
    BY LenProperties, FramingAssumption DEF Inv, TypeOK
  <2>2. CASE Len(reassembly) < 4
    BY <2>1, <2>2
  <2>3. CASE Len(reassembly) >= 4
    <3>1. SizeOf(reassembly) \in Nat
      BY <2>1, <2>3, SizeOfType
    <3> QED
      BY <2>1, <2>3, <3>1 DEF Inv, Rest, LegalStart, WholeFrame, Legal
  <2> QED
    BY <2>1, <2>2, <2>3
<1> QED
  BY <1>1, Invariance, PTL

=============================================================================
