--------------------------- MODULE StreamFraming ---------------------------
(***************************************************************************)
(* Frames on a byte stream (src/quic_secure_transport.cpp): send_payload() *)
(* writes a length of four bytes before every payload, and the receiver    *)
(* cuts the bytes it is given back into frames (append_received_bytes).    *)
(*                                                                         *)
(* QUIC delivers the bytes of one stream in order, in pieces of any size.  *)
(* The streams of all clients of a server share one StreamChannel, so one  *)
(* reassembly buffer, which nothing empties when a client goes.            *)
(***************************************************************************)
EXTENDS Naturals, Sequences

CONSTANTS Streams,       \* the streams that feed the channel
          NoStream,
          Base,          \* how many values a byte has; 256 in the code
          Limit,         \* the longest payload; 65536 in the code
          Payloads,      \* the payloads the engine may hand to send_payload()
          MaxSent        \* bound: frames sent on one stream

Byte == 0 .. Base - 1

\* A legal length fits into the four bytes.
ASSUME FramingAssumption ==
    /\ NoStream \notin Streams
    /\ Base \in Nat /\ Base > 1
    /\ Limit \in Nat
    /\ ((Limit \div Base) \div Base) \div Base < Base
    /\ Payloads \subseteq Seq(Byte)
    /\ MaxSent \in Nat

VARIABLES written,       \* written[s]: all bytes put on stream s
          arrived,       \* arrived[s]: how many of them the callback has been given
          reassembly,    \* StreamChannel::reassembly
          cutting,       \* the callback is in the loop, and holds the mutex
          frames,        \* frames[s]: the frames cut while s was the source
          source,        \* history: the stream whose bytes came last
          sent,          \* history: the payloads sent on s, and where each starts
          mixed,         \* history: the streams whose bytes met another's leftover
          dropped        \* history: the sources at an illegal length

vars == <<written, arrived, reassembly, cutting, frames, source, sent, mixed, dropped>>

Init ==
    /\ written = [s \in Streams |-> <<>>]
    /\ arrived = [s \in Streams |-> 0]
    /\ reassembly = <<>>
    /\ cutting = FALSE
    /\ frames = [s \in Streams |-> <<>>]
    /\ source = NoStream
    /\ sent = [s \in Streams |-> <<>>]
    /\ mixed = {}
    /\ dropped = {}

-----------------------------------------------------------------------------
(* The length field. *)

HeaderLittleEndian(n) ==
    <<n % Base,
      (n \div Base) % Base,
      ((n \div Base) \div Base) % Base,
      (((n \div Base) \div Base) \div Base) % Base>>

Header(n) ==
    <<(((n \div Base) \div Base) \div Base) % Base,
      ((n \div Base) \div Base) % Base,
      (n \div Base) % Base,
      n % Base>>

\* frame_size, read from the first four bytes of b.
SizeOf(b) == ((b[1] * Base + b[2]) * Base + b[3]) * Base + b[4]

LegalFromZero(n) == n <= Limit

Legal(n) == 0 < n /\ n <= Limit

-----------------------------------------------------------------------------
(* The two ends. *)

\* send_payload() refuses an empty payload and one that is too long.
SendPayload(s, p) ==
    /\ Legal(Len(p))
    /\ Len(sent[s]) < MaxSent
    /\ written' = [written EXCEPT ![s] = @ \o Header(Len(p)) \o p]
    /\ sent' = [sent EXCEPT ![s] = Append(@, [at |-> Len(written[s]), data |-> p])]
    /\ UNCHANGED <<arrived, reassembly, cutting, frames, source, mixed, dropped>>

\* RECEIVE: the next n bytes of s go to the end of the buffer.
Receive(s, n) ==
    /\ ~cutting
    /\ arrived[s] + n <= Len(written[s])
    /\ arrived' = [arrived EXCEPT ![s] = @ + n]
    /\ reassembly' = reassembly \o SubSeq(written[s], arrived[s] + 1, arrived[s] + n)
    /\ cutting' = TRUE
    /\ source' = s
    /\ mixed' = IF reassembly # <<>> /\ source # s THEN mixed \cup {source, s} ELSE mixed
    /\ UNCHANGED <<written, frames, sent, dropped>>

LegalStart == Len(reassembly) >= 4 /\ Legal(SizeOf(reassembly))
WholeFrame == LegalStart /\ Len(reassembly) >= 4 + SizeOf(reassembly)

CutFrameToFront ==
    /\ cutting
    /\ WholeFrame
    /\ LET n == SizeOf(reassembly) IN
       /\ frames' = [frames EXCEPT ![source] = <<SubSeq(reassembly, 5, 4 + n)>> \o @]
       /\ reassembly' = SubSeq(reassembly, 5 + n, Len(reassembly))
    /\ UNCHANGED <<written, arrived, cutting, source, sent, mixed, dropped>>

CutOnlyOne ==
    /\ cutting
    /\ WholeFrame
    /\ LET n == SizeOf(reassembly) IN
       /\ frames' = [frames EXCEPT ![source] = Append(@, SubSeq(reassembly, 5, 4 + n))]
       /\ reassembly' = SubSeq(reassembly, 5 + n, Len(reassembly))
    /\ cutting' = FALSE
    /\ UNCHANGED <<written, arrived, source, sent, mixed, dropped>>

\* One round of the loop: the frame at the front goes to the queue.
CutFrame ==
    /\ cutting
    /\ WholeFrame
    /\ LET n == SizeOf(reassembly) IN
       /\ frames' = [frames EXCEPT ![source] = Append(@, SubSeq(reassembly, 5, 4 + n))]
       /\ reassembly' = SubSeq(reassembly, 5 + n, Len(reassembly))
    /\ UNCHANGED <<written, arrived, cutting, source, sent, mixed, dropped>>

\* An illegal length empties the buffer, and the bytes that follow are read as
\* the start of a frame.
CutIllegal ==
    /\ cutting
    /\ Len(reassembly) >= 4
    /\ ~Legal(SizeOf(reassembly))
    /\ reassembly' = <<>>
    /\ cutting' = FALSE
    /\ dropped' = dropped \cup {source}
    /\ UNCHANGED <<written, arrived, frames, source, sent, mixed>>

\* No frame is complete: the rest waits for more bytes.
CutDone ==
    /\ cutting
    /\ Len(reassembly) < 4 \/ (LegalStart /\ ~WholeFrame)
    /\ cutting' = FALSE
    /\ UNCHANGED <<written, arrived, reassembly, frames, source, sent, mixed, dropped>>

Next ==
    \/ \E s \in Streams, p \in Payloads : SendPayload(s, p)
    \/ \E s \in Streams : \E n \in 1 .. Len(written[s]) : Receive(s, n)
    \/ CutFrame \/ CutIllegal \/ CutDone

Spec == Init /\ [][Next]_vars

-----------------------------------------------------------------------------
(* Properties. *)

\* Types; every frame in the queue has a legal length, whatever bytes came.
TypeOK ==
    /\ written \in [Streams -> Seq(Byte)]
    /\ arrived \in [Streams -> Nat]
    /\ reassembly \in Seq(Byte)
    /\ cutting \in BOOLEAN
    /\ frames \in [Streams -> Seq({f \in Seq(Byte) : Len(f) \in 1 .. Limit})]
    /\ source \in Streams \cup {NoStream}
    /\ sent \in [Streams -> Seq([at : Nat, data : Seq(Byte)])]
    /\ mixed \subseteq Streams
    /\ dropped \subseteq Streams

\* append_received_bytes: however the bytes of a stream are cut into pieces, and
\* whatever other streams have left or lost before, the frames of a stream that
\* never met another's leftover are the payloads sent on it, in their order.
FramesAsSent ==
    \A s \in Streams \ mixed :
        /\ Len(frames[s]) <= Len(sent[s])
        /\ \A i \in 1 .. Len(frames[s]) : frames[s][i] = sent[s][i].data

\* The loop of append_received_bytes leaves no complete frame in the buffer: a
\* stream that never met another's leftover, and whose bytes have all arrived,
\* has had all its payloads put into the queue when the callback returns.
NothingLeftBehind ==
    ~cutting => \A s \in Streams \ mixed :
                    arrived[s] = Len(written[s]) => Len(frames[s]) = Len(sent[s])

\* The clear() of append_received_bytes discards bytes only when the clients of
\* one channel have mixed their bytes: two honest ends never reach it on a
\* stream of their own.
ClearOnlyMixed == dropped \subseteq mixed

\* The reassembly buffer is bounded between callbacks, also when the bytes of
\* several streams are mixed in it: less than one frame of the largest size.
BufferBounded == ~cutting => Len(reassembly) < 4 + Limit
=============================================================================
