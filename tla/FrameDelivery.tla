--------------------------- MODULE FrameDelivery ---------------------------
(***************************************************************************)
(* What the inner session promises, without sequence numbers on the wire,  *)
(* versions or damaged frames: two ends exchange messages, a message may   *)
(* be lost, but what one end hands to its network interface was sent by    *)
(* the other, at most once, and the messages of one life of the sender     *)
(* arrive in the order in which they were sent.                            *)
(*                                                                         *)
(* A message is a pair <<life, number>>: the run of the sender's process   *)
(* and the position among the messages of that run.                        *)
(***************************************************************************)
EXTENDS Naturals, Sequences

CONSTANTS Ends,          \* the two ends
          Peer(_),       \* the other end
          Restarting,    \* the ends whose process may be started again
          Lives,         \* the runs of a process that are considered
          Numbers        \* the positions of messages that are considered

VARIABLES sent,          \* sent[e]: the messages e has sent
          got            \* got[e]: the messages e has accepted, in order

vars == <<sent, got>>

Message == Lives \X Numbers

Init ==
    /\ sent = [e \in Ends |-> {}]
    /\ got = [e \in Ends |-> <<>>]

Send(e, m) ==
    /\ \A k \in sent[e] : k[1] = m[1] => k[2] < m[2]
    /\ sent' = [sent EXCEPT ![e] = @ \cup {m}]
    /\ UNCHANGED got

Accept(e, m) ==
    /\ m \in sent[Peer(e)]
    /\ \A i \in DOMAIN got[e] : got[e][i][1] = m[1] => got[e][i][2] < m[2]
    /\ got' = [got EXCEPT ![e] = Append(@, m)]
    /\ UNCHANGED sent

\* A new process starts with an empty log.
Restart(e) ==
    /\ got' = [got EXCEPT ![e] = <<>>]
    /\ UNCHANGED sent

Next ==
    \/ \E e \in Ends, m \in Message : Send(e, m) \/ Accept(e, m)
    \/ \E e \in Restarting : Restart(e)

Spec == Init /\ [][Next]_vars
=============================================================================
