------------------------ MODULE DevelopmentTransport ------------------------
(***************************************************************************)
(* DevelopmentSecureTransport (src/development_adapters.cpp): two ends in  *)
(* one process that exchange payloads through a link, found by port in the *)
(* map g_links.  The map owns the link; an end keeps a plain pointer to    *)
(* it.  close() of either end takes the link out of the map and frees it.  *)
(***************************************************************************)
EXTENDS Naturals, Sequences

CONSTANTS MaxLinks,      \* bound: links made for the port
          MaxPending     \* bound: payloads pending in one direction

ASSUME LinkAssumption == MaxLinks \in Nat /\ MaxPending \in Nat

Ends == {"client", "server"}
Peer(e) == IF e = "client" THEN "server" ELSE "client"

VARIABLES slot,          \* the link in g_links[port]; 0 when there is none
          made,          \* how many links have been made
          queue,         \* queue[e]: the payloads to e in the link of the slot
          link,          \* link[e]: link_; 0 is nullptr
          connected,     \* connected[e]: connected_
          lives,         \* history: how often e has closed a connection
          peerClosed,    \* history: e's peer has closed since e connected
          dangling       \* ends that have used a link that was freed

devVars == <<slot, made, queue, link, connected, lives, peerClosed, dangling>>

DevInit ==
    /\ slot = 0
    /\ made = 0
    /\ queue = [e \in Ends |-> <<>>]
    /\ link = [e \in Ends |-> 0]
    /\ connected = [e \in Ends |-> FALSE]
    /\ lives = [e \in Ends |-> 0]
    /\ peerClosed = [e \in Ends |-> FALSE]
    /\ dangling = {}

-----------------------------------------------------------------------------

\* link_for_port(): the link of the slot, or a new one.
LinkForPort ==
    IF slot = 0
      THEN slot' = made + 1 /\ made' = made + 1
      ELSE UNCHANGED <<slot, made>>

DevConnect(e) ==
    /\ ~connected[e]
    /\ slot = 0 => made < MaxLinks
    /\ LinkForPort
    /\ link' = [link EXCEPT ![e] = slot']
    /\ connected' = [connected EXCEPT ![e] = TRUE]
    /\ peerClosed' = [peerClosed EXCEPT ![e] = FALSE]
    /\ UNCHANGED <<queue, lives, dangling>>

\* A use of a freed link is undefined; the model follows the end no further.
UseFreed(e) ==
    /\ connected[e]
    /\ e \notin dangling
    /\ link[e] # slot
    /\ dangling' = dangling \cup {e}
    /\ UNCHANGED <<slot, made, queue, link, connected, lives, peerClosed>>

\* A payload is marked with the life of the end it is for.
DevSend(e) ==
    /\ connected[e]
    /\ link[e] = slot
    /\ Len(queue[Peer(e)]) < MaxPending
    /\ queue' = [queue EXCEPT ![Peer(e)] = Append(@, lives[Peer(e)])]
    /\ UNCHANGED <<slot, made, link, connected, lives, peerClosed, dangling>>

DevReceive(e) ==
    /\ connected[e]
    /\ link[e] = slot
    /\ queue[e] # <<>>
    /\ queue' = [queue EXCEPT ![e] = Tail(@)]
    /\ UNCHANGED <<slot, made, link, connected, lives, peerClosed, dangling>>

Disconnect(e) ==
    /\ connected' = [connected EXCEPT ![e] = FALSE]
    /\ link' = [link EXCEPT ![e] = 0]

DevCloseOwnOnly(e) ==
    /\ e \notin dangling
    /\ IF connected[e]
         THEN /\ IF link[e] = slot
                   THEN slot' = 0 /\ queue' = [d \in Ends |-> <<>>]
                   ELSE UNCHANGED <<slot, queue>>
              /\ lives' = [lives EXCEPT ![e] = @ + 1]
              /\ peerClosed' = [peerClosed EXCEPT ![Peer(e)] = TRUE]
         ELSE UNCHANGED <<slot, queue, lives, peerClosed>>
    /\ Disconnect(e)
    /\ UNCHANGED <<made, dangling>>

DevCloseTwice(e) ==
    /\ e \notin dangling
    /\ slot' = 0
    /\ queue' = [d \in Ends |-> <<>>]
    /\ IF connected[e]
         THEN /\ lives' = [lives EXCEPT ![e] = @ + 1]
              /\ peerClosed' = [peerClosed EXCEPT ![Peer(e)] = TRUE]
         ELSE UNCHANGED <<lives, peerClosed>>
    /\ Disconnect(e)
    /\ UNCHANGED <<made, dangling>>

\* close(), also by the destructor: a connected end frees the link that is in the
\* slot now, whichever that is.
DevClose(e) ==
    /\ e \notin dangling
    /\ IF connected[e]
         THEN /\ slot' = 0
              /\ queue' = [d \in Ends |-> <<>>]
              /\ lives' = [lives EXCEPT ![e] = @ + 1]
              /\ peerClosed' = [peerClosed EXCEPT ![Peer(e)] = TRUE]
         ELSE UNCHANGED <<slot, queue, lives, peerClosed>>
    /\ Disconnect(e)
    /\ UNCHANGED <<made, dangling>>

DevStep(e) ==
    \/ DevConnect(e) \/ UseFreed(e) \/ DevSend(e) \/ DevReceive(e) \/ DevClose(e)

DevNext == \E e \in Ends : DevStep(e)

DevSpec == DevInit /\ [][DevNext]_devVars

-----------------------------------------------------------------------------
(* Properties. *)

\* Types; the slot and the pointers name links that have been made.
DevTypeOK ==
    /\ made \in Nat
    /\ slot \in 0 .. made
    /\ queue \in [Ends -> Seq(Nat)]
    /\ link \in [Ends -> 0 .. made]
    /\ connected \in [Ends -> BOOLEAN]
    /\ lives \in [Ends -> Nat]
    /\ peerClosed \in [Ends -> BOOLEAN]
    /\ dangling \subseteq Ends

\* link_ points to a living link, the one the other end finds by the port, as
\* long as the other end has not closed since this one connected: closing twice,
\* closing unconnected and connecting again leave it alone.
LinkAlive ==
    \A e \in Ends : connected[e] /\ ~peerClosed[e] => link[e] = slot /\ slot # 0

\* An end that connects again starts with a clean link: no payload that was sent
\* to an earlier connection of this end reaches the new one.
NoStalePayload ==
    \A e \in Ends : \A i \in 1 .. Len(queue[e]) : queue[e][i] = lives[e]
=============================================================================
