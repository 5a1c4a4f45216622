------------------------------ MODULE Process ------------------------------
(***************************************************************************)
(* The transports of one process: make_transport (apps/client_main.cpp,    *)
(* apps/server_main.cpp) gives every engine a transport of one of two      *)
(* kinds.  Both kinds keep state for the whole process: MsQuicApi counts   *)
(* the users of the API table, and the development transport finds the     *)
(* other end in a map.                                                     *)
(***************************************************************************)
EXTENDS QuicLifetime, DevelopmentTransport

ASSUME ProcessAssumption == Objects = Ends

VARIABLE kind            \* kind[e]: what make_transport gave the engine of end e

processVars == <<kind, quicVars, devVars>>

Kinds == {"quic", "development"}

make_transport(use_quic) == IF use_quic THEN "quic" ELSE "development"

ProcessInit ==
    /\ kind \in {[e \in Ends |-> make_transport(use[e])] : use \in [Ends -> BOOLEAN]}
    /\ QuicInit
    /\ DevInit

ProcessNext ==
    \E e \in Ends :
        \/ kind[e] = "quic" /\ QuicStep(e) /\ UNCHANGED <<kind, devVars>>
        \/ kind[e] = "development" /\ DevStep(e) /\ UNCHANGED <<kind, quicVars>>

ProcessSpec == ProcessInit /\ [][ProcessNext]_processVars
=============================================================================
