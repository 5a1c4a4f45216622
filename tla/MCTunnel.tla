------------------------------ MODULE MCTunnel ------------------------------
(***************************************************************************)
(* The composition for TLC: interchangeable connections, and a bound on     *)
(* them where close() of the handler overlaps connect().                    *)
(***************************************************************************)
EXTENDS Tunnel, TLC, FiniteSets

MCSymmetry == Permutations(Conns)

\* Bound: connections that come after the overlap.
MCRacedConns == 1

MCRacedBound == race # "none" => Cardinality({c \in Conns : phase[c] # "none"}) <= MCRacedConns

MCSpec ==
    TunnelInit /\ [][TunnelNext /\ MCRacedBound']_tunnelVars /\ WF_tunnelVars(MainStep)
=============================================================================
