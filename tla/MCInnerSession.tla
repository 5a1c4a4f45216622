--------------------------- MODULE MCInnerSession ---------------------------
(* Bounds for the model checking of InnerSession.                           *)
EXTENDS InnerSession

\* Two frames towards the server in each run of the client and one back: enough
\* for a repeated frame, an overtaken one, a cut one and a gap, within a run and
\* across two.
MCMaxSeals == [e \in Ends |-> IF e = "client" THEN 2 ELSE 1]
=============================================================================
