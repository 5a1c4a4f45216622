------------------------------ MODULE Session ------------------------------
(***************************************************************************)
(* The session state machine of src/session.cpp as operators on a value    *)
(* [state, epoch].  The engine keeps one such value and changes it only    *)
(* through these operators.                                                *)
(***************************************************************************)
EXTENDS Naturals

SessionState ==
    {"stopped", "connecting", "handshaking", "established", "closing", "failed"}

\* The default member initialisers of class Session.
InitialSession == [state |-> "stopped", epoch |-> 0]

\* The pairs transition_to lets through: a cycle, a way into failed from
\* everywhere but stopped, and the way back from failed to stopped.
Allowed(from, next) ==
    \/ <<from, next>> \in { <<"stopped", "connecting">>,
                            <<"connecting", "handshaking">>,
                            <<"handshaking", "established">>,
                            <<"established", "closing">>,
                            <<"closing", "stopped">>,
                            <<"failed", "stopped">> }
    \/ from # "stopped" /\ next = "failed"

\* The store transition_to makes once its check has passed: the state, and
\* one more epoch for a session that becomes established.
Store(session, next) ==
    [state |-> next,
     epoch |-> IF next = "established" THEN session.epoch + 1
                                       ELSE session.epoch]

CanSendData(session) == session.state = "established"
=============================================================================
