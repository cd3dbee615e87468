-------------------------- MODULE MCPushOutbox --------------------------
(***************************************************************************)
(* Instances of PushOutbox for TLC.                                        *)
(***************************************************************************)
EXTENDS PushOutbox

CONSTANTS e1, e2, t1, t2, w1, w2

\* All is one user's.
OneUser == [x \in Events \cup Tokens |-> "u1"]

\* The first event is that of a user without a device.
TwoUsers == [x \in Events \cup Tokens |-> IF x = e1 THEN "u1" ELSE "u2"]
=============================================================================
