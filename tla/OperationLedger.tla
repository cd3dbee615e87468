-------------------------- MODULE OperationLedger --------------------------
(***************************************************************************)
(* What a client may rely on when it pushes operations, whatever the       *)
(* server does inside: every operation is settled at most once and for     *)
(* good, an accepted one takes effect in the same step that settles it,    *)
(* and no other operation ever takes effect.                               *)
(***************************************************************************)
CONSTANTS OpIds, Unsettled

VARIABLES
  outcome,  \* what each operation came to, or Unsettled
  applied   \* the operations that took effect

vars == <<outcome, applied>>

Outcomes == {"ACCEPTED", "CONFLICT", "REJECTED"}

Init ==
  /\ outcome = [o \in OpIds |-> Unsettled]
  /\ applied = {}

\* A batch is settled as a whole.
Settle ==
  /\ outcome' \in [OpIds -> Outcomes \cup {Unsettled}]
  /\ \A o \in OpIds : outcome[o] # Unsettled => outcome'[o] = outcome[o]
  /\ applied' = {o \in OpIds : outcome'[o] = "ACCEPTED"}

Spec == Init /\ [][Settle]_vars
=============================================================================
