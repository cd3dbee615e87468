------------------------ MODULE MCRealtimeAlerts ------------------------
(***************************************************************************)
(* Instances of RealtimeAlerts for TLC: a rule of every kind (PRICE_ADD,   *)
(* which is compared as PRICE_STOP is, left out).                          *)
(***************************************************************************)
EXTENDS RealtimeAlerts

OneOfEach ==
    {[kind |-> k, level |-> 2, percent |-> 0, period |-> 0] : k \in PriceKinds \ {"PRICE_ADD"}}
    \cup {[kind |-> k, level |-> 0, percent |-> 1000, period |-> 2] : k \in MaKinds}

Sums == [n \in {2} |-> 2]
Counts == [n \in {2} |-> 1]

=============================================================================
