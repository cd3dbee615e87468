-------------------------- MODULE MCCloudReplica --------------------------
(***************************************************************************)
(* Instances of CloudReplica for TLC.                                      *)
(***************************************************************************)
EXTENDS MCCloudSync, CloudReplica

\* The order in which bootstrap reads watch lists, items and the rest.
ListsThenItems == <<{l1}, {i1}>>

=============================================================================
