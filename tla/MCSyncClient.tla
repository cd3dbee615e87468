-------------------------- MODULE MCSyncClient --------------------------
(***************************************************************************)
(* Instances of SyncClient for TLC, over the operations of MCCloudSync.    *)
(***************************************************************************)
EXTENDS MCCloudSync, SyncClient
=============================================================================
