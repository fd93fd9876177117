-------------------------- MODULE MCSyncConnection --------------------------
(* Instances of SyncConnection for TLC.                                    *)
EXTENDS SyncConnection

AllMethods == {"execute", "row", "script", "copy_from_csv", "begin", "commit",
               "rollback", "reset"}
===========================================================================
