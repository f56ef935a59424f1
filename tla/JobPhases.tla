------------------------------ MODULE JobPhases -------------------------------
(***************************************************************************)
(* The phases of a Backup or a Restore.  A new resource has no phase yet,  *)
(* which reads as Pending; a deleted one is Absent.                        *)
(***************************************************************************)

Phase    == {"Pending", "Running", "Completed", "Failed", "Absent"}
Finished == {"Completed", "Failed"}

==============================================================================
