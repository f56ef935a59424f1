------------------------------ MODULE OneShotJob ------------------------------
(***************************************************************************)
(* What a Backup or a Restore promises: Pending, then Running, then        *)
(* Completed or Failed for good.  Statements run on the server only while  *)
(* it is Running (or was deleted meanwhile), and Completed means that they *)
(* all ran.  Once its controller has worked from an outdated copy of the   *)
(* job, a finished job may be started again, but even then it is Completed *)
(* only with its result in place, and a deleted job stays deleted.         *)
(***************************************************************************)
EXTENDS JobPhases

VARIABLES
    phase,    \* .status.phase
    done,     \* whether the server holds the complete result
    outdated  \* whether the controller has worked from an outdated copy

vars == <<phase, done, outdated>>

Init == phase = "Pending" /\ done = FALSE /\ outdated = FALSE

(* The job may leave the phases in S for p.                                 *)
Move(S, p) ==
    /\ phase \in S \/ (outdated /\ phase # "Absent")
    /\ phase' = p
    /\ UNCHANGED <<done, outdated>>

Start    == Move({"Pending"}, "Running")
Complete == done /\ Move({"Running"}, "Completed")
Fail     == Move({"Pending", "Running"}, "Failed")
Work     == /\ phase \in {"Running", "Absent"} \/ outdated
            /\ done' \in BOOLEAN
            /\ UNCHANGED <<phase, outdated>>
Delete   == phase # "Absent" /\ phase' = "Absent" /\ UNCHANGED <<done, outdated>>
ReadOld  == outdated' = TRUE /\ UNCHANGED <<phase, done>>

Next == Start \/ Work \/ Complete \/ Fail \/ Delete \/ ReadOld

Spec == Init /\ [][Next]_vars

==============================================================================
