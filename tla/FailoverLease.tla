----------------------------- MODULE FailoverLease ----------------------------
(***************************************************************************)
(* tryAcquireLease, which handleAutoFailover calls before it promotes a    *)
(* secondary, in several instances of the operator.  The lease is read     *)
(* first; the write that follows is a Create, which fails if there is one  *)
(* by now, or a merge patch without resourceVersion, which does not.       *)
(***************************************************************************)
EXTENDS Integers

CONSTANTS
    Instance,   \* the operator instances (HOSTNAME/pid)
    Nobody,     \* the holder of a lease that does not exist
    Duration,   \* leaseDurationSeconds
    MaxTime     \* bound on the clock

VARIABLES
    clock,     \* the time, at most MaxTime
    lease,     \* the Lease: holderIdentity and renewTime
    step,      \* where each instance is in handleAutoFailover
    now        \* the time it took when it entered tryAcquireLease

vars == <<clock, lease, step, now>>

Init ==
    /\ clock = 0
    /\ lease = [holder |-> Nobody, renewTime |-> 0]
    /\ step = [i \in Instance |-> "idle"]
    /\ now = [i \in Instance |-> 0]

Expired == clock > lease.renewTime + Duration

Enter(i) ==
    /\ step[i] = "idle"
    /\ step' = [step EXCEPT ![i] = "get"]
    /\ now' = [now EXCEPT ![i] = clock]
    /\ UNCHANGED <<clock, lease>>

(* Get, and the branch it decides.                                          *)
Get(i) ==
    /\ step[i] = "get"
    /\ step' = [step EXCEPT ![i] = CASE lease.holder = Nobody -> "create"
                                     [] lease.holder = i      -> "renew"
                                     [] lease.holder \notin {i, Nobody} /\ Expired -> "takeOver"
                                     [] OTHER -> "idle"]
    /\ UNCHANGED <<clock, lease, now>>

Acquired(i) ==
    /\ step' = [step EXCEPT ![i] = "failover"]
    /\ UNCHANGED <<clock, now>>

Create(i) ==
    /\ step[i] = "create"
    /\ \/ /\ lease.holder = Nobody
          /\ lease' = [holder |-> i, renewTime |-> now[i]]
          /\ Acquired(i)
       \/ /\ lease.holder # Nobody
          /\ step' = [step EXCEPT ![i] = "idle"]
          /\ UNCHANGED <<clock, lease, now>>

(* The patch holds what has changed since the Get: here renewTime alone.    *)
Renew(i) ==
    /\ step[i] = "renew"
    /\ lease' = [lease EXCEPT !.renewTime = now[i]]
    /\ Acquired(i)

TakeOver(i) ==
    /\ step[i] = "takeOver"
    /\ lease' = [holder |-> i, renewTime |-> now[i]]
    /\ Acquired(i)

(* The failover is over; the lease is neither renewed meanwhile nor given   *)
(* back.                                                                    *)
Leave(i) ==
    /\ step[i] = "failover"
    /\ step' = [step EXCEPT ![i] = "idle"]
    /\ UNCHANGED <<clock, lease, now>>

Tick == clock < MaxTime /\ clock' = clock + 1 /\ UNCHANGED <<lease, step, now>>

Next ==
    \/ Tick
    \/ \E i \in Instance : Enter(i) \/ Get(i) \/ Create(i) \/ Renew(i) \/ TakeOver(i) \/ Leave(i)

Spec == Init /\ [][Next]_vars

------------------------------------------------------------------------------
(* The instances that fail over with a lease that has not expired.          *)
Holders == {i \in Instance : step[i] = "failover" /\ clock <= now[i] + Duration}

(* "attempts to acquire a Kubernetes Lease for split-brain prevention": at  *)
(* most one instance has it.                                                *)
OneHolder == \A i, j \in Holders : i = j

==============================================================================
