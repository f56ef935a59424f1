--------------------------- MODULE BackupJobProofs ----------------------------
(***************************************************************************)
(* What holds of BackupJob for one or two statements and any number of     *)
(* events, faults and outdated reads.                                      *)
(***************************************************************************)
EXTENDS BackupJob, SequenceTheorems, TLAPS

USE DEF Phase, Finished

(* A patch keeps the type of the resource and leaves the cache alone.       *)
LEMMA PatchTypes ==
  ASSUME TypeOK, NEW s \in Status, Patch(s)
  PROVE  status' \in Status /\ cache' \in Status /\ coming' \in Seq(Status) /\ ended' \in BOOLEAN
  BY DEF TypeOK, Patch

LEMMA SetPhaseTypes ==
  ASSUME TypeOK, NEW p \in Phase, NEW copy, SetPhase(p, copy)
  PROVE  status' \in Status /\ cache' \in Status /\ coming' \in Seq(Status) /\ ended' \in BOOLEAN
  <1> DEFINE new == [status EXCEPT !.phase = IF copy = p THEN @ ELSE p,
                                   !.completion = (p = "Completed") \/ @]
  <1>1. new \in Status
    BY DEF TypeOK, Status
  <1>2. Patch(new)
    BY DEF SetPhase
  <1> QED
    BY <1>1, <1>2, PatchTypes

(* The two counters stay within their bounds, and so does the database. *)
LEMMA CounterTypes ==
  ASSUME TypeOK
  PROVE  /\ Fault => faults' \in 0..MaxFaults
         /\ Event => events' \in 0..MaxEvents
         /\ Executed /\ sent < Statements => db' \in 0..Statements
  BY JobAssumption DEF TypeOK, Fault, Event, Executed

(* What a returning Reconcile leaves of its locals and of the queue. *)
LEMMA ReturnTypes ==
  ASSUME TypeOK
  PROVE  ReturnError \/ ReturnDone =>
            pc' = "idle" /\ mine' \in Phase /\ sent' = 0 /\ queued' \in BOOLEAN
  <1>1. ReturnError => queued' \in BOOLEAN
    BY DEF ReturnError
  <1>2. ReturnDone => queued' \in BOOLEAN
    BY DEF ReturnDone, TypeOK
  <1> QED
    BY <1>1, <1>2 DEF ReturnError, ReturnDone, Return

(* The count starts at zero, and a statement is only sent while one is left. *)
SentInv ==
    /\ pc \in {"idle", "fetched", "started"} => sent = 0
    /\ pc = "execute" => sent < Statements

LEMMA TypesKept ==
  ASSUME TypeOK, SentInv, [Next]_vars
  PROVE  TypeOK' /\ SentInv'
  <1> USE JobAssumption DEF bounds
  <1>0. UNCHANGED vars => TypeOK' /\ SentInv'
    BY DEF TypeOK, SentInv, vars, resource, reconcile, bounds
  <1>1. ASSUME Fetch PROVE TypeOK' /\ SentInv'
    <2>1. cache.phase \in Phase
      BY DEF TypeOK, Status
    <2>2. queued' \in BOOLEAN /\ ended' \in BOOLEAN /\ UNCHANGED <<status, cache, coming, db, attempts, events, faults>>
      BY <1>1 DEF Fetch, resource, TypeOK
    <2>3. outdated' \in 0..MaxOutdated
      BY <1>1 DEF Fetch, TypeOK
    <2>4. /\ pc' \in {pc, "fetched"} /\ mine' \in Phase /\ sent' = sent
          /\ pc = "idle"
      BY <1>1, <2>1 DEF Fetch, reconcile, TypeOK
    <2> QED
      BY <2>2, <2>3, <2>4 DEF TypeOK, SentInv
  <1>2. ASSUME CredentialsMissing PROVE TypeOK' /\ SentInv'
    BY <1>2, SetPhaseTypes, CounterTypes
       DEF CredentialsMissing, TypeOK, SentInv, ReturnDone, Return
  <1>3. ASSUME SetRunning PROVE TypeOK' /\ SentInv'
    <2>1. status' \in Status /\ cache' \in Status /\ coming' \in Seq(Status) /\ ended' \in BOOLEAN
      BY <1>3, SetPhaseTypes DEF SetRunning, TypeOK, resource
    <2> QED
      BY <1>3, <2>1, ReturnTypes DEF SetRunning, TypeOK, SentInv
  <1>4. ASSUME SetStartTime PROVE TypeOK' /\ SentInv'
    <2>1. [status EXCEPT !.start = TRUE] \in Status /\ cache.phase \in Phase
      BY DEF TypeOK, Status
    <2>2. status' \in Status /\ cache' \in Status /\ coming' \in Seq(Status) /\ ended' \in BOOLEAN
      BY <1>4, <2>1, PatchTypes DEF SetStartTime, TypeOK, resource
    <2>3. queued' \in BOOLEAN /\ mine' \in Phase /\ attempts' \in Nat
      BY <1>4, <2>1, ReturnTypes DEF SetStartTime, TypeOK, Status
    <2>4. pc' \in {"idle", "execute"} /\ sent' = 0
      BY <1>4, ReturnTypes DEF SetStartTime, SentInv
    <2>5. UNCHANGED <<db, events, faults, outdated>>
      BY <1>4 DEF SetStartTime
    <2> QED
      BY <2>2, <2>3, <2>4, <2>5 DEF TypeOK, SentInv
  <1>5. ASSUME Execute PROVE TypeOK' /\ SentInv'
    BY <1>5, CounterTypes
       DEF Execute, LastStatement, TypeOK, SentInv, resource
  <1>6. ASSUME ExecuteFails PROVE TypeOK' /\ SentInv'
    BY <1>6, CounterTypes DEF ExecuteFails, TypeOK, SentInv, resource
  <1>7. ASSUME SetFailed PROVE TypeOK' /\ SentInv'
    <2>1. status' \in Status /\ cache' \in Status /\ coming' \in Seq(Status) /\ ended' \in BOOLEAN
      BY <1>7, SetPhaseTypes DEF SetFailed, TypeOK, resource
    <2> QED
      BY <1>7, <2>1, ReturnTypes DEF SetFailed, TypeOK, SentInv
  <1>8. ASSUME SetCompleted PROVE TypeOK' /\ SentInv'
    <2>1. status' \in Status /\ cache' \in Status /\ coming' \in Seq(Status) /\ ended' \in BOOLEAN
      BY <1>8, SetPhaseTypes DEF SetCompleted, TypeOK, resource
    <2> QED
      BY <1>8, <2>1, ReturnTypes DEF SetCompleted, TypeOK, SentInv
  <1>9. ASSUME CallFails PROVE TypeOK' /\ SentInv'
    BY <1>9, CounterTypes
       DEF CallFails, TypeOK, SentInv, ReturnError, Return, resource
  <1>10. ASSUME Trigger PROVE TypeOK' /\ SentInv'
    BY <1>10, CounterTypes DEF Trigger, TypeOK, SentInv, resource, reconcile
  <1>11. ASSUME Delete PROVE TypeOK' /\ SentInv'
    <2>1. [status EXCEPT !.phase = "Absent"] \in Status
      BY DEF TypeOK, Status
    <2> QED
      BY <1>11, <2>1, PatchTypes, CounterTypes DEF Delete, TypeOK, SentInv, reconcile
  <1>12. ASSUME Watch PROVE TypeOK' /\ SentInv'
    <2>1. Head(coming) \in Status /\ Tail(coming) \in Seq(Status)
      BY <1>12, HeadTailProperties DEF Watch, TypeOK
    <2> QED
      BY <1>12, <2>1 DEF Watch, TypeOK, SentInv, reconcile
  <1>13. ASSUME Restart PROVE TypeOK' /\ SentInv'
    BY <1>13, CounterTypes DEF Restart, TypeOK, SentInv, Return
  <1> QED
    BY <1>0, <1>1, <1>2, <1>3, <1>4, <1>5, <1>6, <1>7, <1>8, <1>9, <1>10, <1>11, <1>12, <1>13
       DEF Next, Reconcile

LEMMA InitTypes == Init => TypeOK /\ SentInv
  <1>1. Created \in Status
    BY DEF Created, Status
  <1>2. Init => ended \in BOOLEAN /\ queued \in BOOLEAN
    BY DEF Init
  <1> QED
    BY <1>1, <1>2, JobAssumption DEF Init, TypeOK, SentInv

(* Type correctness, however late the cache: Reconcile never sends more     *)
(* statements than the job has, however its attempts were cut short.        *)
THEOREM JobTypeCorrect == Spec => []TypeOK
  <1>1. Init => TypeOK /\ SentInv
    BY InitTypes
  <1> QED
    BY <1>1, TypesKept, PTL DEF Spec

------------------------------------------------------------------------------
(* The inductive invariants.                                                *)

(* No version with phase p is in the cache or on its way there.             *)
NotArrived(p) == cache.phase # p /\ \A i \in DOMAIN coming : coming[i].phase # p

(* The last version on its way is the current one.                          *)
CacheInv ==
    IF coming = <<>> THEN cache = status ELSE coming[Len(coming)] = status

(* A version without the resource is the last. *)
GoneInv == status.phase # "Absent" => NotArrived("Absent")

(* While no Reconcile has started from an outdated cache: one past its      *)
(* first read works on an unfinished job; one past the first patch on a     *)
(* Running one, unless the job was deleted.                                 *)
PhaseInv ==
    outdated = 0 =>
        /\ ended => status.phase \in Finished \cup {"Absent"}
        /\ pc # "idle" => ~ended /\ status.phase \notin Finished
        /\ pc = "fetched" => status.phase \in {mine, "Absent"}

(* What the outdated reads cannot change.                                   *)
StepInv ==
    /\ pc = "fetched" => mine \in {"Pending", "Running"}
    /\ pc = "started" => status.phase \in {"Running", "Absent"}
    /\ pc \in {"execute", "failed", "executed"} =>
          outdated > 0 \/ status.phase \in {"Running", "Absent"}

(* The server holds what the running Reconcile has executed. *)
ResultInv ==
    /\ pc = "execute" /\ sent > 0 => db = sent
    /\ pc = "executed" => db = Statements

(* What the attempts so far have cost, and what Reconcile may still spend:  *)
(* an unfinished job has an attempt to go, and so has a Reconcile under way *)
(* that was misled, unless there is no completion it could stumble over.    *)
Price == faults + 2 * outdated

AttemptInv ==
    /\ attempts <= 1 + Price
    /\ pc = "idle" /\ status.phase \in {"Pending", "Running"} => attempts <= Price
    /\ pc \in {"fetched", "started"} =>
          attempts + 1 <= Price \/ (attempts <= Price /\ NotArrived("Completed"))
    /\ pc \in {"execute", "executed"} => attempts <= Price \/ NotArrived("Completed")
    /\ pc = "failed" => attempts <= Price

JobInv ==
    TypeOK /\ SentInv /\ CacheInv /\ GoneInv /\ PhaseInv /\ StepInv /\ ResultInv /\ AttemptInv

(* A patch changes the phase to what it says, and the history with it; it   *)
(* is the last version on its way.                                          *)
LEMMA PatchEffect ==
  ASSUME TypeOK, NEW s \in Status, Patch(s)
  PROVE  /\ status' = s
         /\ ended' = (ended \/ s.phase \in Finished)
         /\ CacheInv'
         /\ \A p : NotArrived(p) /\ s.phase # p => NotArrived(p)'
  <1>1. coming' = Append(coming, s) /\ coming \in Seq(Status) /\ cache' = cache
    BY DEF Patch, TypeOK
  <1>2. /\ coming' # <<>>
        /\ Len(coming') = Len(coming) + 1
        /\ coming'[Len(coming')] = s
        /\ \A i \in DOMAIN coming' : coming'[i] = s \/ (i \in DOMAIN coming /\ coming'[i] = coming[i])
    BY <1>1
  <1> QED
    BY <1>1, <1>2 DEF Patch, CacheInv, NotArrived

LEMMA SetPhaseEffect ==
  ASSUME TypeOK, NEW p \in Phase, NEW copy, SetPhase(p, copy)
  PROVE  /\ status'.phase = IF copy = p THEN status.phase ELSE p
         /\ ended' = (ended \/ status'.phase \in Finished)
         /\ CacheInv'
         /\ \A q : NotArrived(q) /\ status'.phase # q => NotArrived(q)'
  <1> DEFINE new == [status EXCEPT !.phase = IF copy = p THEN @ ELSE p,
                                   !.completion = (p = "Completed") \/ @]
  <1>1. new \in Status /\ new.phase = IF copy = p THEN status.phase ELSE p
    BY DEF TypeOK, Status
  <1>2. Patch(new)
    BY DEF SetPhase
  <1> HIDE DEF new
  <1> QED
    BY <1>1, <1>2, PatchEffect

(* Steps that leave the resource alone.                                     *)
LEMMA ResourceKept ==
  ASSUME UNCHANGED resource
  PROVE  /\ UNCHANGED <<status, cache, coming, ended>>
         /\ CacheInv => CacheInv'
         /\ \A p : NotArrived(p) => NotArrived(p)'
  BY DEF resource, CacheInv, NotArrived

LEMMA NonEmpty ==
  ASSUME NEW t \in Seq(Status), NEW n \in Nat, n >= 2, Len(t) = n - 1
  PROVE  t # <<>> /\ Len(t) \in DOMAIN t
  BY LenProperties, EmptySeq

(* The versions arrive in order.                                            *)
LEMMA WatchEffect ==
  ASSUME TypeOK, CacheInv, Watch
  PROVE  /\ CacheInv'
         /\ \A p : NotArrived(p) => NotArrived(p)'
  <1>1. /\ coming \in Seq(Status) /\ coming # <<>>
        /\ cache' = Head(coming) /\ coming' = Tail(coming) /\ status' = status
    BY DEF Watch, TypeOK
  <1>2. /\ Head(coming) = coming[1] /\ 1 \in DOMAIN coming
        /\ Len(Tail(coming)) = Len(coming) - 1
        /\ \A i \in DOMAIN Tail(coming) : i + 1 \in DOMAIN coming /\ Tail(coming)[i] = coming[i + 1]
    BY <1>1
  <1>3. CacheInv'
    <2>1. CASE Len(coming) = 1
      <3>1. Tail(coming) = <<>>
        BY <1>1, <2>1
      <3> QED
        BY <1>1, <1>2, <2>1, <3>1 DEF CacheInv
    <2>2. CASE Len(coming) # 1
      <3>0. Len(coming) \in Nat /\ Len(coming) >= 2 /\ Tail(coming) \in Seq(Status)
        BY <1>1, <1>2, <2>2, LenProperties, HeadTailProperties
      <3>1. Tail(coming) # <<>> /\ Len(Tail(coming)) \in DOMAIN Tail(coming)
        BY <1>2, <3>0, NonEmpty
      <3>2. Tail(coming)[Len(Tail(coming))] = coming[Len(coming)]
        BY <1>1, <1>2, <3>1
      <3> QED
        BY <1>1, <3>1, <3>2 DEF CacheInv
    <2> QED
      BY <2>1, <2>2
  <1>4. \A p : NotArrived(p) => NotArrived(p)'
    BY <1>1, <1>2 DEF NotArrived
  <1> QED
    BY <1>3, <1>4

(* A fault pays for one attempt more; no step lowers the price.             *)
LEMMA Prices ==
  ASSUME TypeOK
  PROVE  /\ attempts \in Nat /\ Price \in Nat
         /\ UNCHANGED <<faults, outdated>> => Price' = Price
         /\ Fault /\ UNCHANGED outdated => Price' = Price + 1
         /\ outdated' = outdated + 1 /\ UNCHANGED faults => Price' = Price + 2
  BY JobAssumption DEF TypeOK, Price, Fault

LEMMA GoneKept ==
  ASSUME TypeOK, CacheInv, GoneInv, [Next]_vars
  PROVE  GoneInv'
  <1>t. status \in Status
    BY DEF TypeOK
  <1>u. ASSUME UNCHANGED resource PROVE GoneInv'
    BY <1>u, ResourceKept DEF GoneInv
  <1>p. ASSUME NEW s \in Status, Patch(s), status.phase # "Absent" PROVE GoneInv'
    BY <1>p, PatchEffect DEF GoneInv
  <1>s. ASSUME NEW p \in Phase, NEW copy, SetPhase(p, copy), status.phase # "Absent"
        PROVE  GoneInv'
    BY <1>s, SetPhaseEffect DEF GoneInv
  <1>1. ASSUME \/ Fetch \/ Execute \/ ExecuteFails \/ CallFails \/ Trigger \/ UNCHANGED vars
        PROVE  GoneInv'
    BY <1>1, <1>u DEF Fetch, Execute, ExecuteFails, CallFails, Trigger, vars
  <1>2. ASSUME \/ CredentialsMissing \/ SetRunning \/ SetFailed \/ SetCompleted
        PROVE  GoneInv'
    BY <1>2, <1>u, <1>s DEF CredentialsMissing, SetRunning, SetFailed, SetCompleted
  <1>3. ASSUME SetStartTime \/ Delete PROVE GoneInv'
    <2>1. [status EXCEPT !.start = TRUE] \in Status /\ [status EXCEPT !.phase = "Absent"] \in Status
      BY <1>t DEF Status
    <2> QED
      BY <1>3, <2>1, <1>u, <1>p DEF SetStartTime, Delete
  <1>4. ASSUME Watch PROVE GoneInv'
    BY <1>4, WatchEffect DEF GoneInv, Watch
  <1>5. ASSUME Restart PROVE GoneInv'
    BY <1>5 DEF GoneInv, NotArrived, Restart
  <1> QED
    BY <1>1, <1>2, <1>3, <1>4, <1>5 DEF Next, Reconcile

LEMMA JobInvKept ==
  ASSUME JobInv, [Next]_vars
  PROVE  CacheInv' /\ PhaseInv' /\ StepInv' /\ ResultInv' /\ AttemptInv'
  <1> USE JobAssumption
  <1> DEFINE I == CacheInv /\ PhaseInv /\ StepInv /\ ResultInv /\ AttemptInv
  <1> USE Prices DEF JobInv, PhaseInv, StepInv, ResultInv, AttemptInv, bounds
  <1>t. /\ status \in Status /\ status.phase \in Phase /\ cache.phase \in Phase
        /\ outdated \in Nat /\ sent \in Nat /\ db \in Nat
    BY DEF TypeOK, Status
  <1>0. UNCHANGED vars => I'
    BY ResourceKept DEF vars, reconcile
  <1>1. ASSUME Fetch PROVE I'
    <2>0. UNCHANGED <<status, cache, coming, ended>> /\ CacheInv'
          /\ (\A p : NotArrived(p) => NotArrived(p)')
      BY <1>1, ResourceKept DEF Fetch
    <2>1. CASE Skip(cache.phase)
      BY <1>1, <2>0, <2>1 DEF Fetch, reconcile
    <2>2. CASE ~Skip(cache.phase) /\ coming = <<>>
      <3>1. cache = status /\ status.phase \in {"Pending", "Running"}
        BY <1>t, <2>2 DEF CacheInv, Skip
      <3>2. NotArrived("Completed")
        BY <2>2, <3>1 DEF NotArrived
      <3> QED
        BY <1>1, <1>t, <2>0, <2>2, <3>1, <3>2 DEF Fetch
    <2>3. CASE ~Skip(cache.phase) /\ coming # <<>>
      <3>1. cache.phase \in {"Pending", "Running"}
        BY <1>t, <2>3 DEF Skip
      <3> QED
        BY <1>1, <1>t, <2>0, <2>3, <3>1 DEF Fetch
    <2> QED
      BY <2>1, <2>2, <2>3
  <1>2. ASSUME CredentialsMissing PROVE I'
    <2>1. status'.phase = "Failed" /\ CacheInv'
      BY <1>2, SetPhaseEffect DEF CredentialsMissing
    <2> QED
      BY <1>2, <2>1 DEF CredentialsMissing, ReturnDone, Return
  <1>3. ASSUME SetRunning PROVE I'
    <2>1. CASE mine = "Running"
      <3>1. UNCHANGED <<status, cache, coming, ended>> /\ CacheInv'
            /\ (\A p : NotArrived(p) => NotArrived(p)')
        BY <1>3, <2>1, ResourceKept DEF SetRunning
      <3> QED
        BY <1>3, <1>t, <2>1, <3>1 DEF SetRunning, SentInv
    <2>2. CASE mine # "Running" /\ status.phase # "Absent"
      <3>1. /\ SetPhase("Running", mine) /\ pc' = "started"
            /\ UNCHANGED <<attempts, faults, outdated>>
        BY <1>3, <2>2 DEF SetRunning
      <3>2. /\ status'.phase = "Running" /\ ended' = (ended \/ "Running" \in Finished)
            /\ CacheInv' /\ (NotArrived("Completed") => NotArrived("Completed")')
        BY <2>2, <3>1, SetPhaseEffect
      <3> QED
        BY <1>3, <3>1, <3>2 DEF SetRunning
    <2>3. CASE mine # "Running" /\ status.phase = "Absent"
      BY <1>3, <2>3, ResourceKept DEF SetRunning, ReturnError, Return
    <2> QED
      BY <2>1, <2>2, <2>3
  <1>4. ASSUME SetStartTime PROVE I'
    <2>0. UNCHANGED <<faults, outdated>> /\ pc = "started"
      BY <1>4 DEF SetStartTime
    <2>1. CASE status.phase = "Absent" \/ cache.phase = "Absent"
      BY <1>4, <2>1, ResourceKept DEF SetStartTime, ReturnError, Return
    <2>2. CASE status.phase # "Absent" /\ cache.phase # "Absent"
      <3>1. pc' = "execute" /\ attempts' = attempts + 1 /\ sent' = 0
        BY <1>4, <2>2 DEF SetStartTime, SentInv
      <3>2. /\ status'.phase = status.phase
            /\ (ended' = ended \/ ended' = (ended \/ status.phase \in Finished))
            /\ CacheInv'
            /\ (NotArrived("Completed") => NotArrived("Completed")')
        <4>1. [status EXCEPT !.start = TRUE] \in Status
              /\ [status EXCEPT !.start = TRUE].phase = status.phase
          BY <1>t DEF Status
        <4>2. CASE cache.start
          BY <1>4, <2>2, <4>2, ResourceKept DEF SetStartTime
        <4>3. CASE ~cache.start
          <5>1. Patch([status EXCEPT !.start = TRUE])
            BY <1>4, <2>2, <4>3 DEF SetStartTime
          <5> QED
            BY <2>0, <4>1, <5>1, PatchEffect
        <4> QED
          BY <4>2, <4>3
      <3>3. PhaseInv' /\ StepInv'
        <4>1. outdated = 0 => ~ended /\ status.phase \notin Finished
          BY <2>0
        <4>2. outdated = 0 => ~ended'
          BY <3>2, <4>1
        <4> QED
          BY <1>t, <2>0, <2>2, <3>1, <3>2, <4>1, <4>2
      <3>4. ResultInv'
        BY <3>1
      <3>5. AttemptInv'
        BY <2>0, <3>1, <3>2
      <3> QED
        BY <3>2, <3>3, <3>4, <3>5
    <2> QED
      BY <2>1, <2>2
  <1>5. ASSUME Execute PROVE I'
    <2>1. UNCHANGED <<status, cache, coming, ended>> /\ CacheInv'
          /\ (\A p : NotArrived(p) => NotArrived(p)')
      BY <1>5, ResourceKept DEF Execute
    <2> QED
      BY <1>5, <1>t, <2>1 DEF Execute, Executed, LastStatement, TypeOK
  <1>6. ASSUME ExecuteFails PROVE I'
    <2>1. UNCHANGED <<status, cache, coming, ended>> /\ CacheInv'
      BY <1>6, ResourceKept DEF ExecuteFails
    <2> QED
      BY <1>6, <1>t, <2>1 DEF ExecuteFails
  <1>7. ASSUME SetFailed PROVE I'
    <2>1. CASE status.phase = "Absent"
      BY <1>7, <2>1, ResourceKept DEF SetFailed, ReturnError, Return
    <2>2. CASE status.phase # "Absent"
      <3>1. SetPhase("Failed", mine) /\ pc' = "idle" /\ UNCHANGED <<attempts, faults, outdated>>
        BY <1>7, <2>2 DEF SetFailed, ReturnDone, Return
      <3>2. /\ status'.phase \in {status.phase, "Failed"}
            /\ ended' = (ended \/ status'.phase \in Finished)
            /\ CacheInv'
        BY <3>1, SetPhaseEffect
      <3> QED
        BY <1>7, <1>t, <2>2, <3>1, <3>2 DEF SetFailed
    <2> QED
      BY <2>1, <2>2
  <1>8. ASSUME SetCompleted PROVE I'
    <2>1. CASE status.phase = "Absent" \/ cache.phase = "Absent"
      <3>1. status.phase = "Absent"
        BY <2>1 DEF GoneInv, NotArrived
      <3> QED
        BY <1>8, <3>1, ResourceKept DEF SetCompleted, ReturnError, Return
    <2>2. CASE status.phase # "Absent" /\ cache.phase # "Absent"
      <3>1. /\ SetPhase("Completed", cache.phase) /\ pc' = "idle"
            /\ UNCHANGED <<attempts, faults, outdated>>
        BY <1>8, <2>2 DEF SetCompleted, ReturnDone, Return
      <3>2. /\ status'.phase = IF cache.phase = "Completed" THEN status.phase ELSE "Completed"
            /\ ended' = (ended \/ status'.phase \in Finished)
            /\ CacheInv'
        BY <3>1, SetPhaseEffect
      <3>3. attempts <= Price \/ status'.phase = "Completed"
        BY <1>8, <3>2 DEF SetCompleted, NotArrived
      <3> QED
        BY <1>8, <1>t, <2>2, <3>1, <3>2, <3>3 DEF SetCompleted
    <2> QED
      BY <2>1, <2>2
  <1>9. ASSUME CallFails PROVE I'
    BY <1>9, <1>t, ResourceKept DEF CallFails, ReturnError, Return
  <1>10. ASSUME Trigger PROVE I'
    BY <1>10, ResourceKept DEF Trigger, reconcile
  <1>11. ASSUME Delete PROVE I'
    <2> DEFINE new == [status EXCEPT !.phase = "Absent"]
    <2>1. new \in Status /\ new.phase = "Absent"
      BY <1>t DEF Status
    <2>2. Patch(new)
      BY <1>11 DEF Delete
    <2> HIDE DEF new
    <2>3. /\ status'.phase = "Absent" /\ ended' = (ended \/ "Absent" \in Finished) /\ CacheInv'
          /\ (NotArrived("Completed") => NotArrived("Completed")')
      BY <2>1, <2>2, PatchEffect
    <2> QED
      BY <1>11, <2>3 DEF Delete, reconcile
  <1>12. ASSUME Watch PROVE I'
    BY <1>12, WatchEffect DEF Watch, reconcile
  <1>13. ASSUME Restart PROVE I'
    BY <1>13, <1>t DEF Restart, Return, CacheInv
  <1> QED
    BY <1>0, <1>1, <1>2, <1>3, <1>4, <1>5, <1>6, <1>7, <1>8, <1>9, <1>10, <1>11, <1>12, <1>13
       DEF Next, Reconcile

LEMMA JobInvInit == Init => JobInv
  BY InitTypes, JobAssumption
     DEF Init, Created, JobInv, CacheInv, GoneInv, NotArrived, PhaseInv, StepInv, ResultInv, AttemptInv, Price

LEMMA JobInvariant == Spec => []JobInv
  <1>1. JobInv /\ [Next]_vars => JobInv'
    BY TypesKept, GoneKept, JobInvKept DEF JobInv
  <1> QED
    BY <1>1, JobInvInit, PTL DEF Spec

(* However the cache lags: a finished Backup or Restore is executed again   *)
(* only after an outdated read, and every attempt but the first is paid for *)
(* by a fault, or two by an outdated read.                                  *)
THEOREM AttemptsAccountedCorrect == Spec => []AttemptsAccounted
  <1>1. JobInv => AttemptsAccounted
    <2> SUFFICES ASSUME JobInv PROVE AttemptsAccounted
      OBVIOUS
    <2>1. outdated \in Nat
      BY DEF JobInv, TypeOK
    <2>2. attempts <= 1 + faults + 2 * outdated
      BY <2>1 DEF JobInv, AttemptInv, Price, TypeOK
    <2> QED
      BY <2>1, <2>2 DEF JobInv, PhaseInv, AttemptsAccounted
  <1> QED
    BY <1>1, JobInvariant, PTL

------------------------------------------------------------------------------
(* Refinement.                                                              *)

LEMMA StepRefines ==
  ASSUME JobInv, [Next]_vars
  PROVE  [Job!Next]_(Job!vars)
  <1> USE DEF JobInv, bounds
  <1> DEFINE Same == status'.phase = status.phase /\ outdated' = outdated
             Free == outdated > 0
  <1>t. /\ status \in Status /\ status.phase \in Phase /\ outdated \in Nat
        /\ (db = Statements) \in BOOLEAN /\ (db' = Statements) \in BOOLEAN
    BY DEF TypeOK, Status
  <1>q. ASSUME Same, db' = db PROVE [Job!Next]_(Job!vars)
    BY <1>q DEF Job!vars
  <1>w. ASSUME Same, Free \/ status.phase \in {"Running", "Absent"}
        PROVE  [Job!Next]_(Job!vars)
    BY <1>w, <1>t DEF Job!Next, Job!Work
  <1>m. ASSUME NEW p \in {"Running", "Completed", "Failed"}, NEW copy, SetPhase(p, copy),
               UNCHANGED <<db, outdated>>, status.phase # "Absent",
               \/ Free
               \/ p = "Running" /\ status.phase = "Pending"
               \/ p = "Completed" /\ status.phase = "Running"
               \/ p = "Failed" /\ status.phase \in {"Pending", "Running"},
               p = "Completed" => db = Statements
        PROVE  [Job!Next]_(Job!vars)
    <2>1. status'.phase = IF copy = p THEN status.phase ELSE p
      BY <1>m, SetPhaseEffect
    <2>2. CASE copy = p
      BY <1>m, <2>1, <2>2, <1>q
    <2>3. CASE copy # p
      BY <1>m, <2>1, <2>3 DEF Job!Next, Job!Start, Job!Complete, Job!Fail, Job!Move
    <2> QED
      BY <2>2, <2>3
  <1> HIDE DEF Same, Free
  <1>0. UNCHANGED vars => [Job!Next]_(Job!vars)
    BY <1>q DEF vars, resource, Same
  <1>1. ASSUME Fetch PROVE [Job!Next]_(Job!vars)
    <2>1. CASE UNCHANGED outdated
      BY <1>1, <2>1, <1>q DEF Fetch, resource, Same
    <2>2. CASE outdated' = outdated + 1
      <3>1. outdated' > 0 /\ status' = status /\ db' = db
        BY <1>1, <1>t, <2>2 DEF Fetch, resource
      <3> QED
        BY <3>1 DEF Job!Next, Job!ReadOld
    <2> QED
      BY <1>1, <2>1, <2>2 DEF Fetch
  <1>2. ASSUME CredentialsMissing PROVE [Job!Next]_(Job!vars)
    <2>1. Free \/ status.phase \in {"Pending", "Running"}
      BY <1>2, <1>t DEF CredentialsMissing, PhaseInv, StepInv, Free
    <2> QED
      BY <1>2, <2>1, <1>m DEF CredentialsMissing
  <1>3. ASSUME SetRunning PROVE [Job!Next]_(Job!vars)
    <2>1. CASE mine = "Running" \/ status.phase = "Absent"
      BY <1>3, <2>1, <1>q DEF SetRunning, resource, Same
    <2>2. CASE mine # "Running" /\ status.phase # "Absent"
      <3>1. Free \/ status.phase = "Pending"
        BY <1>3, <1>t, <2>2 DEF SetRunning, PhaseInv, StepInv, Free
      <3> QED
        BY <1>3, <2>2, <3>1, <1>m DEF SetRunning
    <2> QED
      BY <2>1, <2>2
  <1>4. ASSUME SetStartTime PROVE [Job!Next]_(Job!vars)
    <2>1. [status EXCEPT !.start = TRUE] \in Status
          /\ [status EXCEPT !.start = TRUE].phase = status.phase
      BY <1>t DEF Status
    <2>2. Same /\ db' = db
      BY <1>4, <2>1, PatchEffect DEF SetStartTime, resource, Same
    <2> QED
      BY <2>2, <1>q
  <1>5. ASSUME Execute \/ ExecuteFails PROVE [Job!Next]_(Job!vars)
    <2>1. Same /\ (Free \/ status.phase \in {"Running", "Absent"})
      BY <1>5 DEF Execute, ExecuteFails, resource, StepInv, Same, Free
    <2> QED
      BY <2>1, <1>w
  <1>6. ASSUME SetFailed PROVE [Job!Next]_(Job!vars)
    <2>1. CASE status.phase = "Absent"
      BY <1>6, <2>1, <1>q DEF SetFailed, resource, Same
    <2>2. CASE status.phase # "Absent"
      <3>1. Free \/ status.phase = "Running"
        BY <1>6, <2>2 DEF SetFailed, StepInv, Free
      <3> QED
        BY <1>6, <2>2, <3>1, <1>m DEF SetFailed
    <2> QED
      BY <2>1, <2>2
  <1>7. ASSUME SetCompleted PROVE [Job!Next]_(Job!vars)
    <2>1. CASE status.phase = "Absent" \/ cache.phase = "Absent"
      BY <1>7, <2>1, <1>q DEF SetCompleted, resource, Same
    <2>2. CASE status.phase # "Absent" /\ cache.phase # "Absent"
      <3>1. db = Statements /\ (Free \/ status.phase = "Running")
        BY <1>7, <2>2 DEF SetCompleted, StepInv, ResultInv, Free
      <3> QED
        BY <1>7, <2>2, <3>1, <1>m DEF SetCompleted
    <2> QED
      BY <2>1, <2>2
  <1>8. ASSUME CallFails \/ Trigger \/ Watch PROVE [Job!Next]_(Job!vars)
    BY <1>8, <1>q DEF CallFails, Trigger, Watch, resource, Same
  <1>9. ASSUME Delete PROVE Job!Delete
    <2> DEFINE new == [status EXCEPT !.phase = "Absent"]
    <2>1. new \in Status /\ new.phase = "Absent"
      BY <1>t DEF Status
    <2>2. Patch(new)
      BY <1>9 DEF Delete
    <2> HIDE DEF new
    <2>3. status'.phase = "Absent"
      BY <2>1, <2>2, PatchEffect
    <2> QED
      BY <1>9, <2>3 DEF Delete, Job!Delete
  <1>10. ASSUME Restart PROVE [Job!Next]_(Job!vars)
    <2>1. CASE UNCHANGED db
      BY <1>10, <2>1, <1>q DEF Restart, Same
    <2>2. CASE pc = "execute"
      <3>1. Same /\ (Free \/ status.phase \in {"Running", "Absent"})
        BY <1>10, <2>2 DEF Restart, StepInv, Same, Free
      <3> QED
        BY <3>1, <1>w
    <2> QED
      BY <1>10, <2>1, <2>2 DEF Restart
  <1> QED
    BY <1>0, <1>1, <1>2, <1>3, <1>4, <1>5, <1>6, <1>7, <1>8, <1>9, <1>10
       DEF Next, Reconcile, Job!Next

(* The Backup and Restore controllers implement the one-shot job, which a   *)
(* finished job may only leave once an outdated copy of it was read.        *)
THEOREM ImplementsOneShotCorrect == Spec => ImplementsOneShot
  <1>1. Init => Job!Init
    <2>1. Init => status.phase = "Pending" /\ db # Statements /\ ~(outdated > 0)
      BY JobAssumption DEF Init, Created
    <2> QED
      BY <2>1 DEF Job!Init
  <1>2. JobInv /\ [Next]_vars => [Job!Next]_(Job!vars)
    BY StepRefines
  <1> QED
    BY <1>1, <1>2, JobInvariant, PTL DEF Spec, ImplementsOneShot, Job!Spec

==============================================================================
