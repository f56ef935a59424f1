------------------------ MODULE ScheduledBackupProofs -------------------------
(***************************************************************************)
(* Theorems about ScheduledBackup, for any period, retention and length of *)
(* the history, and any bounds.                                            *)
(***************************************************************************)
EXTENDS ScheduledBackup, FiniteSetTheorems, SequenceTheorems, TLAPS

(* Reconcile has a condition to set, a Backup to follow up, or one to       *)
(* create.                                                                  *)
TypeInv ==
    /\ TypeOK
    /\ pc = "condition" => mine.mode # "Active"
    /\ pc = "active" => mine.active # None
    /\ pc \in {"create", "record"} => now \in Name /\ now <= clock

(* Why the cleanup may delete t.                                            *)
Deletable(t) ==
    /\ backups[t] \in {"Completed", "Absent"}
    /\ \/ clock - t > MaxAge
       \/ /\ MaxCount > 0
          /\ Cardinality({u \in NewerThan(t, Name) : backups[u] \in {"Completed", "Absent"}})
                >= MaxCount

(* Nothing the cleanup has listed becomes worth keeping.                    *)
SweepInv == pc = "delete" => \A t \in todo : Deletable(t)

(* The part of the status that Reconcile computes from its copy.            *)
Counted(s) == <<s.active, s.last, s.total, s.successful, s.failed, s.history>>

Increasing(h) == \A i, j \in DOMAIN h : i < j => h[i] < h[j]

(* While every copy was current when it was read, it is so when its counters *)
(* are written, and times only go up.                                       *)
StatusInv ==
    outdated = 0 =>
        /\ pc \in {"condition", "active", "due", "create", "record"} => Counted(mine) = Counted(sb)
        /\ pc \in {"due", "create", "record", "list", "delete"} => sb.active = None
        /\ pc \in {"create", "record"} => NextTime(sb.last) <= now
        /\ sb.active \in {None, sb.last}
        /\ Increasing(sb.history)
        /\ \A i \in DOMAIN sb.history :
              sb.history[i] <= sb.last /\ (sb.active # None => sb.history[i] < sb.active)
        /\ sb.successful + sb.failed + (IF sb.active = None THEN 0 ELSE 1) <= sb.total
        /\ LET n == sb.successful + sb.failed
           IN  Len(sb.history) = IF n < MaxHistory THEN n ELSE MaxHistory

(* Then the total counts Backups up to the last recorded one, and misses    *)
(* those whose creation could not be recorded.                              *)
TotalInv ==
    outdated = 0 =>
        /\ sb.total <= Cardinality({t \in Made : t <= sb.last})
        /\ Cardinality(Made \ Unrecorded) <= sb.total + faults

(* Whatever was read: when Backups are made, and when one can be active.    *)
MadeInv ==
    /\ \A t \in Made : Period <= t /\ t <= clock
    /\ pc = "record" => now \in Made
    /\ pc \in {"create", "record"} => Period <= now /\ \A t \in Made : t <= now
    /\ pc \in {"list", "delete"} => sb.active = None
    /\ pc = "due" => mine.active = None

(* Reconcile is about to act on what is no longer so: the Backup it follows *)
(* up is not the active one, or another is active, or none is due.          *)
Misled ==
    \/ pc = "active" /\ mine.active # sb.active
    \/ pc = "due" /\ (sb.active # None \/ mine.last # sb.last)
    \/ pc \in {"create", "record"} /\ (sb.active # None \/ NextTime(sb.last) > now)

(* A Backup was made that the status does not know of.                      *)
Ahead == pc # "record" /\ \E u \in Made : u > sb.last

(* The Backups that run unnoticed, those that are for the due time of an    *)
(* earlier one, and those the cleanup has to care for.                      *)
Orphans == {t \in Name : Unfinished(t)} \ ({sb.active} \cup Unrecorded)
Second  == {t \in Made : \E u \in Made : u < t /\ t < NextTime(u)}
Loose   == {t \in Name : Unfinished(t) \/ t \in Completed} \ ({sb.active} \cup Unrecorded)

Mishaps == faults + outdated
Owed(c) == IF c THEN 1 ELSE 0

(* Each mishap pays for one: what a misled Reconcile, or one that does not  *)
(* know of a Backup, is still going to do is paid for in advance.           *)
CostInv ==
    /\ Cardinality(Orphans) + Owed(Misled) <= Mishaps
    /\ Cardinality(Second) + Owed(Ahead) + Owed(Misled /\ pc # "record") <= Mishaps

(* The cleanup follows every completion that is noticed, and leaves         *)
(* MaxCount Backups and those that were not completed yet.                  *)
RetentionInv ==
    MaxCount > 0 =>
        /\ pc \notin {"list", "delete"} => Cardinality(Loose) + Owed(Misled) <= MaxCount + Mishaps
        /\ pc \in {"list", "delete"} => Cardinality(Loose) <= MaxCount + Mishaps + 1
        /\ pc = "delete" => Cardinality(Loose \ todo) <= MaxCount + Mishaps

------------------------------------------------------------------------------
(* Due times, histories and cardinalities.                                 *)

(* Multiplication by the period keeps the order.                            *)
LEMMA MultiplesOrdered ==
  ASSUME NEW a \in Nat, NEW b \in Nat, a <= b
  PROVE  a * Period <= b * Period
  BY ScheduleAssumption

(* The quotient by the period, and what it is the quotient of.              *)
LEMMA Quotient ==
  ASSUME NEW t \in Nat
  PROVE  /\ t \div Period \in Nat
         /\ (t \div Period) * Period <= t
         /\ t < ((t \div Period) + 1) * Period
  BY ScheduleAssumption, SMTT(30)

(* The next due time is later, at least one period after the start, and     *)
(* the same or later for a later time.                                      *)
LEMMA NextTimes ==
  ASSUME NEW t \in Nat
  PROVE  /\ NextTime(t) \in Nat /\ t < NextTime(t) /\ Period <= NextTime(t)
         /\ \A u \in Nat : t <= u => NextTime(t) <= NextTime(u)
  <1>1. NextTime(t) \in Nat /\ t < NextTime(t)
    <2> DEFINE a == t \div Period
    <2>1. a \in Nat /\ t < (a + 1) * Period
      BY Quotient
    <2> HIDE DEF a
    <2>2. (a + 1) * Period \in Nat
      BY <2>1, ScheduleAssumption
    <2> QED
      BY <2>1, <2>2 DEF NextTime, a
  <1>2. Period <= NextTime(t)
    <2>1. 1 * Period <= ((t \div Period) + 1) * Period
      BY Quotient, MultiplesOrdered
    <2> QED
      BY <2>1, ScheduleAssumption DEF NextTime
  <1>3. ASSUME NEW u \in Nat, t <= u PROVE NextTime(t) <= NextTime(u)
    <2> DEFINE a == t \div Period
               b == u \div Period
    <2>1. /\ a \in Nat /\ b \in Nat /\ a * Period <= t /\ u < (b + 1) * Period
      BY Quotient
    <2> HIDE DEF a, b
    <2>2. a <= b
      <3> SUFFICES ASSUME ~(a <= b) PROVE FALSE
        OBVIOUS
      <3>1. b + 1 <= a /\ b + 1 \in Nat
        BY <2>1
      <3>2. (b + 1) * Period <= a * Period
        BY <2>1, <3>1, MultiplesOrdered
      <3>3. a * Period \in Nat /\ (b + 1) * Period \in Nat
        BY <2>1, ScheduleAssumption
      <3> QED
        BY <1>3, <2>1, <3>2, <3>3
    <2>3. (a + 1) * Period <= (b + 1) * Period
      BY <2>1, <2>2, MultiplesOrdered
    <2> QED
      BY <2>3 DEF NextTime, a, b
  <1> QED
    BY <1>1, <1>2, <1>3

(* A history that is appended to and truncated stays in order and within    *)
(* its length.                                                              *)
LEMMA HistoryGrows ==
  ASSUME NEW h \in Seq(Name), NEW x \in Name
  PROVE  LET g == Truncate(Append(h, x)) IN
         /\ g \in Seq(Name)
         /\ Len(g) = IF Len(h) + 1 > MaxHistory THEN MaxHistory ELSE Len(h) + 1
         /\ \A i \in DOMAIN g : g[i] = x \/ \E k \in DOMAIN h : g[i] = h[k]
         /\ Increasing(h) /\ (\A i \in DOMAIN h : h[i] < x) => Increasing(g)
  <1> DEFINE a == Append(h, x)
             g == Truncate(a)
             d == Len(a) - Len(g)
  <1>1. /\ a \in Seq(Name) /\ Len(a) = Len(h) + 1 /\ Len(h) \in Nat
        /\ \A i \in 1..Len(h) : a[i] = h[i]
        /\ a[Len(h) + 1] = x
    OBVIOUS
  <1>2. MaxHistory \in Nat \ {0}
    BY ScheduleAssumption
  <1> HIDE DEF a
  <1>3. /\ g \in Seq(Name) /\ d \in Nat
        /\ Len(g) = IF Len(h) + 1 > MaxHistory THEN MaxHistory ELSE Len(h) + 1
        /\ \A i \in 1..Len(g) : g[i] = a[i + d]
    <2>1. CASE Len(a) > MaxHistory
      <3> DEFINE m == Len(a) - MaxHistory + 1
      <3>1. m \in Int /\ Len(a) \in Int /\ m >= 1 /\ m <= Len(a) /\ Len(a) - m + 1 = MaxHistory
        BY <1>1, <1>2, <2>1
      <3>2. \A i \in m..Len(a) : a[i] \in Name
        BY <1>1, <3>1
      <3>3. /\ SubSeq(a, m, Len(a)) \in Seq(Name)
            /\ Len(SubSeq(a, m, Len(a))) = MaxHistory
            /\ \A i \in 1..MaxHistory : SubSeq(a, m, Len(a))[i] = a[m + i - 1]
        BY <3>1, <3>2, SubSeqProperties
      <3>4. g = SubSeq(a, m, Len(a))
        BY <2>1 DEF Truncate
      <3> QED
        BY <1>1, <1>2, <2>1, <3>1, <3>3, <3>4
    <2>2. CASE ~(Len(a) > MaxHistory)
      <3>1. g = a
        BY <2>2 DEF Truncate
      <3> QED
        BY <1>1, <1>2, <2>2, <3>1
    <2> QED
      BY <2>1, <2>2
  <1>4. DOMAIN g = 1..Len(g) /\ DOMAIN h = 1..Len(h) /\ Len(g) \in Nat
    BY <1>3
  <1>5. Len(g) + d = Len(h) + 1 /\ d \in Nat
    BY <1>1, <1>3, <1>4
  <1> HIDE DEF g, d
  <1>6. \A i \in DOMAIN g : g[i] = x \/ \E k \in DOMAIN h : g[i] = h[k]
    <2> SUFFICES ASSUME NEW i \in 1..Len(g) PROVE g[i] = x \/ \E k \in 1..Len(h) : g[i] = h[k]
      BY <1>4
    <2>1. i + d \in 1..Len(h) \/ i + d = Len(h) + 1
      BY <1>1, <1>4, <1>5
    <2> QED
      BY <1>1, <1>3, <2>1
  <1>7. ASSUME Increasing(h), \A i \in DOMAIN h : h[i] < x PROVE Increasing(g)
    <2> SUFFICES ASSUME NEW i \in 1..Len(g), NEW j \in 1..Len(g), i < j PROVE g[i] < g[j]
      BY <1>4 DEF Increasing
    <2>1. /\ i + d \in 1..Len(h) /\ i + d < j + d
          /\ j + d \in 1..Len(h) \/ j + d = Len(h) + 1
      BY <1>1, <1>3, <1>4, <1>5
    <2>2. g[i] = h[i + d] /\ g[j] = a[j + d]
      BY <1>1, <1>3, <2>1
    <2> QED
      BY <1>1, <1>4, <1>7, <2>1, <2>2 DEF Increasing
  <1> QED
    BY <1>3, <1>6, <1>7 DEF g, a

(* Sets of Backups are finite.                                              *)
LEMMA Finite ==
  ASSUME NEW S \in SUBSET Name
  PROVE  /\ IsFiniteSet(S) /\ Cardinality(S) \in Nat
         /\ \A T \in SUBSET S : Cardinality(T) <= Cardinality(S)
         /\ \A T \in SUBSET S : Cardinality(T) = Cardinality(S) => T = S
  <1>1. IsFiniteSet(Name)
    BY ScheduleAssumption, FS_Interval DEF Name
  <1>2. IsFiniteSet(S)
    BY <1>1, FS_Subset
  <1>3. Cardinality(S) \in Nat
    BY <1>2, FS_CardinalityType
  <1>4. \A T \in SUBSET S : Cardinality(T) <= Cardinality(S)
                            /\ (Cardinality(S) = Cardinality(T) => S = T)
    BY <1>2, FS_Subset
  <1> QED
    BY <1>2, <1>3, <1>4

(* Of the Backups in C, fewer than n of which are newer, there are at most  *)
(* n: the number of newer ones tells them apart.                            *)
LEMMA NewestFew ==
  ASSUME NEW C \in SUBSET Name, NEW n \in Nat
  PROVE  Cardinality({t \in C : Cardinality(NewerThan(t, C)) < n}) <= n
  <1> DEFINE K == {t \in C : Cardinality(NewerThan(t, C)) < n}
             f == [t \in K |-> Cardinality(NewerThan(t, C))]
  <1>1. \A t \in Name : NewerThan(t, C) \in SUBSET Name
    BY DEF NewerThan
  <1>2. f \in [K -> 0..n - 1]
    BY <1>1, Finite
  <1>3. ASSUME NEW t \in C, NEW u \in C, t < u
        PROVE  Cardinality(NewerThan(t, C)) # Cardinality(NewerThan(u, C))
    <2>1. /\ NewerThan(u, C) \subseteq NewerThan(t, C)
          /\ u \in NewerThan(t, C) /\ u \notin NewerThan(u, C)
      <3>1. \A v \in C : v \in Int
        BY DEF Name
      <3>2. \A v \in C : v > u => v > t
        BY <1>3, <3>1
      <3>3. u > t /\ ~(u > u)
        BY <1>3, <3>1
      <3> QED
        BY <3>2, <3>3 DEF NewerThan
    <2>2. NewerThan(t, C) \in SUBSET Name
      BY <1>1
    <2> QED
      BY <2>1, <2>2, Finite
  <1>4. f \in Injection(K, 0..n - 1)
    <2>1. \A t, u \in C : t # u => t < u \/ u < t
      BY DEF Name
    <2>2. \A t, u \in K : f[t] = f[u] => t = u
      BY <1>3, <2>1
    <2> HIDE DEF f, K
    <2> QED
      BY <1>2, <2>2 DEF Injection, IsInjective
  <1>5. IsFiniteSet(0..n - 1) /\ Cardinality(0..n - 1) = n
    BY FS_Interval
  <1> QED
    BY <1>4, <1>5, FS_Injection

------------------------------------------------------------------------------
(* Types.                                                                  *)

(* The fields of a schedule.                                                *)
LEMMA ScheduleFields ==
  ASSUME NEW s \in Schedule
  PROVE  /\ s.mode \in Mode /\ s.active \in Name \cup {None} /\ s.history \in Seq(Name)
         /\ s.last \in Nat /\ s.successful \in Nat /\ s.failed \in Nat /\ s.total \in Nat
         /\ Len(s.history) \in Nat /\ DOMAIN s.history = 1..Len(s.history)
         /\ \A i \in DOMAIN s.history : s.history[i] \in Name
  <1>1. /\ s.mode \in Mode /\ s.active \in Name \cup {None} /\ s.history \in Seq(Name)
        /\ s.last \in Time /\ s.successful \in Nat /\ s.failed \in Nat /\ s.total \in Nat
    BY DEF Schedule
  <1> QED
    BY <1>1, ScheduleAssumption DEF Time

(* The statuses Reconcile writes.                                           *)
LEMMA StatusTypes ==
  ASSUME NEW s \in Schedule
  PROVE  /\ \A r \in Reason : [s EXCEPT !.reason = r] \in Schedule
         /\ \A m \in Mode : [s EXCEPT !.mode = m] \in Schedule
         /\ \A n \in Nat : [s EXCEPT !.next = n] \in Schedule
         /\ [s EXCEPT !.active = None] \in Schedule
         /\ \A n \in Nat, h \in Seq(Name), r \in Reason :
               /\ [s EXCEPT !.active = None, !.successful = n, !.history = h, !.reason = r]
                     \in Schedule
               /\ [s EXCEPT !.active = None, !.failed = n, !.history = h, !.reason = r]
                     \in Schedule
         /\ \A n \in Nat, t \in Name :
               [s EXCEPT !.active = t, !.last = t, !.total = n] \in Schedule
  <1>1. \A t \in Name : t \in Time
    BY ScheduleAssumption DEF Name, Time
  <1> QED
    BY <1>1 DEF Schedule

(* The new version is a schedule, the history no longer than it may be.     *)
LEMMA PatchTypes ==
  ASSUME TypeOK, NEW s \in Schedule, Patch(s), Len(s.history) <= MaxHistory
  PROVE  sb' \in Schedule /\ Len(sb'.history) <= MaxHistory /\ older' \in Seq(Schedule)
  <1>1. sb \in Schedule /\ older \in Seq(Schedule)
    BY DEF TypeOK
  <1> QED
    BY <1>1 DEF Patch

(* The initial state is well typed.                                         *)
LEMMA TypeInit == Init => TypeInv
  <1>1. New \in Schedule /\ Len(New.history) <= MaxHistory
    <2>1. <<>> \in Seq(Name) /\ Len(<<>>) = 0
      OBVIOUS
    <2>2. 0 \in Time
      BY ScheduleAssumption DEF Time
    <2>3. New \in Schedule
      BY <2>1, <2>2 DEF New, Schedule, Mode, Reason, None
    <2> QED
      BY <2>1, <2>3, ScheduleAssumption DEF New
  <1>2. 0 \in Time /\ 0 \in 0..MaxEdits /\ 0 \in 0..MaxFaults /\ 0 \in 0..MaxOutdated
        /\ <<>> \in Seq(Schedule)
    BY ScheduleAssumption DEF Time
  <1> QED
    BY <1>1, <1>2 DEF Init, TypeInv, TypeOK

(* Nothing is left of a Reconcile that has returned.                        *)
LEMMA ReturnTypes ==
  Return => pc' = "idle" /\ mine' \in Schedule /\ now' \in Time /\ todo' \subseteq Name
  <1>1. New \in Schedule
    BY ScheduleAssumption DEF New, Schedule, Mode, Reason, None, Time
  <1> QED
    BY <1>1, ScheduleAssumption DEF Return, Time

(* Every step keeps the types.                                              *)
LEMMA TypeStep == TypeInv /\ [Next]_vars => TypeInv'
  <1> SUFFICES ASSUME TypeInv, [Next]_vars PROVE TypeInv'
    OBVIOUS
  <1> USE DEF resource, reconcile, bounds
  <1>1. /\ TypeOK /\ sb \in Schedule /\ older \in Seq(Schedule) /\ mine \in Schedule
        /\ Len(sb.history) <= MaxHistory
        /\ backups \in [Name -> Phase \cup {"Never"}]
        /\ edits \in Nat /\ faults \in Nat /\ edits \in 0..MaxEdits /\ faults \in 0..MaxFaults
        /\ outdated \in 0..MaxOutdated /\ MaxOutdated \in Nat
        /\ now \in Time /\ clock \in Time /\ todo \subseteq Name
        /\ \A t \in Time : t \in Nat
        /\ MaxEdits \in Nat /\ MaxFaults \in Nat /\ MaxTime \in Nat
    BY ScheduleAssumption DEF TypeInv, TypeOK, Time
  <1>2. /\ mine.active \in Name \cup {None} /\ mine.history \in Seq(Name)
        /\ mine.mode \in Mode /\ mine.last \in Nat
        /\ mine.successful + 1 \in Nat /\ mine.failed + 1 \in Nat /\ mine.total + 1 \in Nat
    BY <1>1, ScheduleFields
  <1>3. ASSUME NEW s \in Schedule, Patch(s), s.history = sb.history
        PROVE  sb' \in Schedule /\ Len(sb'.history) <= MaxHistory /\ older' \in Seq(Schedule)
    BY <1>1, <1>3, PatchTypes
  <1>4. Fault => faults' \in 0..MaxFaults
    BY <1>1 DEF Fault
  <1>5. CASE Fetch
    <2>1. mine' \in Schedule /\ older' \in Seq(Schedule)
      <3>1. CASE mine' = sb /\ older' = <<>>
        BY <1>1, <3>1
      <3>2. CASE \E i \in DOMAIN older : mine' = older[i] /\ older' = SubSeq(older, i, Len(older))
        <4>1. PICK i \in DOMAIN older : mine' = older[i] /\ older' = SubSeq(older, i, Len(older))
          BY <3>2
        <4>2. i \in Int /\ Len(older) \in Int /\ \A k \in i..Len(older) : older[k] \in Schedule
          BY <1>1, LenProperties
        <4>3. older' \in Seq(Schedule)
          BY <4>1, <4>2, SubSeqProperties
        <4> QED
          BY <1>1, <4>1, <4>3, ElementOfSeq
      <3> QED
        BY <1>5, <3>1, <3>2 DEF Fetch
    <2>2. outdated' \in 0..MaxOutdated
      BY <1>1, <1>5 DEF Fetch
    <2>3. /\ pc' \in {"condition", "active", "due"}
          /\ pc' = "condition" => mine'.mode # "Active"
          /\ pc' = "active" => mine'.active # None
          /\ UNCHANGED <<sb, now, todo, clock, backups, edits, faults>>
      BY <1>5 DEF Fetch
    <2> QED
      BY <1>1, <2>1, <2>2, <2>3 DEF TypeInv, TypeOK
  <1>6. CASE SetCondition
    <2> DEFINE reason == IF mine.reason = mine.mode THEN sb.reason ELSE mine.mode
    <2>1. reason \in Reason
      BY <1>1, <1>2, <1>6 DEF SetCondition, TypeInv, Mode, Reason, Schedule
    <2>2. [sb EXCEPT !.reason = reason] \in Schedule
      BY <1>1, <2>1, StatusTypes
    <2>3. sb' \in Schedule /\ Len(sb'.history) <= MaxHistory /\ older' \in Seq(Schedule)
      BY <1>1, <1>3, <1>6, <2>2 DEF SetCondition, Schedule
    <2> QED
      BY <1>1, <1>6, <2>3, ReturnTypes DEF SetCondition, TypeInv, TypeOK
  <1>7. CASE CheckActive
    <2>1. mine.active \in Name
      BY <1>2, <1>7 DEF CheckActive, TypeInv
    <2> DEFINE h == Truncate(Append(mine.history, mine.active))
    <2>2. h \in Seq(Name) /\ Len(h) <= MaxHistory
      <3>1. /\ h \in Seq(Name)
            /\ Len(h) = IF Len(mine.history) + 1 > MaxHistory THEN MaxHistory
                        ELSE Len(mine.history) + 1
        BY <1>2, <2>1, HistoryGrows
      <3>2. Len(mine.history) \in Nat /\ MaxHistory \in Nat
        BY <1>2, ScheduleAssumption
      <3> QED
        BY <3>1, <3>2
    <2> HIDE DEF h
    <2>3. /\ "BackupCompleted" \in Reason /\ "BackupFailed" \in Reason
      BY DEF Reason
    <2>4. OnCompleted => sb' \in Schedule /\ Len(sb'.history) <= MaxHistory /\ older' \in Seq(Schedule)
      <3> DEFINE s == [sb EXCEPT !.active = None, !.successful = mine.successful + 1,
                                 !.history = h, !.reason = "BackupCompleted"]
      <3>1. s \in Schedule /\ s.history = h
        BY <1>1, <1>2, <2>2, <2>3, StatusTypes DEF Schedule
      <3> QED
        BY <1>1, <2>2, <3>1, PatchTypes DEF OnCompleted, h
    <2>5. OnFailed => sb' \in Schedule /\ Len(sb'.history) <= MaxHistory /\ older' \in Seq(Schedule)
      <3> DEFINE s == [sb EXCEPT !.active = None, !.failed = mine.failed + 1,
                                 !.history = h, !.reason = "BackupFailed"]
      <3>1. s \in Schedule /\ s.history = h
        BY <1>1, <1>2, <2>2, <2>3, StatusTypes DEF Schedule
      <3> QED
        BY <1>1, <2>2, <3>1, PatchTypes DEF OnFailed, h
    <2>6. ClearActive => sb' \in Schedule /\ Len(sb'.history) <= MaxHistory /\ older' \in Seq(Schedule)
      <3>1. [sb EXCEPT !.active = None] \in Schedule
        BY <1>1, StatusTypes
      <3> QED
        BY <1>1, <1>3, <3>1 DEF ClearActive, Schedule
    <2>7. sb' \in Schedule /\ Len(sb'.history) <= MaxHistory /\ older' \in Seq(Schedule)
      BY <1>1, <1>7, <2>4, <2>5, <2>6 DEF CheckActive
    <2>8. (pc' = "list" /\ UNCHANGED <<mine, now, todo>>) \/ Return
      BY <1>7 DEF CheckActive
    <2>9. UNCHANGED <<clock, backups, edits, faults, outdated>>
      BY <1>7 DEF CheckActive
    <2> QED
      BY <1>1, <2>7, <2>8, <2>9, ReturnTypes DEF TypeInv, TypeOK
  <1>8. CASE CheckDue
    <2>1. /\ sb' \in Schedule /\ Len(sb'.history) <= MaxHistory /\ older' \in Seq(Schedule)
          /\ faults' \in 0..MaxFaults
      <3>1. NextTime(mine.last) \in Nat
        BY <1>2, NextTimes
      <3>2. [sb EXCEPT !.next = NextTime(mine.last)] \in Schedule
        BY <1>1, <3>1, StatusTypes
      <3>3. [sb EXCEPT !.next = NextTime(mine.last)].history = sb.history
        BY <1>1 DEF Schedule
      <3> QED
        BY <1>1, <1>3, <1>4, <1>8, <3>2, <3>3 DEF CheckDue, SetNextTime
    <2>0. mine' \in Schedule
      <3>1. [sb EXCEPT !.next = NextTime(mine.last)] \in Schedule
        BY <1>1, <1>2, NextTimes, StatusTypes
      <3> QED
        BY <1>1, <1>8, <3>1, ReturnTypes DEF CheckDue
    <2>2. CASE Return
      BY <1>1, <1>8, <2>1, <2>2, ReturnTypes DEF CheckDue, TypeInv, TypeOK
    <2>3. CASE ~Return
      <3>1. /\ Due /\ pc' \in {"condition", "create"}
            /\ pc' = "condition" => mine'.mode # "Active"
            /\ now' = clock /\ UNCHANGED <<todo, clock, backups, edits, outdated>>
        BY <1>8, <2>3 DEF CheckDue
      <3>2. clock \in Name
        <4>1. NextTime(mine.last) \in Nat /\ Period <= NextTime(mine.last)
          BY <1>2, NextTimes
        <4>2. Period \in Nat \ {0}
          BY ScheduleAssumption
        <4>3. clock \in 0..MaxTime /\ NextTime(mine.last) <= clock
          BY <1>1, <3>1 DEF Due, Time
        <4> QED
          BY <4>1, <4>2, <4>3 DEF Name
      <3> QED
        BY <1>1, <2>0, <2>1, <3>1, <3>2 DEF TypeInv, TypeOK
    <2> QED
      BY <2>2, <2>3
  <1>9. CASE Create
    <2>1. CASE Return
      BY <1>1, <1>9, <2>1, ReturnTypes DEF Create, TypeInv, TypeOK, Phase
    <2>2. CASE ~Return
      <3>1. /\ pc = "create" /\ pc' = "record" /\ backups' = [backups EXCEPT ![now] = "Pending"]
            /\ UNCHANGED <<mine, now, todo, clock, resource, edits, faults, outdated>>
        BY <1>9, <2>2 DEF Create
      <3> QED
        BY <1>1, <3>1 DEF TypeInv, TypeOK, Phase
    <2> QED
      BY <2>1, <2>2
  <1>10. CASE Record
    <2>1. now \in Name
      BY <1>10 DEF Record, TypeInv
    <2>2. [sb EXCEPT !.active = now, !.last = now, !.total = mine.total + 1] \in Schedule
      BY <1>1, <1>2, <2>1, StatusTypes
    <2>3. sb' \in Schedule /\ Len(sb'.history) <= MaxHistory /\ older' \in Seq(Schedule)
      BY <1>1, <1>3, <1>10, <2>2 DEF Record, RecordCreated, Schedule
    <2> QED
      BY <1>1, <1>10, <2>3, ReturnTypes DEF Record, TypeInv, TypeOK
  <1>11. CASE List
    BY <1>1, <1>11 DEF List, Expired, Excess, Completed, TypeInv, TypeOK
  <1>12. CASE Delete
    <2>1. CASE Return
      BY <1>1, <1>12, <2>1, ReturnTypes DEF Delete, TypeInv, TypeOK, Phase
    <2>2. CASE ~Return
      <3>1. PICK t \in todo : backups' = [backups EXCEPT ![t] = "Absent"] /\ todo' = todo \ {t}
        BY <1>12, <2>2 DEF Delete
      <3>2. pc = "delete" /\ UNCHANGED <<pc, mine, now, clock, resource, edits, faults, outdated>>
        BY <1>12, <2>2 DEF Delete
      <3> QED
        BY <1>1, <3>1, <3>2 DEF TypeInv, TypeOK, Phase
    <2> QED
      BY <2>1, <2>2
  <1>13. CASE Interrupted
    BY <1>1, <1>4, <1>13, ReturnTypes DEF Interrupted, TypeInv, TypeOK
  <1>14. CASE Tick
    BY <1>1, <1>14 DEF Tick, TypeInv, TypeOK, Time
  <1>15. CASE EditSchedule
    <2>1. PICK m \in Mode : Patch([sb EXCEPT !.mode = m])
      BY <1>15 DEF EditSchedule
    <2>2. [sb EXCEPT !.mode = m] \in Schedule
      BY <1>1, StatusTypes
    <2>3. sb' \in Schedule /\ Len(sb'.history) <= MaxHistory /\ older' \in Seq(Schedule)
      BY <1>1, <1>3, <2>1, <2>2 DEF Schedule
    <2> QED
      BY <1>1, <1>15, <2>3 DEF EditSchedule, TypeInv, TypeOK
  <1>16. ASSUME NEW t \in Name, JobStep(t) \/ DeleteBackup(t) PROVE TypeInv'
    <2>1. backups' \in [Name -> Phase \cup {"Never"}]
      BY <1>1, <1>16 DEF JobStep, DeleteBackup, Phase, Finished
    <2>2. edits' \in 0..MaxEdits /\ UNCHANGED <<clock, resource, reconcile, faults, outdated>>
      BY <1>1, <1>16 DEF JobStep, DeleteBackup
    <2> QED
      BY <1>1, <2>1, <2>2 DEF TypeInv, TypeOK
  <1>17. CASE UNCHANGED vars
    BY <1>17 DEF vars, TypeInv, TypeOK
  <1> QED
    BY <1>5, <1>6, <1>7, <1>8, <1>9, <1>10, <1>11, <1>12, <1>13, <1>14, <1>15, <1>16, <1>17
    DEF Next, Reconcile

(* TypeInv holds of every behaviour.                                        *)
LEMMA TypeInvariant == Spec => []TypeInv
  BY TypeInit, TypeStep, PTL DEF Spec

(* For every value of the constants, the ScheduledBackup's variables keep   *)
(* their types, and the history its limit.                                  *)
THEOREM ScheduleTypeCorrect == Spec => []TypeOK
  <1>1. TypeInv => TypeOK
    BY DEF TypeInv
  <1> QED
    BY <1>1, TypeInvariant, PTL

------------------------------------------------------------------------------
(* The cleanup.                                                            *)

(* What may happen to the Backup u: it is created, goes on, or is deleted.  *)
LEMMA BackupSteps ==
  ASSUME TypeInv, [Next]_vars, NEW u \in Name, backups'[u] # backups[u]
  PROVE  \/ /\ Create /\ pc' = "record" /\ u = now /\ now' = now
            /\ backups[u] \in {"Never", "Absent"} /\ backups'[u] = "Pending"
         \/ /\ JobStep(u) /\ Unfinished(u) /\ backups'[u] \in {"Running", "Completed", "Failed"}
         \/ /\ DeleteBackup(u) /\ backups'[u] = "Absent"
         \/ /\ Delete /\ u \in todo /\ backups'[u] = "Absent"
  <1> USE DEF resource, reconcile
  <1>1. backups \in [Name -> Phase \cup {"Never"}]
    BY DEF TypeInv, TypeOK
  <1>2. Create \/ Delete \/ \E t \in Name : JobStep(t) \/ DeleteBackup(t)
    BY DEF Next, Reconcile, Fetch, SetCondition, CheckActive, CheckDue, Record, List, Interrupted,
           Tick, EditSchedule, vars
  <1>3. CASE Create
    <2>1. /\ pc' = "record" /\ now' = now /\ backups[now] \in {"Never", "Absent"}
          /\ backups' = [backups EXCEPT ![now] = "Pending"]
      BY <1>3 DEF Create
    <2> QED
      BY <1>1, <1>3, <2>1
  <1>4. CASE Delete
    <2>1. PICK t \in todo : backups' = [backups EXCEPT ![t] = "Absent"]
      BY <1>4 DEF Delete
    <2> QED
      BY <1>1, <1>4, <2>1
  <1>5. ASSUME NEW t \in Name, JobStep(t)
        PROVE  JobStep(u) /\ Unfinished(u) /\ backups'[u] \in {"Running", "Completed", "Failed"}
    BY <1>1, <1>5 DEF JobStep, Unfinished, Finished
  <1>6. ASSUME NEW t \in Name, DeleteBackup(t)
        PROVE  DeleteBackup(u) /\ backups'[u] = "Absent"
    BY <1>1, <1>6 DEF DeleteBackup
  <1> QED
    BY <1>2, <1>3, <1>4, <1>5, <1>6

(* While the cleanup is at work, a Backup that may be deleted stays so.     *)
LEMMA DeletableStays ==
  ASSUME TypeInv, [Next]_vars, pc = "delete", NEW t \in Name, Deletable(t)
  PROVE  Deletable(t)'
  <1>1. \A u \in Name : backups[u] \in {"Completed", "Absent"} =>
                            backups'[u] \in {"Completed", "Absent"}
    BY BackupSteps DEF Create, Unfinished
  <1>2. clock \in Int /\ clock' \in Int /\ clock <= clock' /\ t \in Int
    <2>1. clock \in 0..MaxTime
      BY DEF TypeInv, TypeOK, Time
    <2>2. clock' = clock \/ clock' = clock + 1
      BY DEF Next, Reconcile, Fetch, SetCondition, CheckActive, CheckDue, Create, Record, List,
             Delete, Interrupted, Tick, EditSchedule, JobStep, DeleteBackup, vars
    <2> QED
      BY <2>1, <2>2 DEF Name
  <1>3. clock - t > MaxAge => clock' - t > MaxAge
    BY <1>2, ScheduleAssumption
  <1>4. ASSUME Cardinality({u \in NewerThan(t, Name) : backups[u] \in {"Completed", "Absent"}})
                  >= MaxCount
        PROVE  Cardinality({u \in NewerThan(t, Name) : backups'[u] \in {"Completed", "Absent"}})
                  >= MaxCount
    <2> DEFINE S == {u \in NewerThan(t, Name) : backups[u] \in {"Completed", "Absent"}}
               T == {u \in NewerThan(t, Name) : backups'[u] \in {"Completed", "Absent"}}
    <2>1. S \in SUBSET T /\ T \in SUBSET Name
      BY <1>1 DEF NewerThan
    <2>2. Cardinality(S) >= MaxCount
      BY <1>4
    <2> HIDE DEF S, T
    <2>3. Cardinality(S) \in Nat /\ Cardinality(T) \in Nat /\ Cardinality(S) <= Cardinality(T)
      BY <2>1, Finite
    <2>4. Cardinality(T) >= MaxCount
      BY <2>2, <2>3, ScheduleAssumption
    <2> QED
      BY <2>4 DEF T
  <1> QED
    BY <1>1, <1>3, <1>4 DEF Deletable, NewerThan

(* SweepInv is kept.                                                        *)
LEMMA SweepStep == TypeInv /\ SweepInv /\ [Next]_vars => SweepInv'
  <1> SUFFICES ASSUME TypeInv, SweepInv, [Next]_vars, pc' = "delete", NEW t \in todo'
               PROVE  Deletable(t)'
    BY DEF SweepInv
  <1> USE DEF resource, reconcile
  <1>1. CASE List
    <2>1. /\ UNCHANGED <<clock, backups>> /\ t \in Completed
          /\ \/ clock - t > MaxAge
             \/ MaxCount > 0 /\ Cardinality(NewerThan(t, Completed)) >= MaxCount
      BY <1>1 DEF List, Expired, Excess
    <2>2. ASSUME MaxCount > 0, Cardinality(NewerThan(t, Completed)) >= MaxCount
          PROVE  Cardinality({u \in NewerThan(t, Name) : backups[u] \in {"Completed", "Absent"}})
                    >= MaxCount
      <3> DEFINE S == NewerThan(t, Completed)
                 T == {u \in NewerThan(t, Name) : backups[u] \in {"Completed", "Absent"}}
      <3>1. S \in SUBSET T /\ T \in SUBSET Name
        BY DEF NewerThan, Completed
      <3>2. Cardinality(S) >= MaxCount
        BY <2>2
      <3> HIDE DEF S, T
      <3>3. Cardinality(S) \in Nat /\ Cardinality(T) \in Nat /\ Cardinality(S) <= Cardinality(T)
        BY <3>1, Finite
      <3>4. Cardinality(T) >= MaxCount
        BY <3>2, <3>3, ScheduleAssumption
      <3> QED
        BY <3>4 DEF T
    <2>3. Deletable(t)
      BY <2>1, <2>2 DEF Deletable, Completed
    <2> QED
      BY <2>1, <2>3 DEF Deletable, NewerThan
  <1>2. CASE ~List
    <2>1. pc = "delete" /\ t \in todo
      <3>1. CASE Delete
        BY <3>1 DEF Delete, Return
      <3>2. CASE ~Delete
        BY <1>2, <3>2
        DEF Next, Reconcile, Fetch, SetCondition, CheckActive, CheckDue, Create, Record,
            Interrupted, Return, Tick, EditSchedule, JobStep, DeleteBackup, vars
      <3> QED
        BY <3>1, <3>2
    <2>2. t \in Name /\ Deletable(t)
      BY <2>1 DEF SweepInv, TypeInv, TypeOK
    <2> QED
      BY <2>1, <2>2, DeletableStays
  <1> QED
    BY <1>1, <1>2

(* For every period, retention and bound, and however stale the cache:      *)
(* cleanupRetention deletes only Backups that have completed and are too    *)
(* old or too many.                                                         *)
THEOREM RetentionKeepsCorrect == Spec => RetentionKeeps
  <1>1. Init => SweepInv
    BY DEF Init, SweepInv
  <1>2. TypeInv /\ SweepInv /\ [Next]_vars =>
          [\A t \in Name : pc = "delete" /\ reconcile' # reconcile /\ backups'[t] # backups[t] =>
             /\ backups[t] = "Completed"
             /\ \/ clock - t > MaxAge
                \/ Cardinality({u \in NewerThan(t, Name) : backups[u] \in {"Completed", "Absent"}})
                      >= MaxCount /\ MaxCount > 0]_vars
    <2> SUFFICES ASSUME TypeInv, SweepInv, [Next]_vars, NEW t \in Name, pc = "delete",
                        reconcile' # reconcile, backups'[t] # backups[t]
                 PROVE  /\ backups[t] = "Completed"
                        /\ \/ clock - t > MaxAge
                           \/ /\ Cardinality({u \in NewerThan(t, Name) :
                                                backups[u] \in {"Completed", "Absent"}}) >= MaxCount
                              /\ MaxCount > 0
      OBVIOUS
    <2>1. Delete /\ t \in todo /\ backups'[t] = "Absent"
      <3>1. ~JobStep(t) /\ ~DeleteBackup(t) /\ ~Create
        BY DEF JobStep, DeleteBackup, Create
      <3> QED
        BY <3>1, BackupSteps
    <2>2. Deletable(t)
      BY <2>1 DEF SweepInv
    <2> QED
      BY <2>1, <2>2 DEF Deletable
  <1>3. Spec => []SweepInv
    BY <1>1, SweepStep, TypeInvariant, PTL DEF Spec
  <1> QED
    BY <1>2, <1>3, TypeInvariant, PTL DEF Spec, RetentionKeeps

------------------------------------------------------------------------------
(* The status, while every Reconcile has started with a current copy.      *)

(* Steps that neither write the status nor move to a step that counts on it.*)
LEMMA StatusFrame ==
  ASSUME TypeInv, StatusInv, outdated = 0, Counted(sb') = Counted(sb),
         pc' = "idle" \/ UNCHANGED <<pc, mine, now>>
  PROVE  StatusInv'
  <1>1. /\ sb'.active = sb.active /\ sb'.last = sb.last /\ sb'.total = sb.total
        /\ sb'.successful = sb.successful /\ sb'.failed = sb.failed /\ sb'.history = sb.history
    BY DEF Counted
  <1> QED
    BY <1>1 DEF StatusInv, Increasing, Counted, NextTime

(* Outdated reads are never fewer.                                          *)
LEMMA WithoutOutdated ==
  ASSUME TypeInv, [Next]_vars, outdated' = 0
  PROVE  outdated = 0
  <1>1. outdated \in Nat
    BY ScheduleAssumption DEF TypeInv, TypeOK
  <1>2. outdated' = outdated \/ outdated' = outdated + 1
    BY DEF Next, Reconcile, Fetch, SetCondition, CheckActive, CheckDue, Create, Record, List,
           Delete, Interrupted, Tick, EditSchedule, JobStep, DeleteBackup, bounds, vars
  <1> QED
    BY <1>1, <1>2

(* StatusInv is kept.                                                       *)
LEMMA StatusStep == ASSUME TypeInv, StatusInv, [Next]_vars PROVE StatusInv'
  <1> SUFFICES ASSUME outdated' = 0 PROVE StatusInv'
    BY DEF StatusInv
  <1> USE DEF resource, reconcile
  <1>0. outdated = 0
    BY WithoutOutdated
  <1> USE <1>0
  <1>1. /\ sb \in Schedule /\ mine \in Schedule /\ sb' \in Schedule
        /\ sb.active \in Name \cup {None} /\ sb.history \in Seq(Name) /\ sb.last \in Nat
        /\ sb.successful \in Nat /\ sb.failed \in Nat /\ sb.total \in Nat
        /\ Len(sb.history) \in Nat /\ DOMAIN sb.history = 1..Len(sb.history)
        /\ \A i \in DOMAIN sb.history : sb.history[i] \in Name
    <2>1. sb \in Schedule /\ mine \in Schedule
      BY DEF TypeInv, TypeOK
    <2>2. sb' \in Schedule
      BY TypeStep DEF TypeInv, TypeOK
    <2> QED
      BY <2>1, <2>2, ScheduleFields
  <1>2. \A t \in Name : t \in Nat /\ t # None
    BY DEF Name, None
  <1>3. CASE Fetch
    <2>1. /\ mine' = sb /\ UNCHANGED sb
          /\ pc' \in {"condition", "active", "due"} /\ (pc' = "due" => sb.active = None)
      <3>1. outdated' # outdated + 1
        OBVIOUS
      <3> QED
        BY <1>3, <3>1 DEF Fetch
    <2> QED
      BY <2>1 DEF StatusInv, Counted
  <1>4. CASE SetCondition \/ EditSchedule
    <2>1. /\ Counted(sb') = Counted(sb)
          /\ pc' = "idle" \/ UNCHANGED <<pc, mine, now>>
      <3>1. \E v : sb' = [sb EXCEPT !.reason = v] \/ sb' = [sb EXCEPT !.mode = v]
        BY <1>4 DEF SetCondition, EditSchedule, Patch
      <3> QED
        BY <1>1, <1>4, <3>1 DEF SetCondition, EditSchedule, Return, Counted, Schedule
    <2> QED
      BY <2>1, StatusFrame
  <1>5. CASE CheckActive
    <2>1. /\ pc = "active" /\ Counted(mine) = Counted(sb) /\ mine.active \in Name
      BY <1>1, <1>5, ScheduleFields DEF CheckActive, TypeInv, StatusInv
    <2>2. /\ mine.active = sb.active /\ mine.history = sb.history /\ sb.active \in Name
          /\ mine.successful = sb.successful /\ mine.failed = sb.failed /\ sb.active = sb.last
      BY <2>1 DEF Counted, StatusInv, None, Name
    <2>3. pc' \in {"idle", "list"}
      BY <1>5 DEF CheckActive, Return
    <2>4. CASE UNCHANGED resource /\ Return
      BY <2>4, StatusFrame DEF Return
    <2>5. CASE ClearActive
      <3>1. /\ sb'.active = None /\ sb'.last = sb.last /\ sb'.total = sb.total
            /\ sb'.successful = sb.successful /\ sb'.failed = sb.failed /\ sb'.history = sb.history
        BY <1>1, <2>5 DEF ClearActive, Patch, Schedule
      <3>2. sb.successful + sb.failed + 0 <= sb.total
        BY <1>1, <1>2, <2>2 DEF StatusInv
      <3> QED
        BY <2>3, <3>1, <3>2 DEF StatusInv, Increasing
    <2>6. CASE OnCompleted \/ OnFailed
      <3> DEFINE h == Truncate(Append(sb.history, sb.active))
                 n == sb.successful + sb.failed
      <3>1. /\ sb'.active = None /\ sb'.last = sb.last /\ sb'.total = sb.total /\ sb'.history = h
            /\ \/ sb'.successful = sb.successful + 1 /\ sb'.failed = sb.failed
               \/ sb'.successful = sb.successful /\ sb'.failed = sb.failed + 1
        <4>1. CASE OnCompleted
          <5>1. sb' = [sb EXCEPT !.active = None, !.successful = sb.successful + 1, !.history = h,
                                 !.reason = "BackupCompleted"]
            BY <2>2, <4>1 DEF OnCompleted, Patch
          <5> HIDE DEF h
          <5> QED
            BY <1>1, <5>1 DEF Schedule
        <4>2. CASE OnFailed
          <5>1. sb' = [sb EXCEPT !.active = None, !.failed = sb.failed + 1, !.history = h,
                                 !.reason = "BackupFailed"]
            BY <2>2, <4>2 DEF OnFailed, Patch
          <5> HIDE DEF h
          <5> QED
            BY <1>1, <5>1 DEF Schedule
        <4> QED
          BY <2>6, <4>1, <4>2
      <3>2. /\ h \in Seq(Name)
            /\ Len(h) = IF Len(sb.history) + 1 > MaxHistory THEN MaxHistory
                        ELSE Len(sb.history) + 1
            /\ \A i \in DOMAIN h :
                  h[i] = sb.active \/ \E k \in DOMAIN sb.history : h[i] = sb.history[k]
            /\ Increasing(sb.history) /\ (\A i \in DOMAIN sb.history : sb.history[i] < sb.active)
                  => Increasing(h)
        BY <1>1, <2>2, HistoryGrows
      <3> HIDE DEF h
      <3>3. Increasing(h)
        BY <1>2, <2>2, <3>2 DEF StatusInv
      <3>4. \A i \in DOMAIN h : h[i] <= sb.last
        <4>1. \A k \in DOMAIN sb.history : sb.history[k] <= sb.last
          BY DEF StatusInv
        <4>2. sb.active <= sb.last
          BY <1>1, <2>2
        <4> QED
          BY <2>2, <3>2, <4>1, <4>2
      <3>5. sb.successful + sb.failed + 1 <= sb.total
        BY <1>2, <2>2 DEF StatusInv
      <3>6. sb'.successful + sb'.failed = n + 1
        BY <1>1, <3>1
      <3>7. Len(h) = IF n + 1 < MaxHistory THEN n + 1 ELSE MaxHistory
        <4>1. Len(sb.history) = IF n < MaxHistory THEN n ELSE MaxHistory
          BY DEF StatusInv
        <4>2. n \in Nat /\ MaxHistory \in Nat
          BY <1>1, ScheduleAssumption
        <4> HIDE DEF n
        <4> QED
          BY <3>2, <4>1, <4>2
      <3>8. n + 1 + 0 <= sb.total
        BY <1>1, <3>5
      <3> HIDE DEF n
      <3> QED
        BY <2>3, <3>1, <3>3, <3>4, <3>6, <3>7, <3>8 DEF StatusInv, Increasing
    <2> QED
      BY <1>5, <2>4, <2>5, <2>6 DEF CheckActive
  <1>6. CASE CheckDue
    <2>1. pc = "due" /\ Counted(sb') = Counted(sb)
      <3>1. UNCHANGED sb \/ sb' = [sb EXCEPT !.next = NextTime(mine.last)]
        BY <1>6 DEF CheckDue, SetNextTime, Patch
      <3> QED
        BY <1>1, <1>6, <3>1 DEF CheckDue, Counted, Schedule
    <2>2. CASE Return
      BY <2>1, <2>2, StatusFrame DEF Return
    <2>3. CASE ~Return
      <3>1. /\ NextTime(mine.last) <= clock /\ pc' \in {"condition", "create"}
            /\ now' = clock /\ mine' \in {mine, sb'}
        BY <1>6, <2>3 DEF CheckDue, SetNextTime, Patch, Due
      <3>2. /\ sb'.active = sb.active /\ sb'.last = sb.last /\ sb'.total = sb.total
            /\ sb'.successful = sb.successful /\ sb'.failed = sb.failed /\ sb'.history = sb.history
        BY <2>1 DEF Counted
      <3>3. Counted(mine) = Counted(sb) /\ sb.active = None /\ mine.last = sb.last
        BY <2>1 DEF StatusInv, Counted
      <3> QED
        BY <2>1, <3>1, <3>2, <3>3 DEF StatusInv, Increasing, NextTime
    <2> QED
      BY <2>2, <2>3
  <1>7. CASE Create
    <2>1. CASE Return
      BY <1>7, <2>1, StatusFrame DEF Create, Return
    <2>2. CASE ~Return
      BY <1>7, <2>2 DEF Create, StatusInv, Increasing, NextTime, Counted
    <2> QED
      BY <2>1, <2>2
  <1>8. CASE Record
    <2>1. /\ Counted(mine) = Counted(sb) /\ sb.active = None /\ NextTime(sb.last) <= now
          /\ now \in Name
      BY <1>8 DEF Record, StatusInv, TypeInv
    <2>2. /\ pc' = "idle" /\ sb'.active = now /\ sb'.last = now /\ sb'.total = sb.total + 1
          /\ sb'.successful = sb.successful /\ sb'.failed = sb.failed /\ sb'.history = sb.history
      BY <1>1, <1>8, <2>1 DEF Record, RecordCreated, Patch, Return, Counted, Schedule
    <2>3. sb.last < now
      <3>1. sb.last < NextTime(sb.last) /\ NextTime(sb.last) \in Nat
        BY <1>1, NextTimes
      <3> QED
        BY <1>1, <1>2, <2>1, <3>1
    <2>4. \A i \in DOMAIN sb.history : sb.history[i] < now /\ sb.history[i] <= now
      BY <1>1, <1>2, <2>1, <2>3 DEF StatusInv
    <2>5. sb.successful + sb.failed + 1 <= sb.total + 1 /\ now # None
      BY <1>1, <1>2, <2>1 DEF StatusInv
    <2> QED
      BY <2>2, <2>4, <2>5 DEF StatusInv, Increasing
  <1>9. CASE List
    BY <1>9 DEF List, StatusInv, Increasing
  <1>10. CASE Delete \/ Interrupted \/ Tick \/ UNCHANGED vars
              \/ \E t \in Name : JobStep(t) \/ DeleteBackup(t)
    <2>1. UNCHANGED sb /\ (pc' = "idle" \/ UNCHANGED <<pc, mine, now>>)
      BY <1>10 DEF Delete, Interrupted, Tick, JobStep, DeleteBackup, Return, vars
    <2> QED
      BY <2>1, StatusFrame
  <1> QED
    BY <1>3, <1>4, <1>5, <1>6, <1>7, <1>8, <1>9, <1>10 DEF Next, Reconcile

------------------------------------------------------------------------------
(* What the steps do to the active Backup and the last due time.           *)

(* Only Record and CheckActive write the active Backup, and only Record the *)
(* last due time.                                                           *)
LEMMA StatusWrites ==
  ASSUME TypeInv, [Next]_vars
  PROVE  /\ sb'.last = sb.last \/ Record
         /\ sb'.active = sb.active \/ Record \/ CheckActive
         /\ sb'.total = sb.total \/ Record
         /\ Record => /\ pc = "record" /\ pc' = "idle" /\ now \in Name /\ UNCHANGED backups
                      /\ sb'.active = now /\ sb'.last = now /\ sb'.total = mine.total + 1
         /\ CheckActive => /\ pc = "active" /\ pc' \in {"idle", "list"} /\ UNCHANGED backups
                           /\ \/ UNCHANGED sb /\ pc' = "idle"
                              \/ sb'.active = None /\ ~Unfinished(mine.active)
                           /\ pc' = "list" => sb'.active = None
                           /\ pc' = "idle" => ~(mine.active \in Completed)
  <1> USE DEF resource, reconcile
  <1>1. sb \in Schedule
    BY DEF TypeInv, TypeOK
  <1>2. CASE Record
    BY <1>1, <1>2 DEF Record, RecordCreated, Patch, Return, TypeInv, Schedule, CheckActive
  <1>3. CASE CheckActive
    <2>1. /\ sb'.last = sb.last /\ sb'.total = sb.total
          /\ UNCHANGED sb \/ sb'.active = None
      BY <1>1, <1>3 DEF CheckActive, OnCompleted, OnFailed, ClearActive, Patch, Schedule
    <2>2. pc = "active" /\ pc' \in {"idle", "list"} /\ UNCHANGED backups /\ ~Record
      BY <1>3 DEF CheckActive, Return, Record
    <2>3. Unfinished(mine.active) => UNCHANGED sb /\ pc' = "idle"
      BY <1>3 DEF CheckActive, Unfinished, Return
    <2>4. ~Unfinished(mine.active) => sb'.active = None
      BY <1>1, <1>3
      DEF CheckActive, Unfinished, OnCompleted, OnFailed, ClearActive, Patch, Schedule
    <2>5. backups[mine.active] = "Completed" => pc' = "list"
      BY <1>3 DEF CheckActive
    <2>6. pc' = "list" => sb'.active = None
      BY <2>3, <2>4
    <2> QED
      BY <1>3, <2>1, <2>2, <2>3, <2>4, <2>5, <2>6 DEF Completed
  <1>4. CASE ~Record /\ ~CheckActive
    <2>1. UNCHANGED sb \/ \E v : \/ sb' = [sb EXCEPT !.reason = v]
                                 \/ sb' = [sb EXCEPT !.mode = v]
                                 \/ sb' = [sb EXCEPT !.next = v]
      BY <1>4
      DEF Next, Reconcile, Fetch, SetCondition, CheckDue, SetNextTime, Create, List, Delete,
          Interrupted, Tick, EditSchedule, JobStep, DeleteBackup, Patch, vars
    <2> QED
      BY <1>1, <1>4, <2>1 DEF Schedule
  <1> QED
    BY <1>2, <1>3, <1>4

(* How Reconcile gets to a step, and what it takes there.                   *)
LEMMA PCSteps ==
  ASSUME TypeInv, [Next]_vars
  PROVE  /\ pc' \in {"active", "due", "create", "record", "list", "delete"} =>
              \/ UNCHANGED <<pc, mine, now, todo>>
              \/ Fetch /\ pc' \in {"active", "due"}
              \/ CheckDue /\ pc' = "create"
              \/ Create /\ pc' = "record"
              \/ CheckActive /\ pc' = "list"
              \/ List /\ pc' = "delete"
              \/ Delete /\ pc' = "delete"
         /\ pc \in {"record", "list", "delete"} =>
              \/ UNCHANGED <<pc, mine, now, todo>>
              \/ Record \/ Interrupted
              \/ List /\ pc = "list" /\ pc' = "delete"
              \/ Delete /\ pc = "delete" /\ pc' = "delete"
              \/ Delete /\ pc = "delete" /\ pc' = "idle" /\ todo = {}
  <1> USE DEF reconcile
  <1>1. CASE Delete
    <2>1. pc = "delete" /\ (pc' = "delete" \/ (pc' = "idle" /\ todo = {}))
      BY <1>1 DEF Delete, Return
    <2> QED
      BY <1>1, <2>1
  <1>2. CASE ~Delete
    BY <1>2
    DEF Next, Reconcile, Fetch, SetCondition, CheckActive, CheckDue, Create, Record, List,
        Interrupted, Return, Tick, EditSchedule, JobStep, DeleteBackup, vars
  <1> QED
    BY <1>1, <1>2

(* What is made: only Create adds to it, the Backup of the moment.          *)
LEMMA MadeGrows ==
  ASSUME TypeInv, SweepInv, [Next]_vars
  PROVE  /\ Made' = Made \/ (Create /\ pc' = "record" /\ Made' = Made \cup {now})
         /\ Made \subseteq Name /\ Made' \subseteq Name
         /\ Create /\ pc' = "record" => /\ pc = "create" /\ now \in Made' /\ now' = now
                                        /\ Made' = Made \cup {now}
                                        /\ UNCHANGED <<sb, faults, outdated>>
  <1>1. \A u \in Name : backups[u] # "Never" => backups'[u] # "Never"
    BY BackupSteps
  <1>2. \A u \in Name : backups[u] = "Never" /\ backups'[u] # "Never" =>
                           Create /\ pc' = "record" /\ u = now
    <2> SUFFICES ASSUME NEW u \in Name, backups[u] = "Never", backups'[u] # "Never"
                 PROVE  Create /\ pc' = "record" /\ u = now
      OBVIOUS
    <2>1. ~JobStep(u) /\ ~DeleteBackup(u)
      BY DEF JobStep, DeleteBackup, Unfinished
    <2>2. ~(Delete /\ u \in todo)
      BY DEF Delete, SweepInv, Deletable
    <2> QED
      BY <2>1, <2>2, BackupSteps
  <1>3. ASSUME Create, pc' = "record"
        PROVE  /\ pc = "create" /\ now' = now /\ now \in Name
               /\ backups' = [backups EXCEPT ![now] = "Pending"]
               /\ UNCHANGED <<sb, faults, outdated>>
    BY <1>3 DEF Create, Return, TypeInv, resource, bounds
  <1>4. ASSUME Create, pc' = "record" PROVE now \in Made'
    BY <1>3, <1>4 DEF Made, TypeInv, TypeOK
  <1> QED
    BY <1>1, <1>2, <1>3, <1>4 DEF Made

(* MadeInv is kept.                                                         *)
LEMMA MadeStep == ASSUME TypeInv, SweepInv, MadeInv, [Next]_vars PROVE MadeInv'
  <1> USE DEF resource, reconcile
  <1>1. /\ clock \in Nat /\ clock' \in Nat /\ clock <= clock'
        /\ (pc \in {"create", "record"} => now <= clock /\ now \in Nat)
        /\ mine.last \in Nat
    <2>1. clock \in 0..MaxTime /\ mine \in Schedule
      BY DEF TypeInv, TypeOK, Time
    <2>2. clock' = clock \/ clock' = clock + 1
      BY DEF Next, Reconcile, Fetch, SetCondition, CheckActive, CheckDue, Create, Record, List,
             Delete, Interrupted, Tick, EditSchedule, JobStep, DeleteBackup, vars
    <2>3. mine.last \in Nat
      BY <2>1, ScheduleFields
    <2> QED
      BY <2>1, <2>2, <2>3 DEF TypeInv, Name
  <1>2. \A t \in Name : t \in Nat
    BY DEF Name
  <1>3. \A t \in Made' : Period <= t /\ t <= clock'
    <2> SUFFICES ASSUME NEW t \in Made' PROVE Period <= t /\ t <= clock'
      OBVIOUS
    <2>1. t \in Nat
      BY <1>2, MadeGrows
    <2>2. Period <= t /\ t <= clock
      BY MadeGrows DEF MadeInv, TypeInv
    <2> QED
      BY <1>1, <2>1, <2>2
  <1>4. pc' = "record" => now' \in Made'
    BY PCSteps, MadeGrows DEF MadeInv
  <1>5. ASSUME pc' \in {"create", "record"} PROVE Period <= now' /\ \A t \in Made' : t <= now'
    <2>1. CASE CheckDue /\ pc' = "create"
      <3>1. now' = clock /\ NextTime(mine.last) <= clock /\ Made' = Made
        BY <2>1, MadeGrows DEF CheckDue, Due, Return, Create
      <3>2. NextTime(mine.last) \in Nat /\ Period <= NextTime(mine.last)
        BY <1>1, NextTimes
      <3> QED
        BY <1>1, <3>1, <3>2, ScheduleAssumption DEF MadeInv
    <2>2. CASE Create /\ pc' = "record"
      <3>1. pc = "create" /\ now' = now /\ Made' = Made \cup {now}
        BY <2>2, MadeGrows
      <3> QED
        BY <1>1, <3>1 DEF MadeInv
    <2>3. CASE UNCHANGED <<pc, mine, now, todo>>
      <3>1. Made' = Made
        BY <2>3, MadeGrows DEF Create
      <3> QED
        BY <1>5, <2>3, <3>1 DEF MadeInv
    <2> QED
      BY <1>5, <2>1, <2>2, <2>3, PCSteps
  <1>6. ASSUME pc' \in {"list", "delete"} PROVE sb'.active = None
    <2>1. CASE CheckActive
      BY <1>6, <2>1, StatusWrites
    <2>2. CASE ~CheckActive
      <3>1. pc \in {"list", "delete"}
        BY <1>6, <2>2, PCSteps DEF List, Delete
      <3>2. sb'.active = sb.active
        BY <2>2, <3>1, StatusWrites
      <3> QED
        BY <3>1, <3>2 DEF MadeInv
    <2> QED
      BY <2>1, <2>2
  <1>7. ASSUME pc' = "due" PROVE mine'.active = None
    <2>1. CASE Fetch
      BY <1>7, <2>1 DEF Fetch
    <2>2. CASE ~Fetch
      BY <1>7, <2>2, PCSteps DEF MadeInv
    <2> QED
      BY <2>1, <2>2
  <1> QED
    BY <1>3, <1>4, <1>5, <1>6, <1>7 DEF MadeInv

------------------------------------------------------------------------------
(* What the mishaps cost.                                                  *)

(* One step more or less of a set of Backups.                               *)
LEMMA Grows ==
  ASSUME NEW S \in SUBSET Name, NEW T \in SUBSET Name
  PROVE  /\ Cardinality(S) \in Nat /\ Cardinality(T) \in Nat
         /\ T \subseteq S => Cardinality(T) <= Cardinality(S)
         /\ \A x \in Name : T \subseteq S \cup {x} => Cardinality(T) <= Cardinality(S) + 1
         /\ Cardinality(S \cup T) \in Nat /\ Cardinality(S \cup T) <= Cardinality(S) + Cardinality(T)
  <1>1. Cardinality(S) \in Nat /\ Cardinality(T) \in Nat /\ IsFiniteSet(S) /\ IsFiniteSet(T)
    BY Finite
  <1>2. T \subseteq S => Cardinality(T) <= Cardinality(S)
    BY Finite
  <1>3. ASSUME NEW x \in Name, T \subseteq S \cup {x} PROVE Cardinality(T) <= Cardinality(S) + 1
    <2>1. S \cup {x} \in SUBSET Name
      OBVIOUS
    <2>2. Cardinality(T) <= Cardinality(S \cup {x}) /\ Cardinality(S \cup {x}) \in Nat
      BY <1>3, <2>1, Finite
    <2>3. Cardinality(S \cup {x}) <= Cardinality(S) + 1
      <3>1. Cardinality(S \cup {x}) = IF x \in S THEN Cardinality(S) ELSE Cardinality(S) + 1
        BY <1>1, FS_AddElement
      <3> QED
        BY <1>1, <3>1
    <2> QED
      BY <1>1, <2>2, <2>3
  <1>4. Cardinality(S \cup T) \in Nat /\ Cardinality(S \cup T) <= Cardinality(S) + Cardinality(T)
    <2>1. S \cup T \in SUBSET Name /\ S \cap T \in SUBSET Name
      OBVIOUS
    <2>2. Cardinality(S \cup T) \in Nat /\ Cardinality(S \cap T) \in Nat
      BY <2>1, Finite
    <2>3. Cardinality(S \cup T) = Cardinality(S) + Cardinality(T) - Cardinality(S \cap T)
      BY <1>1, FS_Union
    <2> QED
      BY <1>1, <2>2, <2>3
  <1> QED
    BY <1>1, <1>2, <1>3, <1>4

(* Mishaps are never fewer, and an interruption or an outdated read is one. *)
LEMMA MishapsGrow ==
  ASSUME TypeInv, [Next]_vars
  PROVE  /\ Mishaps \in Nat /\ Mishaps' \in Nat /\ Mishaps <= Mishaps'
         /\ Interrupted => Mishaps' = Mishaps + 1
         /\ outdated' = outdated + 1 => Mishaps' >= Mishaps + 1
         /\ outdated' = outdated \/ (Fetch /\ outdated' = outdated + 1)
         /\ faults \in Nat /\ faults' \in Nat /\ faults <= faults'
         /\ Interrupted => faults' = faults + 1
  <1> USE DEF bounds
  <1>1. faults \in Nat /\ outdated \in Nat
    BY ScheduleAssumption DEF TypeInv, TypeOK
  <1>2. /\ faults' = faults \/ faults' = faults + 1
        /\ outdated' = outdated \/ (Fetch /\ outdated' = outdated + 1)
    BY DEF Next, Reconcile, Fetch, SetCondition, CheckActive, CheckDue, SetNextTime, Create, Record,
           List, Delete, Interrupted, Fault, Tick, EditSchedule, JobStep, DeleteBackup, vars
  <1>3. Interrupted => faults' = faults + 1 /\ outdated' = outdated
    BY DEF Interrupted, Fault
  <1> QED
    BY <1>1, <1>2, <1>3 DEF Mishaps

(* Only an outdated read misleads Reconcile.                                *)
LEMMA MisledGrows ==
  ASSUME TypeInv, MadeInv, [Next]_vars, Misled'
  PROVE  (Misled /\ (pc = "record" => pc' = "record")) \/ outdated' = outdated + 1
  <1> USE DEF resource, reconcile
  <1>1. pc' \in {"active", "due", "create", "record"}
    BY DEF Misled
  <1>2. ~Record /\ ~CheckActive
    BY <1>1, StatusWrites
  <1>3. sb'.active = sb.active /\ sb'.last = sb.last
    BY <1>2, StatusWrites
  <1>4. CASE UNCHANGED <<pc, mine, now, todo>>
    BY <1>3, <1>4 DEF Misled, NextTime
  <1>5. CASE Fetch
    <2>1. CASE mine' = sb
      <3>1. pc' = "due" => mine'.active = None
        BY <1>5 DEF Fetch
      <3>2. pc' \in {"active", "due"}
        BY <1>1, <1>5 DEF Fetch
      <3> QED
        BY <1>3, <2>1, <3>1, <3>2 DEF Misled
    <2>2. CASE outdated' = outdated + 1
      BY <2>2
    <2> QED
      BY <1>5, <2>1, <2>2 DEF Fetch
  <1>6. CASE CheckDue /\ pc' = "create"
    <2>1. pc = "due" /\ now' = clock /\ NextTime(mine.last) <= clock
      BY <1>6 DEF CheckDue, Due, Return
    <2>2. SUFFICES ASSUME sb.active = None, mine.last = sb.last PROVE FALSE
      BY <2>1 DEF Misled
    <2>3. sb'.active = None /\ NextTime(sb'.last) <= now'
      BY <1>3, <2>1, <2>2
    <2>4. NextTime(sb'.last) \in Nat /\ now' \in Nat
      <3>1. sb \in Schedule /\ clock \in 0..MaxTime
        BY DEF TypeInv, TypeOK, Time
      <3>2. sb.last \in Nat
        BY <3>1, ScheduleFields
      <3> QED
        BY <1>3, <2>1, <3>1, <3>2, NextTimes
    <2>5. ~(NextTime(sb'.last) > now')
      BY <2>3, <2>4
    <2> QED
      BY <1>6, <2>3, <2>5 DEF Misled, NextTime
  <1>7. CASE Create /\ pc' = "record"
    <2>1. pc = "create" /\ now' = now
      BY <1>7 DEF Create, Return
    <2> QED
      BY <1>3, <1>7, <2>1 DEF Misled, NextTime
  <1> QED
    BY <1>1, <1>2, <1>4, <1>5, <1>6, <1>7, PCSteps

(* How a Backup can drop out of sight: its creation is not recorded, or a   *)
(* misled Reconcile forgets it; or its completion is noticed.               *)
LEMMA DropsOut ==
  ASSUME TypeInv, MadeInv, [Next]_vars, NEW t \in Loose', t \notin Loose
  PROVE  /\ \/ Interrupted /\ pc = "record" /\ t = now
            \/ Misled /\ (Record \/ CheckActive) /\ t = sb.active
            \/ CheckActive /\ pc' = "list" /\ t = sb.active /\ ~Unfinished(t)
         /\ t \in Name
  <1>1. /\ t \in Name /\ t # sb'.active /\ t \notin Unrecorded'
        /\ Unfinished(t)' \/ t \in Completed'
    BY DEF Loose
  <1>2. Unfinished(t) \/ t \in Completed
    <2>1. CASE backups'[t] = backups[t]
      BY <1>1, <2>1 DEF Unfinished, Completed
    <2>2. CASE backups'[t] # backups[t]
      <3>1. ~(Create /\ pc' = "record" /\ t = now /\ now' = now)
        BY <1>1 DEF Unrecorded
      <3>2. backups'[t] # "Absent"
        BY <1>1 DEF Unfinished, Completed
      <3> QED
        BY <1>1, <2>2, <3>1, <3>2, BackupSteps
    <2> QED
      BY <2>1, <2>2
  <1>3. t = sb.active \/ t \in Unrecorded
    BY <1>1, <1>2 DEF Loose
  <1>4. CASE t \in Unrecorded
    <2>1. pc = "record" /\ t = now
      BY <1>4 DEF Unrecorded
    <2>2. ~(pc' = "record" /\ now' = now)
      BY <1>1, <2>1 DEF Unrecorded
    <2>3. ~Record
      BY <1>1, <2>1, StatusWrites
    <2>4. Interrupted
      BY <2>1, <2>2, <2>3, PCSteps DEF List, Delete
    <2> QED
      BY <1>1, <2>1, <2>4
  <1>5. CASE t = sb.active
    <2>1. t # None
      BY <1>1 DEF Name, None
    <2>2. Record \/ CheckActive
      BY <1>1, <1>5, StatusWrites
    <2>3. Record => Misled
      BY <1>5, <2>1, StatusWrites DEF Misled
    <2>4. CASE CheckActive /\ mine.active # sb.active
      BY <1>1, <1>5, <2>4, StatusWrites DEF Misled
    <2>5. CASE CheckActive /\ mine.active = sb.active
      <3>1. ~Unfinished(t)
        BY <1>1, <1>5, <2>5, StatusWrites
      <3>2. pc' = "list"
        BY <1>2, <1>5, <2>5, <3>1, StatusWrites
      <3> QED
        BY <1>1, <1>5, <2>5, <3>1, <3>2
    <2> QED
      BY <1>1, <1>5, <2>2, <2>3, <2>4, <2>5
  <1> QED
    BY <1>3, <1>4, <1>5

(* CostInv is kept.                                                         *)
LEMMA CostStep == ASSUME TypeInv, SweepInv, MadeInv, CostInv, [Next]_vars PROVE CostInv'
  <1>0. Interrupted => ~Record /\ ~CheckActive /\ outdated' # outdated + 1
    <2>1. faults \in Nat /\ outdated \in Nat
      BY ScheduleAssumption DEF TypeInv, TypeOK
    <2>2. Interrupted => faults' = faults + 1 /\ outdated' = outdated
      BY DEF Interrupted, Fault
    <2>3. Record \/ CheckActive => faults' = faults
      BY DEF Record, CheckActive, bounds
    <2> QED
      BY <2>1, <2>2, <2>3
  <1>1. /\ Orphans \in SUBSET Name /\ Orphans' \in SUBSET Name
        /\ Second \in SUBSET Name /\ Second' \in SUBSET Name
    BY MadeGrows DEF Orphans, Second
  <1>2. /\ Mishaps \in Nat /\ Mishaps' \in Nat /\ Mishaps <= Mishaps'
        /\ Interrupted => Mishaps' = Mishaps + 1
        /\ outdated' = outdated + 1 => Mishaps' >= Mishaps + 1
    BY MishapsGrow
  <1>3. /\ Cardinality(Orphans) \in Nat /\ Cardinality(Orphans') \in Nat
        /\ Cardinality(Second) \in Nat /\ Cardinality(Second') \in Nat
    BY <1>1, Grows
  <1>4. Interrupted \/ Record \/ CheckActive => ~Misled' /\ pc' # "record"
    BY StatusWrites DEF Interrupted, Return, Misled
  <1>5. \A c \in BOOLEAN : Owed(c) \in {0, 1} /\ (c => Owed(c) = 1) /\ (~c => Owed(c) = 0)
    BY DEF Owed
  <1>6. Misled \in BOOLEAN /\ Misled' \in BOOLEAN /\ Ahead \in BOOLEAN /\ Ahead' \in BOOLEAN
    BY DEF Misled, Ahead
  <1>7. Owed(Misled') <= Owed(Misled) + (Mishaps' - Mishaps)
    <2>1. Misled' => Misled \/ outdated' = outdated + 1
      BY MisledGrows
    <2> QED
      BY <1>2, <1>5, <1>6, <2>1
  <1>8. Cardinality(Orphans') + Owed(Misled') <= Mishaps'
    <2>0. Cardinality(Orphans) + Owed(Misled) <= Mishaps
      BY DEF CostInv
    <2>1. ASSUME NEW t \in Orphans', t \notin Orphans
          PROVE  /\ \/ Interrupted /\ t = now
                    \/ Misled /\ (Record \/ CheckActive) /\ t = sb.active
                 /\ t \in Name
      <3>1. t \in Loose' /\ Unfinished(t)' /\ t \in Name
        BY <2>1 DEF Orphans, Loose
      <3>2. t \notin Loose
        <4>1. Unfinished(t) \/ t \notin Completed
          BY <3>1, BackupSteps DEF Unfinished, Completed
        <4> QED
          BY <2>1, <4>1 DEF Orphans, Loose
      <3>3. CheckActive => Unfinished(t)
        BY <3>1, StatusWrites DEF Unfinished
      <3> QED
        BY <3>1, <3>2, <3>3, DropsOut
    <2>2. CASE Orphans' \subseteq Orphans
      <3>1. Cardinality(Orphans') <= Cardinality(Orphans)
        BY <1>1, <2>2, Grows
      <3> QED
        BY <1>2, <1>3, <1>5, <1>6, <1>7, <2>0, <3>1
    <2>3. CASE ~(Orphans' \subseteq Orphans)
      <3>1. PICK x \in Name : Orphans' \subseteq Orphans \cup {x}
        <4>1. PICK t \in Orphans' : t \notin Orphans
          BY <2>3
        <4>2. CASE Interrupted
          <5>1. \A u \in Orphans' : u \in Orphans \/ u = now
            BY <1>0, <2>1, <4>2
          <5> QED
            BY <2>1, <4>1, <5>1
        <4>3. CASE ~Interrupted
          <5>1. \A u \in Orphans' : u \in Orphans \/ u = sb.active
            BY <2>1, <4>3
          <5> QED
            BY <2>1, <4>1, <5>1
        <4> QED
          BY <4>2, <4>3
      <3>2. Cardinality(Orphans') <= Cardinality(Orphans) + 1
        BY <1>1, <3>1, Grows
      <3>3. Interrupted \/ (Misled /\ ~Misled')
        BY <1>4, <2>1, <2>3
      <3>4. Owed(Misled') = 0
        BY <1>4, <1>5, <1>6, <3>3
      <3>5. Mishaps' = Mishaps + 1 \/ Owed(Misled) = 1
        BY <1>2, <1>5, <1>6, <3>3
      <3> QED
        BY <1>2, <1>3, <1>5, <1>6, <2>0, <3>2, <3>4, <3>5
    <2> QED
      BY <2>2, <2>3
  <1>9. Cardinality(Second') + Owed(Ahead') + Owed(Misled' /\ pc' # "record") <= Mishaps'
    <2>0. Cardinality(Second) + Owed(Ahead) + Owed(Misled /\ pc # "record") <= Mishaps
      BY DEF CostInv
    <2>1. CASE Made' = Made /\ ~(Create /\ pc' = "record")
      <3>1. Second' = Second
        BY <2>1 DEF Second, NextTime
      <3>2. Ahead' => Ahead \/ Interrupted
        <4> SUFFICES ASSUME Ahead', ~Interrupted PROVE Ahead
          OBVIOUS
        <4>1. PICK u \in Made : u > sb'.last
          BY <2>1 DEF Ahead
        <4>2. ~Record
          <5>1. Record => sb'.last = now /\ u <= now /\ u \in Int /\ now \in Int
            BY <4>1, StatusWrites, MadeGrows DEF MadeInv, Name
          <5> QED
            BY <4>1, <5>1
        <4>3. pc # "record"
          BY <4>2, PCSteps DEF Ahead, List, Delete
        <4> QED
          BY <4>1, <4>2, <4>3, StatusWrites DEF Ahead
      <3>3. (Misled' /\ pc' # "record") => (Misled /\ pc # "record") \/ outdated' = outdated + 1
        BY MisledGrows
      <3>4. Interrupted => ~Misled'
        BY <1>4
      <3> DEFINE a  == Ahead
                 b  == Ahead'
                 c  == Misled /\ pc # "record"
                 d  == Misled' /\ pc' # "record"
                 i  == Interrupted
                 o  == outdated' = outdated + 1
      <3>5. /\ (b => a \/ i) /\ (d => c \/ o) /\ (i => ~d)
            /\ a \in BOOLEAN /\ b \in BOOLEAN /\ c \in BOOLEAN /\ d \in BOOLEAN
        BY <1>6, <3>2, <3>3, <3>4
      <3>6. outdated' = outdated + 1 => ~Interrupted
        BY <1>0
      <3>7. Owed(b) + Owed(d) <= Owed(a) + Owed(c) + (Mishaps' - Mishaps)
        <4>1. (i => Mishaps' = Mishaps + 1) /\ (o => Mishaps' >= Mishaps + 1 /\ ~i)
          BY <1>2, <3>6
        <4> HIDE DEF a, b, c, d, i, o
        <4> QED
          BY <1>2, <1>5, <3>5, <4>1
      <3>8. Owed(a) \in {0, 1} /\ Owed(b) \in {0, 1} /\ Owed(c) \in {0, 1} /\ Owed(d) \in {0, 1}
        BY <1>5, <3>5
      <3>9. Cardinality(Second') + Owed(b) + Owed(d) <= Mishaps'
        <4>1. Cardinality(Second) + Owed(a) + Owed(c) <= Mishaps
          BY <2>0
        <4> HIDE DEF a, b, c, d
        <4> QED
          BY <1>2, <1>3, <3>1, <3>7, <3>8, <4>1
      <3> QED
        BY <3>9
    <2>2. CASE Create /\ pc' = "record"
      <3>1. /\ pc = "create" /\ Made' = Made \cup {now} /\ now \in Name
            /\ UNCHANGED <<sb, faults, outdated>>
        BY <2>2, MadeGrows DEF TypeInv
      <3>2. Owed(Ahead') = 0 /\ Owed(Misled' /\ pc' # "record") = 0
        BY <1>5, <2>2 DEF Ahead, Owed
      <3>3. Mishaps' = Mishaps
        BY <3>1 DEF Mishaps
      <3>4. \A t \in Made : t <= now /\ t \in Nat
        BY <3>1, MadeGrows DEF MadeInv, Name
      <3>5. now \in Nat /\ sb.last \in Nat
        BY <3>1, ScheduleFields DEF Name, TypeInv, TypeOK
      <3>6. ASSUME NEW t \in Second', t \notin Second
            PROVE  t = now /\ (Ahead \/ Misled)
        <4>1. PICK u \in Made' : t \in Made' /\ u < t /\ t < NextTime(u)
          BY <3>6 DEF Second, NextTime
        <4>2. u # now
          BY <3>1, <3>4, <3>5, <4>1
        <4>3. u \in Made /\ u \in Nat
          BY <3>1, <3>4, <4>1, <4>2
        <4>4. t = now
          BY <3>1, <3>6, <4>1, <4>3 DEF Second
        <4>5. SUFFICES ASSUME ~Ahead, ~Misled PROVE FALSE
          BY <4>4
        <4>6. ~(u > sb.last) /\ ~(NextTime(sb.last) > now)
          BY <3>1, <4>3, <4>5 DEF Ahead, Misled
        <4>7. NextTime(u) \in Nat /\ NextTime(sb.last) \in Nat /\ NextTime(u) <= NextTime(sb.last)
          <5>1. u <= sb.last
            BY <3>5, <4>3, <4>6
          <5> QED
            BY <3>5, <4>3, <5>1, NextTimes
        <4> QED
          BY <3>5, <4>1, <4>4, <4>6, <4>7
      <3>7. CASE Second' \subseteq Second
        <4>1. Cardinality(Second') <= Cardinality(Second)
          BY <1>1, <3>7, Grows
        <4>2. Owed(Ahead) \in {0, 1} /\ Owed(Misled /\ pc # "record") \in {0, 1}
          BY <1>5, <1>6
        <4> QED
          BY <1>2, <1>3, <2>0, <3>2, <3>3, <4>1, <4>2
      <3>8. CASE ~(Second' \subseteq Second)
        <4>1. Second' \subseteq Second \cup {now} /\ (Ahead \/ Misled)
          BY <3>6, <3>8
        <4>2. Cardinality(Second') <= Cardinality(Second) + 1
          BY <1>1, <3>1, <4>1, Grows
        <4>3. /\ Owed(Ahead) \in {0, 1} /\ Owed(Misled /\ pc # "record") \in {0, 1}
              /\ Owed(Ahead) = 1 \/ Owed(Misled /\ pc # "record") = 1
          BY <1>5, <1>6, <3>1, <4>1
        <4> QED
          BY <1>2, <1>3, <2>0, <3>2, <3>3, <4>2, <4>3
      <3> QED
        BY <3>7, <3>8
    <2> QED
      BY <2>1, <2>2, MadeGrows
  <1> QED
    BY <1>8, <1>9 DEF CostInv

------------------------------------------------------------------------------
(* The limit of the retention.                                             *)

(* No step but List and Delete changes what the cleanup has still to do.    *)
LEMMA LooseShrinks ==
  ASSUME TypeInv, [Next]_vars, pc = "delete", pc' = "delete", Loose' \subseteq Loose
  PROVE  Loose' \ todo' \subseteq Loose \ todo
  <1> SUFFICES ASSUME NEW t \in Loose', t \notin todo' PROVE t \notin todo
    OBVIOUS
  <1>1. CASE Delete
    <2>1. PICK u \in todo : backups' = [backups EXCEPT ![u] = "Absent"] /\ todo' = todo \ {u}
      BY <1>1 DEF Delete, Return
    <2>2. t # u
      BY <2>1 DEF Loose, Unfinished, Completed, TypeInv, TypeOK
    <2> QED
      BY <2>1, <2>2
  <1>2. CASE ~Delete
    BY <1>2, PCSteps DEF Record, List, Interrupted, Return
  <1> QED
    BY <1>1, <1>2

(* RetentionInv is kept.                                                    *)
LEMMA RetentionStep ==
  ASSUME TypeInv, MadeInv, CostInv, RetentionInv, [Next]_vars PROVE RetentionInv'
  <1> SUFFICES ASSUME MaxCount > 0 PROVE RetentionInv'
    BY DEF RetentionInv
  <1>1. /\ Loose \in SUBSET Name /\ Loose' \in SUBSET Name
        /\ Loose \ todo \in SUBSET Name /\ Loose' \ todo' \in SUBSET Name
        /\ Orphans \in SUBSET Name /\ MaxCount \in Nat
    BY ScheduleAssumption DEF Loose, Orphans
  <1>2. /\ Mishaps \in Nat /\ Mishaps' \in Nat /\ Mishaps <= Mishaps'
        /\ Interrupted => Mishaps' = Mishaps + 1
        /\ outdated' = outdated + 1 => Mishaps' >= Mishaps + 1
    BY MishapsGrow
  <1>3. /\ Cardinality(Loose) \in Nat /\ Cardinality(Loose') \in Nat
        /\ Cardinality(Loose \ todo) \in Nat /\ Cardinality(Loose' \ todo') \in Nat
        /\ Cardinality(Orphans) \in Nat
    BY <1>1, Grows
  <1>4. /\ Owed(Misled) \in {0, 1} /\ (Misled => Owed(Misled) = 1)
        /\ Owed(Misled') \in {0, 1} /\ (~Misled' => Owed(Misled') = 0)
    BY DEF Owed
  <1>5. Owed(Misled') <= Owed(Misled) + (Mishaps' - Mishaps)
    <2>1. Misled' => Misled \/ outdated' = outdated + 1
      BY MisledGrows
    <2> QED
      BY <1>2, <1>4, <2>1
  <1>6. /\ pc \notin {"list", "delete"} => Cardinality(Loose) + Owed(Misled) <= MaxCount + Mishaps
        /\ pc \in {"list", "delete"} => Cardinality(Loose) <= MaxCount + Mishaps + 1
        /\ pc = "delete" => Cardinality(Loose \ todo) <= MaxCount + Mishaps
        /\ Cardinality(Orphans) <= Mishaps
    BY <1>2, <1>3, <1>4 DEF RetentionInv, CostInv
  <1>7. CASE Interrupted
    <2>1. pc' = "idle" /\ ~Misled'
      BY <1>7 DEF Interrupted, Return, Misled
    <2>2. Loose' \subseteq Loose \/ (pc = "record" /\ now \in Name /\ Loose' \subseteq Loose \cup {now})
      <3>1. ~Record /\ ~CheckActive
        <4>1. faults \in Nat
          BY ScheduleAssumption DEF TypeInv, TypeOK
        <4>2. faults' = faults + 1
          BY <1>7 DEF Interrupted, Fault
        <4> QED
          BY <4>1, <4>2 DEF Record, CheckActive, bounds
      <3>2. \A t \in Loose' : t \in Loose \/ (pc = "record" /\ t = now /\ t \in Name)
        BY <3>1, DropsOut
      <3> QED
        BY <3>2
    <2>3. \/ Cardinality(Loose') <= Cardinality(Loose)
          \/ Cardinality(Loose') <= Cardinality(Loose) + 1 /\ pc = "record"
      BY <1>1, <2>2, Grows
    <2> QED
      BY <1>1, <1>2, <1>3, <1>4, <1>6, <1>7, <2>1, <2>3 DEF RetentionInv
  <1>8. CASE CheckActive \/ Record
    <2>1. ~Misled' /\ pc \notin {"list", "delete"} /\ pc' \in {"idle", "list"}
      BY <1>8, StatusWrites DEF Misled
    <2>2. Loose' \subseteq Loose \/ (sb.active \in Name /\ Loose' \subseteq Loose \cup {sb.active}
                                     /\ (Misled \/ pc' = "list"))
      <3>1. ~Interrupted
        <4>1. faults \in Nat
          BY ScheduleAssumption DEF TypeInv, TypeOK
        <4> QED
          BY <1>8, <4>1 DEF Record, CheckActive, Interrupted, Fault, bounds
      <3>2. \A t \in Loose' : t \in Loose \/ (t = sb.active /\ t \in Name /\ (Misled \/ pc' = "list"))
        BY <3>1, DropsOut
      <3> QED
        BY <3>2
    <2>3. \/ Cardinality(Loose') <= Cardinality(Loose)
          \/ Cardinality(Loose') <= Cardinality(Loose) + 1 /\ (Misled \/ pc' = "list")
      BY <1>1, <2>2, Grows
    <2> QED
      BY <1>1, <1>2, <1>3, <1>4, <1>6, <2>1, <2>3 DEF RetentionInv
  <1>9. CASE ~Interrupted /\ ~CheckActive /\ ~Record
    <2>1. Loose' \subseteq Loose
      BY <1>9, DropsOut
    <2>2. Cardinality(Loose') <= Cardinality(Loose)
      BY <1>1, <2>1, Grows
    <2>3. CASE pc \notin {"list", "delete"}
      <3>1. pc' \notin {"list", "delete"}
        BY <1>9, <2>3, PCSteps DEF List, Delete
      <3> QED
        BY <1>1, <1>2, <1>3, <1>4, <1>5, <1>6, <2>2, <2>3, <3>1 DEF RetentionInv
    <2>4. CASE pc = "list" /\ pc' = "list"
      BY <1>1, <1>2, <1>3, <1>6, <2>2, <2>4 DEF RetentionInv
    <2>5. CASE List
      <3> DEFINE K == {t \in Completed : Cardinality(NewerThan(t, Completed)) < MaxCount}
      <3>1. pc = "list" /\ pc' = "delete" /\ UNCHANGED <<sb, backups>>
        BY <2>5 DEF List, resource
      <3>2. Completed \in SUBSET Name /\ K \in SUBSET Name
        BY DEF Completed
      <3>3. Cardinality(K) <= MaxCount
        BY <1>1, <3>2, NewestFew
      <3>4. ASSUME NEW t \in Loose', t \notin todo' PROVE t \in K \cup Orphans
        <4>1. t \in Name /\ t # sb.active /\ t \notin Unrecorded /\ (Unfinished(t) \/ t \in Completed)
          BY <2>1, <3>4 DEF Loose
        <4>2. CASE Unfinished(t)
          BY <4>1, <4>2 DEF Orphans
        <4>3. CASE t \in Completed
          <5>1. ~(Cardinality(NewerThan(t, Completed)) >= MaxCount)
            BY <2>5, <3>4, <4>3 DEF List, Excess
          <5>2. NewerThan(t, Completed) \in SUBSET Name
            BY <3>2 DEF NewerThan
          <5>3. Cardinality(NewerThan(t, Completed)) \in Nat
            BY <5>2, Finite
          <5> QED
            BY <1>1, <4>3, <5>1, <5>3
        <4> QED
          BY <4>1, <4>2, <4>3
      <3>5. Loose' \ todo' \subseteq K \cup Orphans
        BY <3>4
      <3> HIDE DEF K
      <3>6. /\ Cardinality(K \cup Orphans) <= Cardinality(K) + Cardinality(Orphans)
            /\ Cardinality(K) \in Nat /\ Cardinality(K \cup Orphans) \in Nat
        BY <1>1, <3>2, Grows
      <3>7. Cardinality(Loose' \ todo') <= Cardinality(K \cup Orphans)
        <4>1. K \cup Orphans \in SUBSET Name
          BY <1>1, <3>2
        <4> QED
          BY <1>1, <3>5, <4>1, Grows
      <3> QED
        BY <1>1, <1>2, <1>3, <1>6, <2>2, <3>1, <3>3, <3>6, <3>7 DEF RetentionInv
    <2>6. CASE pc = "delete" /\ pc' = "delete"
      <3>1. Loose' \ todo' \subseteq Loose \ todo
        BY <2>1, <2>6, LooseShrinks
      <3>2. Cardinality(Loose' \ todo') <= Cardinality(Loose \ todo)
        BY <1>1, <3>1, Grows
      <3> QED
        BY <1>1, <1>2, <1>3, <1>6, <2>2, <2>6, <3>2 DEF RetentionInv
    <2>7. CASE pc = "delete" /\ pc' = "idle" /\ todo = {}
      <3>1. Loose' \subseteq Loose \ todo
        BY <2>1, <2>7
      <3>2. Cardinality(Loose') <= Cardinality(Loose \ todo)
        BY <1>1, <3>1, Grows
      <3>3. ~Misled'
        BY <2>7 DEF Misled
      <3> QED
        BY <1>1, <1>2, <1>3, <1>4, <1>6, <2>7, <3>2, <3>3 DEF RetentionInv
    <2> QED
      BY <1>9, <2>3, <2>4, <2>5, <2>6, <2>7, PCSteps
  <1> QED
    BY <1>7, <1>8, <1>9

------------------------------------------------------------------------------
(* The total, while every Reconcile has started with a current copy.       *)

(* TotalInv is kept.                                                        *)
LEMMA TotalStep ==
  ASSUME TypeInv, SweepInv, StatusInv, MadeInv, TotalInv, [Next]_vars PROVE TotalInv'
  <1> SUFFICES ASSUME outdated' = 0 PROVE TotalInv'
    BY DEF TotalInv
  <1> DEFINE Known == {t \in Made : t <= sb.last}
  <1>1. outdated = 0
    BY WithoutOutdated
  <1>2. /\ sb.total <= Cardinality(Known)
        /\ Cardinality(Made \ Unrecorded) <= sb.total + faults
    BY <1>1 DEF TotalInv
  <1>3. /\ faults \in Nat /\ faults' \in Nat /\ faults <= faults'
        /\ Interrupted => faults' = faults + 1
    BY MishapsGrow
  <1>4. sb.total \in Nat /\ sb.last \in Nat /\ (\A t \in Name : t \in Nat)
    BY ScheduleFields DEF TypeInv, TypeOK, Name
  <1>5. Made \in SUBSET Name /\ Made' \in SUBSET Name
    BY MadeGrows
  <1>6. /\ Known \in SUBSET Name /\ Known' \in SUBSET Name
        /\ Made \ Unrecorded \in SUBSET Name /\ Made' \ Unrecorded' \in SUBSET Name
    BY <1>5
  <1>7. /\ Cardinality(Known) \in Nat /\ Cardinality(Known') \in Nat
        /\ Cardinality(Made \ Unrecorded) \in Nat /\ Cardinality(Made' \ Unrecorded') \in Nat
    BY <1>6, Grows
  <1>8. CASE Record
    <2>1. /\ pc = "record" /\ pc' = "idle" /\ now \in Name /\ Made' = Made /\ now \in Made
          /\ sb'.last = now /\ sb'.total = mine.total + 1 /\ \A t \in Made : t <= now
      BY <1>8, StatusWrites DEF MadeInv, Made
    <2>2. mine.total = sb.total /\ NextTime(sb.last) <= now
      BY <1>1, <2>1 DEF StatusInv, Counted
    <2>3. sb.last < now
      <3>1. sb.last < NextTime(sb.last) /\ NextTime(sb.last) \in Nat
        BY <1>4, NextTimes
      <3> QED
        BY <1>4, <2>1, <2>2, <3>1
    <2>4. Unrecorded = {now} /\ Unrecorded' = {}
      BY <2>1 DEF Unrecorded
    <2>5. Cardinality(Known \cup {now}) = Cardinality(Known) + 1
      <3>1. now \notin Known /\ IsFiniteSet(Known)
        BY <1>4, <1>6, <2>1, <2>3, Finite
      <3> QED
        BY <3>1, FS_AddElement
    <2>6. Known \cup {now} \subseteq Known'
      BY <1>5, <2>1 DEF Made
    <2>7. Cardinality(Known \cup {now}) <= Cardinality(Known')
      <3>1. Known \cup {now} \in SUBSET Name
        BY <1>6, <2>1
      <3> QED
        BY <1>6, <2>6, <3>1, Grows
    <2>8. Cardinality(Made' \ Unrecorded') <= Cardinality(Made \ Unrecorded) + 1
      <3>1. Made' \ Unrecorded' \subseteq (Made \ Unrecorded) \cup {now}
        BY <2>1, <2>4
      <3> QED
        BY <1>6, <2>1, <3>1, Grows
    <2>9. /\ sb'.total <= Cardinality(Known')
          /\ Cardinality(Made' \ Unrecorded') <= sb'.total + faults'
      <3> HIDE DEF Known
      <3> QED
        BY <1>2, <1>3, <1>4, <1>7, <2>1, <2>2, <2>5, <2>7, <2>8
    <2> QED
      BY <2>9 DEF TotalInv
  <1>9. CASE ~Record
    <2>1. sb'.last = sb.last /\ sb'.total = sb.total
      BY <1>9, StatusWrites
    <2>2. Known \subseteq Known'
      BY <2>1, MadeGrows
    <2>3. Cardinality(Known) <= Cardinality(Known')
      BY <1>6, <2>2, Grows
    <2>4. \/ Made' \ Unrecorded' \subseteq Made \ Unrecorded
          \/ /\ Interrupted /\ now \in Name
             /\ Made' \ Unrecorded' \subseteq (Made \ Unrecorded) \cup {now}
      <3>1. CASE Create /\ pc' = "record"
        BY <3>1, MadeGrows DEF Unrecorded
      <3>2. CASE ~(Create /\ pc' = "record")
        <4>1. Made' = Made
          BY <3>2, MadeGrows
        <4>2. CASE pc = "record"
          <5>1. UNCHANGED <<pc, now>> \/ (Interrupted /\ now \in Name)
            BY <1>9, <4>2, PCSteps DEF List, Delete, TypeInv
          <5> QED
            BY <4>1, <4>2, <5>1 DEF Unrecorded
        <4>3. CASE pc # "record"
          BY <4>1, <4>3 DEF Unrecorded
        <4> QED
          BY <4>2, <4>3
      <3> QED
        BY <3>1, <3>2
    <2>5. \/ Cardinality(Made' \ Unrecorded') <= Cardinality(Made \ Unrecorded)
          \/ Interrupted /\ Cardinality(Made' \ Unrecorded') <= Cardinality(Made \ Unrecorded) + 1
      BY <1>6, <2>4, Grows
    <2>6. /\ sb'.total <= Cardinality(Known')
          /\ Cardinality(Made' \ Unrecorded') <= sb'.total + faults'
      <3> HIDE DEF Known
      <3> QED
        BY <1>2, <1>3, <1>4, <1>7, <2>1, <2>3, <2>5
    <2> QED
      BY <2>6 DEF TotalInv
  <1> QED
    BY <1>8, <1>9

------------------------------------------------------------------------------
(* The theorems.                                                           *)

(* The invariants together.                                                 *)
LEMMA ScheduleInvariant ==
  Spec => [](TypeInv /\ StatusInv /\ MadeInv /\ TotalInv /\ CostInv /\ RetentionInv)
  <1> DEFINE Inv == SweepInv /\ StatusInv /\ MadeInv /\ TotalInv /\ CostInv /\ RetentionInv
  <1>1. Init => Inv
    <2> SUFFICES ASSUME Init PROVE Inv
      OBVIOUS
    <2>1. /\ Made = {} /\ Unrecorded = {} /\ Completed = {}
          /\ \A t \in Name : ~Unfinished(t)
      BY DEF Init, Made, Unrecorded, Completed, Unfinished
    <2>2. /\ Orphans = {} /\ Second = {} /\ Loose = {} /\ Made \ Unrecorded = {}
          /\ {t \in Made : t <= sb.last} = {}
      BY <2>1 DEF Orphans, Second, Loose
    <2>3. Cardinality({}) = 0
      BY FS_EmptySet
    <2>4. SweepInv /\ StatusInv
      BY ScheduleAssumption DEF Init, New, SweepInv, StatusInv, Increasing, Counted
    <2>5. MadeInv /\ TotalInv
      BY <2>1, <2>2, <2>3 DEF Init, New, MadeInv, TotalInv
    <2>6. ~Misled /\ ~Ahead /\ Mishaps = 0 /\ pc = "idle"
      BY <2>1 DEF Init, Misled, Ahead, Mishaps
    <2>7. CostInv /\ RetentionInv
      BY <2>2, <2>3, <2>6, ScheduleAssumption DEF CostInv, RetentionInv, Owed
    <2> QED
      BY <2>4, <2>5, <2>7
  <1>2. TypeInv /\ Inv /\ [Next]_vars => Inv'
    BY SweepStep, StatusStep, MadeStep, TotalStep, CostStep, RetentionStep
  <1> QED
    BY <1>1, <1>2, TypeInvariant, PTL DEF Spec

(* Whatever is interrupted, edited or deleted: while no outdated schedule   *)
(* was read, no Backup is counted twice, and each fault makes the total     *)
(* miss at most one.                                                        *)
THEOREM CountedOnceCorrect == Spec => []CountedOnce
  <1>1. TypeInv /\ StatusInv /\ MadeInv /\ TotalInv => CountedOnce
    <2> SUFFICES ASSUME TypeInv, StatusInv, MadeInv, TotalInv, outdated = 0
                 PROVE  CountedOnce
      BY DEF CountedOnce
    <2>1. sb.total <= Cardinality(Made \ Unrecorded)
      <3> DEFINE K == {t \in Made : t <= sb.last}
      <3>1. /\ K \in SUBSET Name /\ Made \ Unrecorded \in SUBSET Name
            /\ sb.last \in Nat /\ sb.total \in Nat
        BY ScheduleFields DEF Made, TypeInv, TypeOK
      <3>2. K \subseteq Made \ Unrecorded
        <4>1. pc = "record" => now \in Nat /\ NextTime(sb.last) <= now
          BY DEF StatusInv, TypeInv, Name
        <4>2. sb.last < NextTime(sb.last) /\ NextTime(sb.last) \in Nat
          BY <3>1, NextTimes
        <4>3. pc = "record" => ~(now <= sb.last)
          BY <3>1, <4>1, <4>2
        <4> QED
          BY <4>3 DEF Unrecorded
      <3>3. sb.total <= Cardinality(K)
        BY DEF TotalInv
      <3> HIDE DEF K
      <3>4. /\ Cardinality(K) <= Cardinality(Made \ Unrecorded)
            /\ Cardinality(K) \in Nat /\ Cardinality(Made \ Unrecorded) \in Nat
        BY <3>1, <3>2, Grows
      <3> QED
        BY <3>1, <3>3, <3>4
    <2>2. Cardinality(Made \ Unrecorded) <= sb.total + faults
      BY DEF TotalInv
    <2> QED
      BY <2>1, <2>2 DEF StatusInv, Increasing, CountedOnce
  <1> QED
    BY <1>1, ScheduleInvariant, PTL

(* With a cache that lags and calls that fail: each fault and each outdated *)
(* read leaves at most one Backup that nobody waits for, and makes at most  *)
(* one more for the same due time.                                          *)
THEOREM OneAtATimeCorrect == Spec => []OneAtATime
  <1>1. TypeInv /\ MadeInv /\ CostInv => OneAtATime
    <2> SUFFICES ASSUME TypeInv, MadeInv, CostInv PROVE OneAtATime
      OBVIOUS
    <2>1. /\ Cardinality(Orphans) \in Nat /\ Cardinality(Second) \in Nat
      <3>1. Orphans \in SUBSET Name /\ Second \in SUBSET Name
        BY DEF Orphans, Second, Made
      <3> QED
        BY <3>1, Finite
    <2>2. Mishaps \in Nat /\ \A c : Owed(c) \in {0, 1}
      BY ScheduleAssumption DEF Mishaps, Owed, TypeInv, TypeOK
    <2>3. Cardinality(Orphans) <= Mishaps /\ Cardinality(Second) <= Mishaps
      BY <2>1, <2>2 DEF CostInv
    <2>4. \A t \in Made : t >= Period
      <3>1. \A t \in Made : t \in Nat /\ Period <= t
        BY DEF MadeInv, Made, Name
      <3> QED
        BY <3>1, ScheduleAssumption
    <2> QED
      BY <2>3, <2>4 DEF OneAtATime, Orphans, Second, Mishaps
  <1> QED
    BY <1>1, ScheduleInvariant, PTL

(* cleanupRetention leaves at most maxCount completed Backups, but for the  *)
(* one whose completion is not yet noticed and one for each mishap.         *)
THEOREM RetentionEnforcedCorrect == Spec => []RetentionEnforced
  <1>1. TypeInv /\ RetentionInv => RetentionEnforced
    <2> SUFFICES ASSUME TypeInv, RetentionInv, pc = "idle", MaxCount > 0
                 PROVE  Cardinality(Completed \ {sb.active}) <= MaxCount + faults + outdated
      BY DEF RetentionEnforced
    <2>1. Completed \ {sb.active} \subseteq Loose
      BY DEF Loose, Unrecorded, Completed
    <2>2. Loose \in SUBSET Name /\ Completed \ {sb.active} \in SUBSET Name
      BY DEF Loose, Completed
    <2>3. /\ Cardinality(Completed \ {sb.active}) <= Cardinality(Loose)
          /\ Cardinality(Completed \ {sb.active}) \in Nat /\ Cardinality(Loose) \in Nat
      BY <2>1, <2>2, Grows
    <2>4. Cardinality(Loose) + Owed(Misled) <= MaxCount + Mishaps /\ Owed(Misled) \in {0, 1}
      BY DEF RetentionInv, Owed
    <2>5. MaxCount \in Nat /\ faults \in Nat /\ outdated \in Nat
      BY ScheduleAssumption DEF TypeInv, TypeOK
    <2> QED
      BY <2>3, <2>4, <2>5 DEF Mishaps
  <1> QED
    BY <1>1, ScheduleInvariant, PTL

==============================================================================
