----------------------------- MODULE StepsProofs -----------------------------
(***************************************************************************)
(* What rr_steps promises for every persist threshold, set of targets,     *)
(* length of walk, day and number of faults: one announcement a day, no    *)
(* step of an earlier day in today's count, little lost by a restart and   *)
(* every confirmed walk credited in full.                                  *)
(***************************************************************************)
EXTENDS Steps, TLAPS

Announcing == {"announce", "announceOnly"}

Saving == {"save", "saveCount", "saveMark"}

(* Every peak of an unconfirmed streak is still to be credited. *)
Led == streak < Entry => unconfirmed = streak

-----------------------------------------------------------------------------
(* Budgets, keys and credits.                                              *)

LEMMA Bounds ==
  /\ MaxFailures \in Nat /\ MaxSyncs \in Nat /\ MaxBacks \in Nat /\ MaxReboots \in Nat
  /\ MaxTargets \in Nat /\ MaxAll \in Nat
BY StepsAssumption DEF StepsAssumption

LEMMA OneLess ==
  ASSUME NEW m \in Nat, NEW k \in 0..m, k > 0
  PROVE  k - 1 \in 0..m
OBVIOUS

LEMMA BudgetFields ==
  ASSUME TypeOK
  PROVE  /\ budget.failures \in Nat /\ budget.failures <= MaxFailures
         /\ budget.backs \in Nat /\ budget.backs <= MaxBacks
         /\ budget.reboots \in Nat
BY StepsAssumption DEF StepsAssumption, TypeOK, Budgets

(* Only a failure spends a failure, and only a step back a step back. *)
LEMMA FailureSpends ==
  ASSUME TypeOK, Spend("failures")
  PROVE  /\ budget' \in Budgets
         /\ budget'.failures = budget.failures - 1
         /\ budget'.backs = budget.backs
         /\ budget'.reboots = budget.reboots
<1>1. budget \in Budgets /\ budget.failures > 0 /\ budget.all > 0
      /\ budget' = [budget EXCEPT !["failures"] = @ - 1, !.all = @ - 1]
  BY DEF TypeOK, Spend
<1>2. budget' \in Budgets
  <2>1. budget.failures \in 0..MaxFailures /\ budget.all \in 0..MaxAll
    BY <1>1 DEF Budgets
  <2> DEFINE x == budget.failures - 1
             y == budget.all - 1
  <2>2. x \in 0..MaxFailures /\ y \in 0..MaxAll
    BY <1>1, <2>1, Bounds, OneLess
  <2>3. budget' = [budget EXCEPT !["failures"] = x, !.all = y]
    BY <1>1
  <2> HIDE DEF x, y
  <2> QED
    BY <1>1, <2>2, <2>3 DEF Budgets
<1>3. budget'.failures = budget.failures - 1
  BY <1>1 DEF Budgets
<1>4. budget'.backs = budget.backs
  BY <1>1 DEF Budgets
<1>5. budget'.reboots = budget.reboots
  BY <1>1 DEF Budgets
<1> QED
  BY <1>2, <1>3, <1>4, <1>5

LEMMA SyncSpends ==
  ASSUME TypeOK, Spend("syncs")
  PROVE  /\ budget' \in Budgets
         /\ budget'.syncs = budget.syncs - 1
         /\ budget'.backs = budget.backs
         /\ budget'.failures = budget.failures
         /\ budget'.reboots = budget.reboots
<1>1. budget \in Budgets /\ budget.syncs > 0 /\ budget.all > 0
      /\ budget' = [budget EXCEPT !["syncs"] = @ - 1, !.all = @ - 1]
  BY DEF TypeOK, Spend
<1>2. budget' \in Budgets
  <2>1. budget.syncs \in 0..MaxSyncs /\ budget.all \in 0..MaxAll
    BY <1>1 DEF Budgets
  <2> DEFINE x == budget.syncs - 1
             y == budget.all - 1
  <2>2. x \in 0..MaxSyncs /\ y \in 0..MaxAll
    BY <1>1, <2>1, Bounds, OneLess
  <2>3. budget' = [budget EXCEPT !["syncs"] = x, !.all = y]
    BY <1>1
  <2> HIDE DEF x, y
  <2> QED
    BY <1>1, <2>2, <2>3 DEF Budgets
<1>3. budget'.syncs = budget.syncs - 1
  BY <1>1 DEF Budgets
<1>4. budget'.backs = budget.backs
  BY <1>1 DEF Budgets
<1>5. budget'.failures = budget.failures
  BY <1>1 DEF Budgets
<1>6. budget'.reboots = budget.reboots
  BY <1>1 DEF Budgets
<1> QED
  BY <1>2, <1>3, <1>4, <1>5, <1>6

LEMMA BackSpends ==
  ASSUME TypeOK, Spend("backs")
  PROVE  /\ budget' \in Budgets
         /\ budget'.backs = budget.backs - 1
         /\ budget'.failures = budget.failures
         /\ budget'.reboots = budget.reboots
<1>1. budget \in Budgets /\ budget.backs > 0 /\ budget.all > 0
      /\ budget' = [budget EXCEPT !["backs"] = @ - 1, !.all = @ - 1]
  BY DEF TypeOK, Spend
<1>2. budget' \in Budgets
  <2>1. budget.backs \in 0..MaxBacks /\ budget.all \in 0..MaxAll
    BY <1>1 DEF Budgets
  <2> DEFINE x == budget.backs - 1
             y == budget.all - 1
  <2>2. x \in 0..MaxBacks /\ y \in 0..MaxAll
    BY <1>1, <2>1, Bounds, OneLess
  <2>3. budget' = [budget EXCEPT !["backs"] = x, !.all = y]
    BY <1>1
  <2> HIDE DEF x, y
  <2> QED
    BY <1>1, <2>2, <2>3 DEF Budgets
<1>3. budget'.backs = budget.backs - 1
  BY <1>1 DEF Budgets
<1>4. budget'.failures = budget.failures
  BY <1>1 DEF Budgets
<1>5. budget'.reboots = budget.reboots
  BY <1>1 DEF Budgets
<1> QED
  BY <1>2, <1>3, <1>4, <1>5

LEMMA RebootSpends ==
  ASSUME TypeOK, Spend("reboots")
  PROVE  /\ budget' \in Budgets
         /\ budget'.reboots = budget.reboots - 1
         /\ budget'.backs = budget.backs
         /\ budget'.failures = budget.failures
<1>1. budget \in Budgets /\ budget.reboots > 0 /\ budget.all > 0
      /\ budget' = [budget EXCEPT !["reboots"] = @ - 1, !.all = @ - 1]
  BY DEF TypeOK, Spend
<1>2. budget' \in Budgets
  <2>1. budget.reboots \in 0..MaxReboots /\ budget.all \in 0..MaxAll
    BY <1>1 DEF Budgets
  <2> DEFINE x == budget.reboots - 1
             y == budget.all - 1
  <2>2. x \in 0..MaxReboots /\ y \in 0..MaxAll
    BY <1>1, <2>1, Bounds, OneLess
  <2>3. budget' = [budget EXCEPT !["reboots"] = x, !.all = y]
    BY <1>1
  <2> HIDE DEF x, y
  <2> QED
    BY <1>1, <2>2, <2>3 DEF Budgets
<1>3. budget'.reboots = budget.reboots - 1
  BY <1>1 DEF Budgets
<1>4. budget'.backs = budget.backs
  BY <1>1 DEF Budgets
<1>5. budget'.failures = budget.failures
  BY <1>1 DEF Budgets
<1> QED
  BY <1>2, <1>3, <1>4, <1>5

LEMMA FailureSpent ==
  ASSUME TypeOK, Spend("failures")
  PROVE  budget' \in Budgets /\ budget'.failures # MaxFailures
BY FailureSpends, BudgetFields, StepsAssumption DEF StepsAssumption

LEMMA KeyFields ==
  ASSUME TypeOK
  PROVE  /\ nvs.day \in Days \cup {None} /\ nvs.count \in (0..MaxSteps) \cup {None}
         /\ nvs.targetDay \in Days \cup {None} /\ nvs.target \in Targets \cup {None}
BY DEF TypeOK, Keys

LEMMA NumberType ==
  ASSUME TypeOK
  PROVE  /\ date \in Nat /\ day \in Nat /\ daily \in Nat /\ persisted \in Nat
         /\ streak \in Nat /\ unconfirmed \in Nat /\ burst \in Nat
         /\ Entry \in Nat /\ Entry > 1 /\ PerDetect \in Nat /\ PerDetect > 0
         /\ Delta \in Nat /\ Delta > 0 /\ None \notin Nat
         /\ Days \subseteq Nat
BY StepsAssumption DEF StepsAssumption, TypeOK, Days

LEMMA ProductType ==
  ASSUME NEW a \in Nat, NEW b \in Nat
  PROVE  a * b \in Nat
OBVIOUS

LEMMA GoalType == TypeOK => target \in Nat
BY StepsAssumption DEF StepsAssumption, TypeOK

LEMMA CreditType == TypeOK => Credit \in Nat
<1> SUFFICES ASSUME TypeOK PROVE Credit \in Nat
  OBVIOUS
<1>1. (unconfirmed + 1) * PerDetect \in Nat
  BY NumberType, ProductType
<1> QED
  BY <1>1, NumberType DEF Credit

-----------------------------------------------------------------------------
(* Type correctness.                                                       *)

LEMMA InitType == Init => TypeOK
<1> SUFFICES ASSUME Init PROVE TypeOK
  OBVIOUS
<1>1. budget \in Budgets
  BY StepsAssumption DEF Init, StepsAssumption, Budgets
<1>2. nvs \in Keys
  BY DEF Init, Keys
<1>3. date \in 1..MaxDay /\ day \in Days
  BY StepsAssumption DEF Init, StepsAssumption, Days
<1>4. streak \in 0..(Entry + 1) /\ unconfirmed \in 0..Entry /\ daily \in 0..MaxSteps
      /\ persisted \in 0..MaxSteps /\ burst \in Nat
  BY StepsAssumption DEF Init, StepsAssumption
<1> QED
  BY <1>1, <1>2, <1>3, <1>4 DEF Init, TypeOK

LEMMA CheckType ==
  ASSUME TypeOK, NEW steps, NEW mark \in Days \cup {None}, NEW goal,
         NEW next \in {<<"announce", "maybe">>, <<"announceOnly", "idle">>},
         CheckTarget(steps, mark, goal, next)
  PROVE  /\ targetDay' \in Days \cup {None}
         /\ pc' \in {"save", "maybe", "idle"}
         /\ after' \in {"idle", "announce", "announceOnly"}
<1>1. next[1] \in {"announce", "announceOnly"} /\ next[2] \in {"maybe", "idle"}
  OBVIOUS
<1> QED
  BY <1>1 DEF CheckTarget, TypeOK

LEMMA WriteType ==
  ASSUME TypeOK, NEW key \in {"day", "count", "targetDay"}, NEW value, Writes(key, value),
         key = "day" => value \in Days,
         key = "count" => value \in 0..MaxSteps,
         key = "targetDay" => value \in Days \cup {None}
  PROVE  nvs' \in Keys /\ budget' \in Budgets
<1>1. budget' \in Budgets
  BY FailureSpends DEF Writes, TypeOK
<1>2. CASE key = "day"
  BY <1>2, <1>1 DEF Writes, TypeOK, Keys
<1>3. CASE key = "count"
  BY <1>3, <1>1 DEF Writes, TypeOK, Keys
<1>4. CASE key = "targetDay"
  BY <1>4, <1>1 DEF Writes, TypeOK, Keys
<1> QED
  BY <1>2, <1>3, <1>4

LEMMA TargetType ==
  ASSUME TypeOK, NEW t \in Targets, NEW saved \in BOOLEAN, SetTarget(t, saved)
  PROVE  /\ budget' \in Budgets
         /\ budget'.backs = budget.backs /\ budget'.reboots = budget.reboots
         /\ budget'.failures <= budget.failures
         /\ nvs' \in Keys
         /\ nvs'.day = nvs.day /\ nvs'.count = nvs.count /\ nvs'.targetDay = nvs.targetDay
<1> DEFINE f == IF saved THEN budget.failures ELSE budget.failures - 1
<1>1. budget \in Budgets /\ budget.targets > 0 /\ budget.all > 0
      /\ f \in 0..MaxFailures /\ f <= budget.failures
  BY BudgetFields, StepsAssumption DEF SetTarget, TypeOK, StepsAssumption
<1>2. budget' = [budget EXCEPT !.targets = @ - 1, !.all = @ - 1, !.failures = f]
  BY DEF SetTarget
<1> HIDE DEF f
<1>3. budget' \in Budgets
  <2>1. budget.targets \in 0..MaxTargets /\ budget.all \in 0..MaxAll
    BY <1>1 DEF Budgets
  <2> DEFINE x == budget.targets - 1
             y == budget.all - 1
  <2>2. x \in 0..MaxTargets /\ y \in 0..MaxAll
    BY <1>1, <2>1, Bounds, OneLess
  <2>3. budget' = [budget EXCEPT !.targets = x, !.all = y, !.failures = f]
    BY <1>2
  <2> HIDE DEF x, y
  <2> QED
    BY <1>1, <2>2, <2>3 DEF Budgets
<1>4. budget'.failures = f
  BY <1>1, <1>2 DEF Budgets
<1>5. budget'.backs = budget.backs
  BY <1>1, <1>2 DEF Budgets
<1>6. budget'.reboots = budget.reboots
  BY <1>1, <1>2 DEF Budgets
<1>7. nvs \in Keys /\ (nvs' = [nvs EXCEPT !.target = t] \/ nvs' = nvs)
  BY DEF SetTarget, TypeOK
<1>8. nvs' \in Keys /\ nvs'.day = nvs.day /\ nvs'.count = nvs.count
      /\ nvs'.targetDay = nvs.targetDay
  BY <1>7 DEF Keys
<1> QED
  BY <1>1, <1>3, <1>4, <1>5, <1>6, <1>8

LEMMA StepType == TypeOK /\ Led /\ [Next]_vars => TypeOK'
<1> SUFFICES ASSUME TypeOK, Led, [Next]_vars PROVE TypeOK'
  OBVIOUS
<1> USE DEF TypeOK, world, detector, counter, aim, flash
<1>1. ASSUME NEW tooSoon \in BOOLEAN, StrayPeak(tooSoon) PROVE TypeOK'
  BY <1>1, StepsAssumption DEF StrayPeak, StepsAssumption
<1>2. CASE Unconfirmed
  <2>1. Longer < Entry
    BY <1>2, NumberType, ProductType DEF Unconfirmed, Credit, Longer
  <2>2. streak + 1 < Entry
    BY <2>1, NumberType DEF Longer
  <2>3. streak' \in 0..(Entry + 1) /\ unconfirmed' \in 0..Entry
    BY <1>2, <2>2, NumberType DEF Unconfirmed, Led
  <2> QED
    BY <1>2, <2>3 DEF Unconfirmed
<1>3. CASE Silence
  BY <1>3, NumberType DEF Silence
<1>4. CASE Stride
  <2>1. targetDay' \in Days \cup {None} /\ pc' \in {"save", "maybe", "idle"}
        /\ after' \in {"idle", "announce", "announceOnly"}
    BY <1>4, CheckType DEF Stride
  <2>2. daily' \in 0..MaxSteps /\ burst' \in Nat
    BY <1>4, CreditType, NumberType, StepsAssumption DEF Stride, StepsAssumption
  <2>3. streak' \in 0..(Entry + 1) /\ unconfirmed' \in 0..Entry
    BY <1>4, NumberType DEF Stride, Longer
  <2>4. oldest' \in Days \cup {None}
    BY <1>4, StepsAssumption DEF Stride, Days, StepsAssumption
  <2> QED
    BY <1>4, <2>1, <2>2, <2>3, <2>4 DEF Stride
<1>5. CASE Announce
  BY <1>5 DEF Announce
<1>6. ASSUME NEW long \in BOOLEAN, MaybeStore(long) PROVE TypeOK'
  BY <1>6 DEF MaybeStore
<1>7. CASE CheckDay
  <2>1. day' \in Days /\ daily' \in 0..MaxSteps
    BY <1>7, StepsAssumption DEF CheckDay, Days, StepsAssumption
  <2> QED
    BY <1>7, <2>1 DEF CheckDay
<1>8. CASE AdoptDay
  <2>1. day' \in Days
    BY <1>8, StepsAssumption DEF AdoptDay, Days, StepsAssumption
  <2> QED
    BY <1>8, <2>1 DEF AdoptDay
<1>9. CASE SameDay
  BY <1>9 DEF SameDay
<1>10. ASSUME NEW t \in Targets, NEW saved \in BOOLEAN, SetTarget(t, saved) PROVE TypeOK'
  <2>1. budget' \in Budgets /\ nvs' \in Keys
    BY <1>10, TargetType
  <2>2. CheckTarget(daily, IF Rearms(t) THEN None ELSE targetDay, t, <<"announceOnly", "idle">>)
    BY <1>10 DEF SetTarget
  <2>3. targetDay' \in Days \cup {None} /\ pc' \in {"save", "maybe", "idle"}
        /\ after' \in {"idle", "announce", "announceOnly"}
    BY <2>2, CheckType
  <2>4. announced' \subseteq Days
    BY <1>10 DEF SetTarget
  <2> QED
    BY <1>10, <2>1, <2>3, <2>4 DEF SetTarget
<1>11. CASE SaveNotOpened
  <2>1. budget' \in Budgets
    BY <1>11, FailureSpends DEF SaveNotOpened
  <2> QED
    BY <1>11, <2>1 DEF SaveNotOpened
<1>12. CASE SaveDay
  <2>1. nvs' \in Keys /\ budget' \in Budgets
    BY <1>12, WriteType DEF SaveDay
  <2> QED
    BY <1>12, <2>1 DEF SaveDay
<1>13. CASE SaveCount
  <2>1. nvs' \in Keys /\ budget' \in Budgets
    BY <1>13, WriteType DEF SaveCount
  <2>2. oldestSaved' \in Days \cup {None} /\ torn' \in BOOLEAN
    BY <1>13 DEF SaveCount
  <2> QED
    BY <1>13, <2>1, <2>2 DEF SaveCount
<1>14. CASE SaveMark
  <2>1. nvs' \in Keys /\ budget' \in Budgets
    BY <1>14, WriteType DEF SaveMark
  <2> QED
    BY <1>14, <2>1 DEF SaveMark
<1>15. ASSUME NEW readable \in BOOLEAN, Reboot(readable) PROVE TypeOK'
  <2>1. budget' \in Budgets
    BY <1>15, RebootSpends DEF Reboot
  <2>2. day' \in Days
    BY <1>15, KeyFields, StepsAssumption DEF Reboot, Stored, Days, StepsAssumption
  <2>3. daily' \in 0..MaxSteps /\ persisted' \in 0..MaxSteps
    BY <1>15, KeyFields, StepsAssumption DEF Reboot, Resumes, Stored, StepsAssumption
  <2>4. target' \in Targets \cup {DefaultTarget} /\ targetDay' \in Days \cup {None}
        /\ oldest' \in Days \cup {None}
    BY <1>15, KeyFields DEF Reboot
  <2>5. streak' \in 0..(Entry + 1) /\ unconfirmed' \in 0..Entry /\ burst' \in Nat
    BY <1>15, NumberType DEF Reboot
  <2>6. torn' \in BOOLEAN
    BY <1>15 DEF Reboot
  <2>7. /\ date' = date /\ clockSet' \in BOOLEAN /\ dayKnown' \in BOOLEAN
        /\ nvs' = nvs /\ announced' = announced /\ oldestSaved' = oldestSaved
        /\ carried' = carried /\ pc' = "idle" /\ after' = "idle"
    BY <1>15 DEF Reboot
  <2> QED
    BY <2>1, <2>2, <2>3, <2>4, <2>5, <2>6, <2>7
<1>16. CASE Midnight
  <2>1. date' \in 1..MaxDay
    BY <1>16, StepsAssumption DEF Midnight, StepsAssumption
  <2> QED
    BY <1>16, <2>1 DEF Midnight
<1>17. ASSUME NEW d \in 1..MaxDay, SetClock(d) PROVE TypeOK'
  <2>1. budget' \in Budgets
    BY <1>17, SyncSpends, BackSpends DEF SetClock
  <2> QED
    BY <1>17, <2>1 DEF SetClock
<1>18. CASE UNCHANGED vars
  BY <1>18 DEF vars
<1> QED
  BY <1>1, <1>2, <1>3, <1>4, <1>5, <1>6, <1>7, <1>8, <1>9, <1>10, <1>11, <1>12,
     <1>13, <1>14, <1>15, <1>16, <1>17, <1>18 DEF Next

-----------------------------------------------------------------------------
(* Walks.                                                                  *)

Walk == Led /\ WalkCreditedInFull

LEMMA InitWalk == Init => Walk
BY StepsAssumption DEF Init, Walk, Led, WalkCreditedInFull, StepsAssumption

LEMMA PositiveProduct ==
  ASSUME NEW a \in Nat \ {0}, NEW b \in Nat \ {0}
  PROVE  a * b > 0
OBVIOUS

LEMMA StepWalk == TypeOK /\ Walk /\ [Next]_vars => Walk'
<1> SUFFICES ASSUME TypeOK, Walk, [Next]_vars PROVE Walk'
  OBVIOUS
<1> USE DEF Walk, Led, WalkCreditedInFull
<1>0. /\ streak \in Nat /\ unconfirmed \in Nat /\ burst \in Nat
      /\ Entry \in Nat /\ Entry > 1 /\ PerDetect \in Nat \ {0}
  BY NumberType
<1>1. ASSUME NEW tooSoon \in BOOLEAN, StrayPeak(tooSoon) PROVE Walk'
  BY <1>0, <1>1 DEF StrayPeak
<1>2. CASE Unconfirmed
  <2>1. (unconfirmed + 1) * PerDetect > 0
    BY <1>0, PositiveProduct
  <2>2. streak + 1 < Entry
    BY <1>0, <1>2, <2>1 DEF Unconfirmed, Credit, Longer
  <2>3. streak' = streak + 1 /\ unconfirmed' = unconfirmed + 1 /\ burst' = burst
    BY <1>2 DEF Unconfirmed
  <2> QED
    BY <1>0, <2>2, <2>3
<1>3. CASE Silence
  BY <1>0, <1>3 DEF Silence
<1>4. CASE Stride
  <2>1. streak' = Longer /\ unconfirmed' = 0
        /\ burst' = IF Longer > streak THEN burst + Credit ELSE burst
    BY <1>4 DEF Stride
  <2>2. streak' >= Entry
    <3>1. ASSUME Longer < Entry PROVE FALSE
      <4>1. Credit = 0
        BY <3>1 DEF Credit
      <4> QED
        BY <1>4, <4>1 DEF Stride
    <3>2. Longer \in Nat
      BY <1>0 DEF Longer
    <3> QED
      BY <1>0, <2>1, <3>1, <3>2
  <2>3. ASSUME streak' = Entry PROVE burst' = Entry * PerDetect
    <3>1. streak + 1 = Entry /\ unconfirmed + 1 = Entry /\ burst = 0 /\ Longer = Entry
      BY <1>0, <2>1, <2>3 DEF Longer
    <3>2. Credit = Entry * PerDetect
      BY <1>0, <3>1 DEF Credit
    <3>3. Entry * PerDetect \in Nat
      BY <1>0, ProductType
    <3> QED
      BY <1>0, <2>1, <3>1, <3>2, <3>3
  <2>4. streak' \in Nat
    BY <1>0, <2>1 DEF Longer
  <2>5. ~(streak' < Entry)
    BY <1>0, <2>2, <2>4
  <2>6. streak' <= Entry => streak' = Entry
    BY <1>0, <2>2, <2>4
  <2> QED
    BY <2>3, <2>5, <2>6
<1>5. ASSUME NEW readable \in BOOLEAN, Reboot(readable) PROVE Walk'
  BY <1>0, <1>5 DEF Reboot
<1>6. CASE UNCHANGED detector
  BY <1>6 DEF detector
<1> QED
  BY <1>1, <1>2, <1>3, <1>4, <1>5, <1>6
     DEF Next, Announce, MaybeStore, CheckDay, AdoptDay, SameDay, SetTarget, SaveNotOpened,
         SaveDay, SaveCount, SaveMark, Midnight, SetClock, vars

-----------------------------------------------------------------------------
(* Announcements.  As long as the flash works and the clock is not set     *)
(* back, the mark of the day's announcement stands in RAM and in NVS from  *)
(* before the tone is played, and a day that was announced and left behind *)
(* is not come back to.                                                    *)

Clean == budget.failures = MaxFailures /\ budget.backs = MaxBacks

(* An announcement is under way. *)
Owed == pc \in Announcing \/ (pc \in Saving /\ after \in Announcing)

Marked ==
  \A d \in announced :
    /\ d <= date
    /\ dayKnown => d <= day
    /\ d = date \/ (dayKnown /\ d = day) => targetDay = d /\ nvs.targetDay = d

OwedOnce ==
  /\ Owed => dayKnown /\ day \notin announced /\ targetDay = day
  /\ pc \in Announcing => nvs.targetDay = day

Once == Marked /\ (dayKnown => day <= date) /\ OwedOnce

LEMMA InitOnce == Init => Once
BY StepsAssumption DEF Init, Once, Marked, OwedOnce, Owed, Announcing, Saving

LEMMA DayType ==
  ASSUME TypeOK
  PROVE  /\ date \in Nat /\ day \in Nat /\ None \notin Nat
         /\ announced \subseteq Nat /\ \A d \in announced : d \in Nat
BY StepsAssumption DEF StepsAssumption, TypeOK, Days

(* An announcement begins only on a day that was not announced. *)
LEMMA BeginsOnce ==
  ASSUME TypeOK, Once, NEW steps \in Nat, NEW goal \in Nat, NEW mark,
         NEW next \in {<<"announce", "maybe">>, <<"announceOnly", "idle">>},
         CheckTarget(steps, mark, goal, next),
         \/ mark = targetDay
         \/ /\ mark = None /\ announced' = announced \ {day}
            /\ targetDay = day /\ steps < goal,
         announced' \subseteq announced, nvs'.targetDay = nvs.targetDay,
         UNCHANGED <<world, day, dayKnown>>
  PROVE  Once'
<1>0. /\ date \in Nat /\ day \in Nat /\ None \notin Nat
      /\ announced \subseteq Nat /\ \A d \in announced : d \in Nat
  BY DayType
<1>1. date' = date /\ day' = day /\ dayKnown' = dayKnown
  BY DEF world
<1>2. next[1] \in Announcing /\ next[2] \in {"maybe", "idle"}
  BY DEF Announcing
<1>3. CASE Announces(steps, mark, goal)
  <2>1. dayKnown /\ mark # day /\ ~(steps < goal)
    BY <1>3 DEF Announces
  <2>2. mark = targetDay
    BY <2>1
  <2>3. day \notin announced
    BY <2>1, <2>2 DEF Once, Marked
  <2>4. targetDay' = day /\ pc' = "save" /\ after' \in Announcing
    BY <1>2, <1>3 DEF CheckTarget
  <2>5. Marked'
    BY <1>0, <1>1, <2>1, <2>3 DEF Once, Marked
  <2>6. OwedOnce'
    BY <1>1, <2>1, <2>3, <2>4 DEF OwedOnce, Owed, Announcing, Saving
  <2> QED
    BY <1>1, <2>5, <2>6 DEF Once
<1>4. CASE ~Announces(steps, mark, goal)
  <2>1. targetDay' = mark /\ pc' \in {"maybe", "idle"}
    BY <1>2, <1>4 DEF CheckTarget
  <2>2. OwedOnce'
    BY <2>1 DEF OwedOnce, Owed, Announcing, Saving
  <2>3. ASSUME NEW d \in announced'
        PROVE  /\ d <= date' /\ (dayKnown' => d <= day')
               /\ d = date' \/ (dayKnown' /\ d = day') => targetDay' = d /\ nvs'.targetDay = d
    <3>1. d \in announced /\ d <= date /\ (dayKnown => d <= day)
          /\ (d = date \/ (dayKnown /\ d = day) => targetDay = d /\ nvs.targetDay = d)
      BY <2>3 DEF Once, Marked
    <3>2. mark = targetDay \/ ~(d = date \/ (dayKnown /\ d = day))
      BY <3>1, <2>3
    <3> QED
      BY <1>1, <2>1, <3>1, <3>2
  <2>4. Marked'
    BY <2>3 DEF Marked
  <2> QED
    BY <1>1, <2>2, <2>4 DEF Once
<1> QED
  BY <1>3, <1>4

(* A save passes an announcement that is under way on, with its mark. *)
LEMMA SavesOnce ==
  ASSUME TypeOK, TypeOK', Once, pc \in Saving,
         (pc' \in Saving /\ after' = after) \/ pc' = after,
         UNCHANGED <<world, day, dayKnown, targetDay, announced>>,
         nvs'.targetDay = nvs.targetDay \/ nvs'.targetDay = targetDay,
         pc' \in Announcing => nvs'.targetDay = targetDay
  PROVE  Once'
<1>1. date' = date /\ day' = day /\ dayKnown' = dayKnown
  BY DEF world
<1>2. Marked'
  BY <1>1 DEF Once, Marked
<1>3. Owed' => Owed
  BY DEF Owed, Saving, Announcing, TypeOK
<1>4. pc' \in Announcing => Owed
  BY DEF Owed, Saving, Announcing, TypeOK
<1>5. OwedOnce'
  BY <1>1, <1>3, <1>4 DEF Once, OwedOnce
<1> QED
  BY <1>1, <1>2, <1>5 DEF Once

LEMMA WriteFields ==
  ASSUME TypeOK, NEW key \in {"day", "count", "targetDay"}, NEW value, Writes(key, value),
         budget'.failures = MaxFailures
  PROVE  /\ budget' = budget
         /\ key = "day" => nvs'.day = value /\ nvs'.count = nvs.count
                             /\ nvs'.targetDay = nvs.targetDay
         /\ key = "count" => nvs'.day = nvs.day /\ nvs'.count = value
                             /\ nvs'.targetDay = nvs.targetDay
         /\ key = "targetDay" => nvs'.day = nvs.day /\ nvs'.count = nvs.count
                             /\ nvs'.targetDay = value
<1>1. nvs' = [nvs EXCEPT ![key] = value] /\ budget' = budget
  BY FailureSpent DEF Writes
<1>2. nvs \in Keys
  BY DEF TypeOK
<1>3. CASE key = "day"
  BY <1>1, <1>2, <1>3 DEF Keys
<1>4. CASE key = "count"
  BY <1>1, <1>2, <1>4 DEF Keys
<1>5. CASE key = "targetDay"
  BY <1>1, <1>2, <1>5 DEF Keys
<1> QED
  BY <1>1, <1>3, <1>4, <1>5

LEMMA CleanStep ==
  ASSUME TypeOK, [Next]_vars, Clean'
  PROVE  Clean
<1>0. /\ budget.failures \in Nat /\ budget.failures <= MaxFailures
      /\ budget.backs \in Nat /\ budget.backs <= MaxBacks
      /\ MaxFailures \in Nat /\ MaxBacks \in Nat
  BY BudgetFields, Bounds
<1>1. ASSUME budget' = budget PROVE Clean
  BY <1>1 DEF Clean
<1>2. ASSUME NEW t \in Targets, NEW saved \in BOOLEAN, SetTarget(t, saved) PROVE Clean
  <2>1. budget'.failures \in Nat /\ budget'.failures <= budget.failures
        /\ budget'.backs = budget.backs
    BY <1>0, <1>2, TargetType DEF Clean
  <2> QED
    BY <1>0, <2>1 DEF Clean
<1>3. ASSUME Spend("failures") PROVE Clean
  BY <1>3, FailureSpent DEF Clean
<1>4. ASSUME Spend("reboots") PROVE Clean
  BY <1>4, RebootSpends DEF Clean
<1>5. ASSUME Spend("syncs") PROVE Clean
  BY <1>5, SyncSpends DEF Clean
<1>6. ASSUME Spend("backs") PROVE Clean
  <2>1. budget'.backs = budget.backs - 1
    BY <1>6, BackSpends
  <2> QED
    BY <1>0, <2>1 DEF Clean
<1>7. ASSUME NEW d \in 1..MaxDay, SetClock(d) PROVE Clean
  BY <1>5, <1>6, <1>7 DEF SetClock
<1> QED
  BY <1>1, <1>2, <1>3, <1>4, <1>7
     DEF Next, StrayPeak, Unconfirmed, Silence, Stride, Announce, MaybeStore, CheckDay,
         AdoptDay, SameDay, SaveNotOpened, SaveDay, SaveCount, SaveMark, Writes, Reboot,
         Midnight, vars

LEMMA StepOnce == TypeOK /\ TypeOK' /\ (Clean => Once) /\ [Next]_vars => (Clean' => Once')
<1> SUFFICES ASSUME TypeOK, TypeOK', Clean, Clean', Once, [Next]_vars PROVE Once'
  BY CleanStep
<1> USE DEF world, detector, counter, aim, flash
<1>0. /\ date \in Nat /\ day \in Nat /\ None \notin Nat
      /\ \A d \in announced : d \in Nat
  BY DayType
<1>a. /\ Marked /\ (dayKnown => day <= date)
      /\ Owed => dayKnown /\ day \notin announced /\ targetDay = day
      /\ pc \in Announcing => nvs.targetDay = day
  BY DEF Once, OwedOnce
<1>1. ASSUME pc' = pc, after' = after, UNCHANGED <<world, counter, aim, nvs>> PROVE Once'
  BY <1>1, <1>a DEF Once, Marked, OwedOnce, Owed
<1>2. ASSUME pc' \notin Announcing, pc' \notin Saving,
             UNCHANGED <<world, day, dayKnown, aim, nvs>> PROVE Once'
  BY <1>2, <1>a DEF Once, Marked, OwedOnce, Owed
<1>3. CASE Stride
  <2>1. daily' \in Nat /\ target \in Nat
    BY <1>3, NumberType, CreditType, GoalType DEF Stride
  <2>2. CheckTarget(daily', targetDay, target, <<"announce", "maybe">>)
    BY <1>3 DEF Stride
  <2>3. announced' = announced /\ nvs' = nvs /\ UNCHANGED <<world, day, dayKnown>>
    BY <1>3 DEF Stride
  <2> QED
    BY <2>1, <2>2, <2>3, BeginsOnce
<1>4. CASE Announce
  <2>1. dayKnown /\ targetDay = day /\ nvs.targetDay = day /\ day <= date
    BY <1>4, <1>a DEF Announce, Owed, Announcing
  <2>2. announced' = announced \cup {day}
        /\ UNCHANGED <<date, day, dayKnown, targetDay, nvs>>
        /\ pc' \notin Announcing /\ pc' \notin Saving
    BY <1>4 DEF Announce, Announcing, Saving
  <2>3. Marked'
    BY <1>0, <1>a, <2>1, <2>2 DEF Marked
  <2> QED
    BY <2>1, <2>2, <2>3 DEF Once, OwedOnce, Owed
<1>5. ASSUME NEW long \in BOOLEAN, MaybeStore(long) PROVE Once'
  <2>1. pc' \notin Announcing /\ after' = "idle"
        /\ UNCHANGED <<date, day, dayKnown, targetDay, nvs, announced>>
    BY <1>5 DEF MaybeStore, Announcing
  <2> QED
    BY <2>1, <1>a DEF Once, Marked, OwedOnce, Owed, Announcing
<1>6. ASSUME day' = date, dayKnown', pc' = "save", after' = "maybe",
             UNCHANGED <<world, aim, nvs>> PROVE Once'
  <2>1. Marked'
    BY <1>0, <1>6, <1>a DEF Marked
  <2> QED
    BY <1>0, <1>6, <2>1 DEF Once, OwedOnce, Owed, Announcing
<1>7. ASSUME NEW t \in Targets, NEW saved \in BOOLEAN, SetTarget(t, saved) PROVE Once'
  <2>1. nvs'.targetDay = nvs.targetDay
    BY <1>7, TargetType
  <2>2. t \in Nat /\ daily \in Nat
    BY NumberType, StepsAssumption DEF StepsAssumption
  <2>3. CASE Rearms(t)
    BY <1>7, <2>1, <2>2, <2>3, BeginsOnce DEF SetTarget, Rearms
  <2>4. CASE ~Rearms(t)
    BY <1>7, <2>1, <2>2, <2>4, BeginsOnce DEF SetTarget
  <2> QED
    BY <2>3, <2>4
<1>8. CASE SaveNotOpened
  BY <1>8, FailureSpent DEF SaveNotOpened, Clean
<1>9. CASE SaveDay
  <2>1. nvs'.targetDay = nvs.targetDay
    BY <1>9, WriteFields DEF SaveDay, Clean
  <2> QED
    BY <1>9, <2>1, SavesOnce DEF SaveDay, Saving, Announcing
<1>10. CASE SaveCount
  <2>1. nvs'.targetDay = nvs.targetDay
    BY <1>10, WriteFields DEF SaveCount, Clean
  <2> QED
    BY <1>10, <2>1, SavesOnce DEF SaveCount, Saving, Announcing
<1>11. CASE SaveMark
  <2>1. nvs'.targetDay = targetDay
    BY <1>11, WriteFields DEF SaveMark, Clean
  <2> QED
    BY <1>11, <2>1, SavesOnce DEF SaveMark, Saving
<1>12. ASSUME NEW readable \in BOOLEAN, Reboot(readable) PROVE Once'
  <2>1. /\ date' = date /\ dayKnown' = readable /\ (readable => day' = date)
        /\ targetDay' = nvs.targetDay /\ nvs' = nvs /\ announced' = announced
        /\ pc' = "idle"
    BY <1>0, <1>12 DEF Reboot, TypeOK
  <2>2. Marked'
    BY <1>0, <1>a, <2>1 DEF Marked
  <2> QED
    BY <1>0, <2>1, <2>2 DEF Once, OwedOnce, Owed, Announcing, Saving
<1>13. ASSUME date' \in Nat, date <= date', UNCHANGED <<counter, aim, nvs, pc, after>>
       PROVE  Once'
  <2>1. Marked'
    BY <1>0, <1>13, <1>a DEF Marked
  <2>2. dayKnown' => day' <= date'
    BY <1>0, <1>13, <1>a
  <2> QED
    BY <1>13, <1>a, <2>1, <2>2 DEF Once, OwedOnce, Owed
<1>14. ASSUME NEW d \in 1..MaxDay, SetClock(d) PROVE Once'
  <2>1. ~(d < date)
    <3>1. ASSUME Spend("backs") PROVE FALSE
      BY <3>1, BackSpends, BudgetFields, Bounds DEF Clean
    <3> QED
      BY <1>14, <3>1 DEF SetClock
  <2> QED
    BY <1>0, <1>13, <1>14, <2>1 DEF SetClock
<1>15. CASE Midnight
  BY <1>0, <1>13, <1>15 DEF Midnight
<1>16. ASSUME \/ \E tooSoon \in BOOLEAN : StrayPeak(tooSoon)
             \/ Unconfirmed \/ Silence \/ UNCHANGED vars
       PROVE  Once'
  BY <1>16, <1>1 DEF StrayPeak, Unconfirmed, Silence, vars
<1>17. CASE SameDay
  BY <1>17, <1>2 DEF SameDay, Announcing, Saving
<1>18. CASE CheckDay \/ AdoptDay
  BY <1>18, <1>6 DEF CheckDay, AdoptDay
<1> QED
  BY <1>3, <1>4, <1>5, <1>7, <1>8, <1>9, <1>10, <1>11, <1>12, <1>14, <1>15, <1>16, <1>17,
     <1>18 DEF Next

-----------------------------------------------------------------------------
(* Days.  The count in hand and the saved one never hold a step that is    *)
(* older than the day they are filed under.                                *)

Tidy == budget.backs = MaxBacks /\ ~torn

InOrder == day <= date /\ (nvs.day # None => nvs.day <= date)

Filed ==
  oldest # None =>
    /\ daily > 0
    /\ carried \/ (oldest >= day /\ (nvs.day # None => oldest >= nvs.day))

FiledSaved ==
  oldestSaved # None =>
    /\ nvs.count # None /\ nvs.count > 0
    /\ carried \/ nvs.day = None \/ pc = "saveCount" \/ oldestSaved >= nvs.day

(* A watch that knows neither the day nor a step has none saved. *)
NothingCarried ==
  ~dayKnown /\ daily = 0 => oldestSaved = None \/ nvs.day = None \/ pc = "saveCount"

Dated == InOrder /\ Filed /\ FiledSaved /\ NothingCarried

LEMMA InitDated == Init => Dated
BY StepsAssumption DEF Init, Dated, InOrder, Filed, FiledSaved, NothingCarried, StepsAssumption

LEMMA TidyStep ==
  ASSUME TypeOK, [Next]_vars, Tidy'
  PROVE  Tidy
<1>0. budget.backs \in Nat /\ budget.backs <= MaxBacks /\ MaxBacks \in Nat
  BY BudgetFields, Bounds
<1>1. budget'.backs \in {budget.backs, budget.backs - 1}
  <2>1. ASSUME budget' = budget PROVE budget'.backs = budget.backs
    BY <2>1
  <2>2. ASSUME NEW t \in Targets, NEW saved \in BOOLEAN, SetTarget(t, saved)
        PROVE  budget'.backs = budget.backs
    BY <2>2, TargetType
  <2>3. ASSUME Spend("failures") PROVE budget'.backs = budget.backs
    BY <2>3, FailureSpends
  <2>4. ASSUME Spend("reboots") PROVE budget'.backs = budget.backs
    BY <2>4, RebootSpends
  <2>5. ASSUME NEW d \in 1..MaxDay, SetClock(d)
        PROVE  budget'.backs \in {budget.backs, budget.backs - 1}
    BY <2>5, SyncSpends, BackSpends DEF SetClock
  <2> QED
    BY <2>1, <2>2, <2>3, <2>4, <2>5
       DEF Next, StrayPeak, Unconfirmed, Silence, Stride, Announce, MaybeStore, CheckDay,
           AdoptDay, SameDay, SaveNotOpened, SaveDay, SaveCount, SaveMark, Writes, Reboot,
           Midnight, vars
<1>2. budget.backs = MaxBacks
  BY <1>0, <1>1 DEF Tidy
<1>3. torn => torn'
  BY DEF Next, StrayPeak, Unconfirmed, Silence, Stride, Announce, MaybeStore, CheckDay,
         AdoptDay, SameDay, SetTarget, SaveNotOpened, SaveDay, SaveCount, SaveMark, Reboot,
         Midnight, SetClock, vars, flash
<1> QED
  BY <1>2, <1>3 DEF Tidy

LEMMA StepDated == TypeOK /\ TypeOK' /\ (Tidy => Dated) /\ [Next]_vars => (Tidy' => Dated')
<1> SUFFICES ASSUME TypeOK, TypeOK', Tidy, Tidy', Dated, [Next]_vars PROVE Dated'
  BY TidyStep
<1> USE DEF world, detector, counter, aim, flash
<1>0. /\ date \in Nat /\ day \in Nat /\ daily \in Nat /\ None \notin Nat
      /\ nvs.day \in Nat \cup {None} /\ nvs.count \in Nat \cup {None}
      /\ oldest \in Nat \cup {None} /\ oldestSaved \in Nat \cup {None}
  BY NumberType, KeyFields, StepsAssumption DEF StepsAssumption, TypeOK
<1>a. InOrder /\ Filed /\ FiledSaved /\ NothingCarried
  BY DEF Dated
<1>1. ASSUME UNCHANGED <<date, counter, nvs, oldestSaved, carried>>,
             pc = "saveCount" => pc' = "saveCount"
      PROVE  Dated'
  BY <1>1, <1>a DEF Dated, InOrder, Filed, FiledSaved, NothingCarried
<1>2. CASE Stride
  <2>1. Credit \in Nat /\ Credit > 0 /\ daily' = daily + Credit
    BY <1>2, CreditType DEF Stride
  <2>2. daily' > 0
    BY <1>0, <2>1
  <2>3. /\ date' = date /\ day' = day /\ nvs' = nvs /\ oldestSaved' = oldestSaved
        /\ carried' = carried /\ dayKnown' = dayKnown /\ pc # "saveCount"
        /\ oldest' = IF oldest = None THEN date ELSE oldest
    BY <1>2 DEF Stride
  <2>4. Filed'
    BY <1>0, <1>a, <2>2, <2>3 DEF Filed, InOrder
  <2>5. InOrder' /\ FiledSaved'
    BY <1>a, <2>3 DEF InOrder, FiledSaved
  <2>6. NothingCarried'
    BY <2>2 DEF NothingCarried
  <2> QED
    BY <2>4, <2>5, <2>6 DEF Dated
<1>3. CASE CheckDay
  <2>1. /\ date' = date /\ day' = date /\ nvs' = nvs /\ oldestSaved' = oldestSaved
        /\ carried' = carried /\ dayKnown' /\ oldest' = None /\ pc # "saveCount"
    BY <1>3 DEF CheckDay
  <2> QED
    BY <1>0, <1>a, <2>1 DEF Dated, InOrder, Filed, FiledSaved, NothingCarried
<1>4. CASE AdoptDay
  <2>1. /\ date' = date /\ day' = date /\ nvs' = nvs /\ oldestSaved' = oldestSaved
        /\ dayKnown' /\ ~dayKnown /\ oldest' = oldest /\ daily' = daily /\ pc # "saveCount"
    BY <1>4 DEF AdoptDay
  <2>2. carried' <=> daily > 0
    BY <1>4 DEF AdoptDay
  <2>3. Filed'
    BY <1>a, <2>1, <2>2 DEF Filed
  <2>4. CASE daily > 0
    BY <1>0, <1>a, <2>1, <2>2, <2>3, <2>4 DEF Dated, InOrder, FiledSaved, NothingCarried
  <2>5. CASE daily = 0
    BY <1>0, <1>a, <2>1, <2>3, <2>5 DEF Dated, InOrder, FiledSaved, NothingCarried
  <2> QED
    BY <1>0, <2>4, <2>5
<1>5. ASSUME NEW t \in Targets, NEW saved \in BOOLEAN, SetTarget(t, saved) PROVE Dated'
  <2>1. nvs'.day = nvs.day /\ nvs'.count = nvs.count
    BY <1>5, TargetType
  <2>2. UNCHANGED <<date, counter, oldestSaved, carried>> /\ pc # "saveCount"
    BY <1>5 DEF SetTarget
  <2> QED
    BY <1>a, <2>1, <2>2 DEF Dated, InOrder, Filed, FiledSaved, NothingCarried
<1>6. CASE SaveNotOpened
  BY <1>6, <1>1 DEF SaveNotOpened
<1>7. CASE SaveDay
  <2>1. /\ nvs' = nvs \/ (nvs'.day = day /\ nvs'.count = nvs.count)
        /\ UNCHANGED <<date, counter, oldestSaved, carried>> /\ pc' = "saveCount"
    <3>1. nvs' = nvs \/ nvs' = [nvs EXCEPT !["day"] = day]
      BY <1>7 DEF SaveDay, Writes
    <3> QED
      BY <1>7, <3>1 DEF SaveDay, TypeOK, Keys
  <2> QED
    BY <1>0, <1>a, <2>1 DEF Dated, InOrder, Filed, FiledSaved, NothingCarried
<1>8. CASE SaveCount
  <2>1. nvs'.day = nvs.day /\ nvs'.count \in {daily, nvs.count}
    <3>1. nvs' = nvs \/ nvs' = [nvs EXCEPT !["count"] = daily]
      BY <1>8 DEF SaveCount, Writes
    <3> QED
      BY <3>1 DEF TypeOK, Keys
  <2>2. nvs'.count = daily
    BY <1>8 DEF SaveCount, Tidy
  <2>3. oldestSaved' = oldest /\ UNCHANGED <<date, counter, carried>>
    BY <1>8, <2>2 DEF SaveCount
  <2> QED
    BY <1>0, <1>a, <2>1, <2>2, <2>3 DEF Dated, InOrder, Filed, FiledSaved, NothingCarried
<1>9. CASE SaveMark
  <2>1. nvs'.day = nvs.day /\ nvs'.count = nvs.count
    <3>1. nvs' = nvs \/ nvs' = [nvs EXCEPT !["targetDay"] = targetDay]
      BY <1>9 DEF SaveMark, Writes
    <3> QED
      BY <3>1 DEF TypeOK, Keys
  <2>2. UNCHANGED <<date, counter, oldestSaved, carried>> /\ pc # "saveCount"
    BY <1>9 DEF SaveMark
  <2> QED
    BY <1>a, <2>1, <2>2 DEF Dated, InOrder, Filed, FiledSaved, NothingCarried
<1>10. ASSUME NEW readable \in BOOLEAN, Reboot(readable) PROVE Dated'
  <2>1. pc # "saveCount"
    BY <1>10 DEF Reboot, Tidy
  <2>2. /\ date' = date /\ nvs' = nvs /\ oldestSaved' = oldestSaved /\ carried' = carried
        /\ dayKnown' = readable /\ pc' = "idle"
        /\ readable => day' = date
        /\ ~readable => day' = IF Stored THEN nvs.day ELSE 0
    BY <1>0, <1>10 DEF Reboot
  <2> DEFINE today == IF readable THEN date ELSE None
  <2>3. /\ daily' = IF Resumes(today) THEN nvs.count ELSE 0
        /\ oldest' = IF Resumes(today) THEN oldestSaved ELSE None
    BY <1>10 DEF Reboot
  <2>4. Resumes(today) <=> Stored /\ (~readable \/ nvs.day = date)
    BY <1>0 DEF Resumes
  <2> HIDE DEF today
  <2>5. InOrder'
    BY <1>0, <1>a, <2>2 DEF InOrder, Stored
  <2>6. FiledSaved'
    BY <1>a, <2>1, <2>2 DEF FiledSaved
  <2>7. CASE Resumes(today)
    <3>1. Stored /\ daily' = nvs.count /\ oldest' = oldestSaved /\ day' = nvs.day
      BY <2>2, <2>3, <2>4, <2>7
    <3>2. Filed'
      BY <1>0, <1>a, <2>1, <2>2, <3>1 DEF Filed, FiledSaved, Stored
    <3>3. NothingCarried'
      BY <1>0, <1>a, <2>1, <2>2, <3>1 DEF NothingCarried, FiledSaved
    <3> QED
      BY <2>5, <2>6, <3>2, <3>3 DEF Dated
  <2>8. CASE ~Resumes(today)
    <3>1. oldest' = None /\ (~readable => ~Stored)
      BY <2>3, <2>4, <2>8
    <3>2. Filed'
      BY <3>1 DEF Filed
    <3>3. NothingCarried'
      BY <1>a, <2>2, <3>1 DEF NothingCarried, FiledSaved, Stored
    <3> QED
      BY <2>5, <2>6, <3>2, <3>3 DEF Dated
  <2> QED
    BY <2>7, <2>8
<1>11. ASSUME date' \in Nat, date <= date',
              UNCHANGED <<counter, nvs, oldestSaved, carried, pc>>
       PROVE  Dated'
  <2>1. InOrder'
    BY <1>0, <1>11, <1>a DEF InOrder
  <2> QED
    BY <1>11, <1>a, <2>1 DEF Dated, Filed, FiledSaved, NothingCarried
<1>12. ASSUME NEW d \in 1..MaxDay, SetClock(d) PROVE Dated'
  <2>1. ~(d < date)
    <3>1. ASSUME Spend("backs") PROVE FALSE
      BY <3>1, BackSpends, BudgetFields, Bounds DEF Tidy
    <3> QED
      BY <1>12, <3>1 DEF SetClock
  <2> QED
    BY <1>0, <1>11, <1>12, <2>1 DEF SetClock
<1>13. CASE Midnight
  BY <1>0, <1>11, <1>13 DEF Midnight
<1>14. ASSUME \/ \E tooSoon \in BOOLEAN : StrayPeak(tooSoon)
              \/ \E long \in BOOLEAN : MaybeStore(long)
              \/ Unconfirmed \/ Silence \/ Announce \/ SameDay \/ UNCHANGED vars
       PROVE  Dated'
  BY <1>14, <1>1 DEF StrayPeak, MaybeStore, Unconfirmed, Silence, Announce, SameDay, vars
<1> QED
  BY <1>2, <1>3, <1>4, <1>5, <1>6, <1>7, <1>8, <1>9, <1>10, <1>12, <1>13, <1>14 DEF Next

-----------------------------------------------------------------------------
(* Saves.  While the flash works, persisted is what a restart on the same  *)
(* day would find, and the count is kept within Delta of it.               *)

Sound == budget.failures = MaxFailures /\ ~torn

Found == IF nvs.count # None /\ nvs.day = day THEN nvs.count ELSE 0

Kept ==
  /\ pc = "saveCount" => nvs.day = day
  /\ pc \in {"saveMark", "announce", "announceOnly"} => nvs.day = day /\ nvs.count = daily
  /\ pc \in {"announce", "announceOnly"} => persisted = daily
  /\ pc \in {"idle", "maybe"} => persisted = Found
  /\ pc = "idle" => daily < persisted + Delta

LEMMA InitKept == Init => Kept
BY StepsAssumption DEF Init, Kept, Found, StepsAssumption

LEMMA SoundStep ==
  ASSUME TypeOK, [Next]_vars, Sound'
  PROVE  Sound
<1>0. budget.failures \in Nat /\ budget.failures <= MaxFailures /\ MaxFailures \in Nat
  BY BudgetFields, Bounds
<1>1. ASSUME budget' = budget PROVE budget.failures = MaxFailures
  BY <1>1 DEF Sound
<1>2. ASSUME NEW t \in Targets, NEW saved \in BOOLEAN, SetTarget(t, saved)
      PROVE  budget.failures = MaxFailures
  BY <1>0, <1>2, TargetType DEF Sound
<1>3. ASSUME Spend("failures") PROVE budget.failures = MaxFailures
  BY <1>3, FailureSpent DEF Sound
<1>4. ASSUME Spend("reboots") PROVE budget.failures = MaxFailures
  BY <1>4, RebootSpends DEF Sound
<1>5. ASSUME NEW d \in 1..MaxDay, SetClock(d) PROVE budget.failures = MaxFailures
  BY <1>5, SyncSpends, BackSpends DEF SetClock, Sound
<1>6. budget.failures = MaxFailures
  BY <1>1, <1>2, <1>3, <1>4, <1>5
     DEF Next, StrayPeak, Unconfirmed, Silence, Stride, Announce, MaybeStore, CheckDay,
         AdoptDay, SameDay, SaveNotOpened, SaveDay, SaveCount, SaveMark, Writes, Reboot,
         Midnight, vars
<1>7. torn => torn'
  BY DEF Next, StrayPeak, Unconfirmed, Silence, Stride, Announce, MaybeStore, CheckDay,
         AdoptDay, SameDay, SetTarget, SaveNotOpened, SaveDay, SaveCount, SaveMark, Reboot,
         Midnight, SetClock, vars, flash
<1> QED
  BY <1>6, <1>7 DEF Sound

LEMMA StepKept == TypeOK /\ TypeOK' /\ (Sound => Kept) /\ [Next]_vars => (Sound' => Kept')
<1> SUFFICES ASSUME TypeOK, TypeOK', Sound, Sound', Kept, [Next]_vars PROVE Kept'
  BY SoundStep
<1> USE DEF world, detector, counter, aim, flash
<1>0. /\ date \in Nat /\ day \in Nat /\ daily \in Nat /\ persisted \in Nat
      /\ None \notin Nat /\ Delta \in Nat /\ Delta > 0
      /\ nvs.day \in Nat \cup {None} /\ nvs.count \in Nat \cup {None}
  BY NumberType, KeyFields, StepsAssumption DEF StepsAssumption
<1>1. ASSUME UNCHANGED <<day, daily, nvs, persisted, pc>> PROVE Kept'
  BY <1>1 DEF Kept, Found
<1>2. CASE Stride
  <2>1. pc' \in {"save", "maybe"} /\ pc = "idle" /\ UNCHANGED <<day, nvs, persisted>>
    BY <1>2 DEF Stride, CheckTarget
  <2> QED
    BY <2>1 DEF Kept, Found
<1>3. CASE Announce
  <2>1. /\ pc' \in {"maybe", "idle"} /\ pc \in {"announce", "announceOnly"}
        /\ UNCHANGED <<day, daily, nvs, persisted>>
    BY <1>3 DEF Announce
  <2> QED
    BY <1>0, <2>1 DEF Kept, Found
<1>4. ASSUME NEW long \in BOOLEAN, MaybeStore(long) PROVE Kept'
  <2>1. pc = "maybe" /\ pc' \in {"save", "idle"} /\ UNCHANGED <<day, daily, nvs, persisted>>
    BY <1>4 DEF MaybeStore
  <2>2. pc' = "idle" => daily = persisted \/ ~Enough
    BY <1>4 DEF MaybeStore
  <2>3. pc' = "idle" => daily < persisted + Delta
    BY <1>0, <2>2 DEF Enough
  <2> QED
    BY <2>1, <2>3 DEF Kept, Found
<1>5. ASSUME pc' = "save" PROVE Kept'
  BY <1>5 DEF Kept
<1>6. CASE SameDay
  BY <1>6 DEF SameDay, Kept, Found
<1>7. ASSUME NEW t \in Targets, NEW saved \in BOOLEAN, SetTarget(t, saved) PROVE Kept'
  <2>1. nvs'.day = nvs.day /\ nvs'.count = nvs.count
    BY <1>7, TargetType
  <2>2. pc = "idle" /\ pc' \in {"save", "idle"} /\ UNCHANGED <<day, daily, persisted>>
    BY <1>7 DEF SetTarget, CheckTarget
  <2> QED
    BY <2>1, <2>2 DEF Kept, Found
<1>8. CASE SaveNotOpened
  BY <1>8, FailureSpent DEF SaveNotOpened, Sound
<1>9. CASE SaveDay
  <2>1. nvs'.day = day /\ pc' = "saveCount" /\ day' = day
    BY <1>9, WriteFields DEF SaveDay, Sound
  <2> QED
    BY <2>1 DEF Kept
<1>10. CASE SaveCount
  <2>1. nvs'.day = nvs.day /\ nvs'.count = daily
    BY <1>10, WriteFields DEF SaveCount, Sound
  <2>2. pc = "saveCount" /\ pc' = "saveMark" /\ day' = day /\ daily' = daily
    BY <1>10 DEF SaveCount
  <2> QED
    BY <2>1, <2>2 DEF Kept
<1>11. CASE SaveMark
  <2>1. nvs'.day = nvs.day /\ nvs'.count = nvs.count
    BY <1>11, WriteFields DEF SaveMark, Sound
  <2>2. pc = "saveMark" /\ persisted' = daily /\ day' = day /\ daily' = daily
        /\ pc' \in {"idle", "announce", "announceOnly", "maybe"}
    BY <1>11 DEF SaveMark, TypeOK
  <2>3. nvs'.day = day' /\ nvs'.count = daily' /\ nvs'.count # None
    BY <1>0, <2>1, <2>2 DEF Kept
  <2> QED
    BY <1>0, <2>2, <2>3 DEF Kept, Found
<1>12. ASSUME NEW readable \in BOOLEAN, Reboot(readable) PROVE Kept'
  <2> DEFINE today == IF readable THEN date ELSE None
  <2>1. /\ nvs' = nvs /\ pc' = "idle" /\ persisted' = daily'
        /\ readable => day' = date
        /\ ~readable => day' = IF Stored THEN nvs.day ELSE 0
        /\ daily' = IF Resumes(today) THEN nvs.count ELSE 0
    BY <1>0, <1>12 DEF Reboot
  <2>2. Resumes(today) <=> Stored /\ (~readable \/ nvs.day = date)
    BY <1>0 DEF Resumes
  <2> HIDE DEF today
  <2>3. daily' = Found'
    BY <1>0, <2>1, <2>2 DEF Found, Stored
  <2>4. daily' \in Nat
    BY <1>0, <2>1, <2>2 DEF Stored
  <2> QED
    BY <1>0, <2>1, <2>3, <2>4 DEF Kept
<1>13. ASSUME \/ \E tooSoon \in BOOLEAN : StrayPeak(tooSoon)
              \/ Unconfirmed \/ Silence \/ Midnight \/ UNCHANGED vars
              \/ \E d \in 1..MaxDay : SetClock(d)
       PROVE  Kept'
  BY <1>13, <1>1 DEF StrayPeak, Unconfirmed, Silence, Midnight, SetClock, vars
<1>14. CASE CheckDay \/ AdoptDay
  BY <1>14, <1>5 DEF CheckDay, AdoptDay
<1> QED
  BY <1>2, <1>3, <1>4, <1>6, <1>7, <1>8, <1>9, <1>10, <1>11, <1>12, <1>13, <1>14 DEF Next

-----------------------------------------------------------------------------
IInv ==
  /\ TypeOK
  /\ Walk
  /\ Clean => Once
  /\ Tidy => Dated
  /\ Sound => Kept

(* Every part of IInv, by induction over the steps of rr_steps. *)
THEOREM Invariance == Spec => []IInv
<1>1. Init => IInv
  BY InitType, InitWalk, InitOnce, InitDated, InitKept DEF IInv
<1>2. IInv /\ [Next]_vars => IInv'
  <2> SUFFICES ASSUME IInv, [Next]_vars PROVE IInv'
    OBVIOUS
  <2>1. TypeOK'
    BY StepType DEF IInv, Walk
  <2> QED
    BY <2>1, StepWalk, StepOnce, StepDated, StepKept DEF IInv
<1> QED
  BY <1>1, <1>2, PTL DEF Spec

(* The variables of rr_steps keep their ranges: a streak is not counted    *)
(* past Entry + 1, and what is pending never exceeds Entry.                *)
THEOREM StepsTypeCorrect == Spec => []TypeOK
BY Invariance, PTL DEF IInv

(* take_step credits every confirmed walk in full.  Entry > 1 is needed:   *)
(* with an ENTRY_STEPS of 1 the first stride would never be credited.      *)
THEOREM WalksCredited == Spec => []WalkCreditedInFull
<1>1. IInv => WalkCreditedInFull
  BY DEF IInv, Walk
<1> QED
  BY <1>1, Invariance, PTL

(* check_target_locked plays the tone once a day, whatever is set, saved   *)
(* and cut short in between.                                               *)
THEOREM OneAnnouncement == Spec => []AnnouncedOnceADay
<1>1. IInv => AnnouncedOnceADay
  BY DEF IInv, Clean, Once, OwedOnce, Owed, Announcing, AnnouncedOnceADay
<1> QED
  BY <1>1, Invariance, PTL

(* What is counted for today was walked today: check_day_locked and        *)
(* rr_steps_init never file an older step under it, but for the exceptions *)
(* that CountsOnlyToday names.                                             *)
THEOREM TodaysSteps == Spec => []CountsOnlyToday
<1>1. IInv => CountsOnlyToday
  BY DEF IInv, Tidy, Dated, Filed, CountsOnlyToday
<1> QED
  BY <1>1, Invariance, PTL

(* A restart between two handlers finds the count within Delta of what it  *)
(* was: maybe_store saves often enough.                                    *)
THEOREM LittleIsLost == Spec => RestartLosesLittle
<1>1. IInv /\ IInv' /\ [Next]_vars
        => (budget'.reboots < budget.reboots /\ pc = "idle" /\ dayKnown /\ dayKnown'
              /\ day' = day /\ budget.failures = MaxFailures /\ ~torn
              => daily < daily' + Delta)
  <2> SUFFICES ASSUME IInv, [Next]_vars, budget'.reboots < budget.reboots, pc = "idle",
                      dayKnown', day' = day, budget.failures = MaxFailures, ~torn
               PROVE  daily < daily' + Delta
    OBVIOUS
  <2>0. TypeOK /\ Kept /\ budget.reboots \in Nat
    BY BudgetFields DEF IInv, Sound
  <2>1. PICK readable \in BOOLEAN : Reboot(readable)
    <3>1. ~(budget.reboots < budget.reboots)
      BY <2>0
    <3>2. budget' # budget
      BY <3>1
    <3>3. ASSUME NEW t \in Targets, NEW saved \in BOOLEAN, SetTarget(t, saved) PROVE FALSE
      BY <2>0, <3>1, <3>3, TargetType
    <3>4. ASSUME NEW d \in 1..MaxDay, SetClock(d) PROVE FALSE
      BY <2>0, <3>1, <3>4, SyncSpends, BackSpends DEF SetClock
    <3> QED
      BY <3>2, <3>3, <3>4
         DEF Next, StrayPeak, Unconfirmed, Silence, Stride, Announce, MaybeStore, CheckDay,
             AdoptDay, SameDay, SaveNotOpened, SaveDay, SaveCount, SaveMark, Midnight, vars
  <2>2. readable /\ day = date /\ daily' = IF Resumes(date) THEN nvs.count ELSE 0
    BY <2>0, <2>1, NumberType DEF Reboot
  <2>3. daily' = Found
    BY <2>0, <2>2, NumberType, KeyFields DEF Resumes, Stored, Found
  <2> QED
    BY <2>0, <2>3 DEF Kept
<1> QED
  BY <1>1, Invariance, PTL DEF Spec, RestartLosesLittle

=============================================================================
