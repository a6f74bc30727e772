-------------------------------- MODULE Steps --------------------------------
(***************************************************************************)
(* The step count of components/rr_steps/src/rr_steps.c: the detector that *)
(* turns peaks of the accelerometer into steps, the day they are counted   *)
(* into, the tone that announces the day's target, and the four NVS keys   *)
(* with which all this survives a reboot.                                  *)
(*                                                                         *)
(* The sampling task, the watch face (rr_steps_refresh) and the parent     *)
(* (rr_steps_set_target) hold one lock, so their handlers do not overlap;  *)
(* power may fail in the middle of one, between the NVS keys it writes.    *)
(* A key is on flash once nvs_set returns.                                 *)
(*                                                                         *)
(* Days are numbered as local_day_number does, 0 being 2000-01-01.         *)
(***************************************************************************)
EXTENDS Naturals

CONSTANTS
  None,       \* no day (INT32_MIN), and a key that was never written
  Entry,      \* ENTRY_STEPS
  PerDetect,  \* STEPS_PER_DETECT
  Delta,      \* RR_STEPS_PERSIST_DELTA
  Targets,    \* the targets a parent may set; 0 is off
  DefaultTarget, \* DEFAULT_STEP_TARGET
  MaxDay,     \* bound: the last day
  MaxSteps,   \* bound: the steps of a day
  MaxSyncs,   \* bound: how often the clock is set, forward or when it was unset
  MaxBacks,   \* bound: how often it is set back
  MaxTargets, \* bound: how often the parent sets a target
  MaxReboots, \* bound: power cuts and restarts
  MaxFailures, \* bound: NVS calls that fail
  MaxAll      \* bound on all of these together

ASSUME StepsAssumption ==
  /\ {Entry, PerDetect, Delta} \subseteq Nat \ {0}
  /\ Targets \subseteq Nat
  /\ DefaultTarget \in Nat
  /\ {MaxDay, MaxSteps, MaxSyncs, MaxBacks, MaxTargets, MaxReboots, MaxFailures, MaxAll}
       \subseteq Nat
  /\ None \notin Nat
  /\ Entry > 1

VARIABLES
  \* the world
  date,       \* the RTC's local day
  clockSet,   \* the RTC can tell it
  budget,     \* what the bounds still allow
  \* rr_steps, in RAM and in NVS
  streak,     \* s_streak
  unconfirmed, \* s_pending: peaks not credited yet
  daily,      \* s_daily
  day,        \* s_day
  dayKnown,   \* s_day_known
  target,     \* s_target
  targetDay,  \* s_target_day: the day whose target was announced, or None
  persisted,  \* s_persisted
  nvs,        \* the four keys, None where one was never written
  pc,         \* where the handler that holds the lock is
  after,      \* where it goes on once it has saved
  \* history
  burst,      \* steps credited since the streak began
  announced,  \* the days announced and not re-armed since
  oldest,     \* the day on which the oldest step in daily was taken
  oldestSaved, \* the same for the saved count
  carried,    \* steps of an unknown day were filed on a known one
  torn        \* a day was saved without its count

world    == <<date, clockSet>>
detector == <<streak, unconfirmed, burst>>
counter  == <<daily, day, dayKnown, oldest>>
aim      == <<target, targetDay, announced>>
flash    == <<persisted, nvs, oldestSaved, torn>>
vars == <<world, budget, detector, counter, aim, flash, carried, pc, after>>

Days == 0..MaxDay

-----------------------------------------------------------------------------
Init ==
  /\ date \in 1..MaxDay
  /\ clockSet \in BOOLEAN
  /\ budget = [syncs |-> MaxSyncs, backs |-> MaxBacks, targets |-> MaxTargets,
               reboots |-> MaxReboots, failures |-> MaxFailures, all |-> MaxAll]
  /\ streak = 0
  /\ unconfirmed = 0
  /\ daily = 0
  /\ day = IF clockSet THEN date ELSE 0
  /\ dayKnown = clockSet
  /\ target = DefaultTarget
  /\ targetDay = None
  /\ persisted = 0
  /\ nvs = [day |-> None, count |-> None, targetDay |-> None, target |-> None]
  /\ pc = "idle"
  /\ after = "idle"
  /\ burst = 0
  /\ announced = {}
  /\ oldest = None
  /\ oldestSaved = None
  /\ carried = FALSE
  /\ torn = FALSE

Spend(what) ==
  /\ budget[what] > 0 /\ budget.all > 0
  /\ budget' = [budget EXCEPT ![what] = @ - 1, !.all = @ - 1]

(***************************************************************************)
(* The detector.  A peak is too soon after the last one, a stride after    *)
(* it, or the first for a long time.  Once the streak is past Entry the    *)
(* code only counts it on.                                                 *)
(***************************************************************************)
Longer == IF streak > Entry THEN streak ELSE streak + 1

\* Mutant: the peaks that led up to the streak are forgotten.
CreditLastOnly == IF Longer < Entry THEN 0 ELSE PerDetect

Credit ==
  IF Longer < Entry THEN 0
  ELSE IF Longer = Entry THEN (unconfirmed + 1) * PerDetect
  ELSE PerDetect

StrayPeak(tooSoon) ==
  /\ pc = "idle"
  /\ streak' = IF tooSoon THEN 0 ELSE 1
  /\ unconfirmed' = streak'
  /\ burst' = 0
  /\ UNCHANGED <<world, budget, counter, aim, flash, carried, pc, after>>

Unconfirmed ==
  /\ pc = "idle"
  /\ Credit = 0
  /\ streak' = streak + 1
  /\ unconfirmed' = unconfirmed + 1
  /\ UNCHANGED <<world, budget, burst, counter, aim, flash, carried, pc, after>>

\* A long silence abandons a streak that was not confirmed.
Silence ==
  /\ pc = "idle"
  /\ streak \in 1..(Entry - 1)
  /\ streak' = 0
  /\ unconfirmed' = 0
  /\ burst' = 0
  /\ UNCHANGED <<world, budget, counter, aim, flash, carried, pc, after>>

-----------------------------------------------------------------------------
(* The count and its target.                                               *)

\* Mutant: check_target_locked does not look at the day it announced last.
AnnouncesAgain(steps, mark, goal) == goal # 0 /\ steps >= goal /\ dayKnown

Announces(steps, mark, goal) ==
  /\ goal # 0
  /\ steps >= goal
  /\ dayKnown
  /\ mark # day

\* check_target_locked, whose caller goes on at next.
CheckTarget(steps, mark, goal, next) ==
  IF Announces(steps, mark, goal)
  THEN targetDay' = day /\ pc' = "save" /\ after' = next[1]
  ELSE targetDay' = mark /\ pc' = next[2] /\ after' = "idle"

Stride ==
  /\ pc = "idle"
  /\ Credit > 0
  /\ daily + Credit <= MaxSteps
  /\ streak' = Longer
  /\ unconfirmed' = 0
  /\ burst' = IF Longer > streak THEN burst + Credit ELSE burst
  /\ daily' = daily + Credit
  /\ oldest' = IF oldest = None THEN date ELSE oldest
  /\ CheckTarget(daily', targetDay, target, <<"announce", "maybe">>)
  /\ UNCHANGED <<world, budget, day, dayKnown, target, announced, flash, carried>>

\* rr_audio_play_tone(RR_TONE_STEP_TARGET).
Announce ==
  /\ pc \in {"announce", "announceOnly"}
  /\ announced' = announced \cup {day}
  /\ pc' = IF pc = "announce" THEN "maybe" ELSE "idle"
  /\ UNCHANGED <<world, budget, detector, counter, target, targetDay, flash, carried, after>>

\* Mutant: one step too many is kept back.
EnoughLate == daily < persisted \/ daily - persisted > Delta

\* The difference is unsigned: a count below the saved one is far above it.
Enough == daily < persisted \/ daily - persisted >= Delta

\* maybe_store; long is whether RR_STEPS_PERSIST_EVERY_S have passed.
MaybeStore(long) ==
  /\ pc = "maybe"
  /\ pc' = IF daily # persisted /\ (Enough \/ long) THEN "save" ELSE "idle"
  /\ after' = "idle"
  /\ UNCHANGED <<world, budget, detector, counter, aim, flash, carried>>

\* check_day_locked, from the sampling task and from the watch face.
CheckDay ==
  /\ pc = "idle"
  /\ clockSet
  /\ dayKnown /\ date # day
  /\ day' = date
  /\ daily' = 0
  /\ oldest' = None
  /\ pc' = "save"
  /\ after' = "maybe"
  /\ UNCHANGED <<world, budget, detector, dayKnown, aim, flash, carried>>

AdoptDay ==
  /\ pc = "idle"
  /\ clockSet
  /\ ~dayKnown
  /\ day' = date
  /\ dayKnown' = TRUE
  /\ carried' = (daily > 0)
  /\ pc' = "save"
  /\ after' = "maybe"
  /\ UNCHANGED <<world, budget, detector, daily, oldest, aim, flash>>

SameDay ==
  /\ pc = "idle"
  /\ clockSet => dayKnown /\ date = day
  /\ pc' = "maybe"
  /\ UNCHANGED <<world, budget, detector, counter, aim, flash, carried, after>>

Rearms(t) == t # 0 /\ daily < t /\ targetDay = day

\* rr_steps_set_target, from RR_CONTROL set_step_target.
SetTarget(t, saved) ==
  /\ pc = "idle"
  /\ saved \/ budget.failures > 0
  /\ budget.targets > 0 /\ budget.all > 0
  /\ budget' = [budget EXCEPT !.targets = @ - 1, !.all = @ - 1,
                              !.failures = IF saved THEN @ ELSE @ - 1]
  /\ target' = t
  /\ nvs' = IF saved THEN [nvs EXCEPT !.target = t] ELSE nvs
  /\ announced' = IF Rearms(t) THEN announced \ {day} ELSE announced
  /\ CheckTarget(daily, IF Rearms(t) THEN None ELSE targetDay, t, <<"announceOnly", "idle">>)
  /\ UNCHANGED <<world, detector, counter, persisted, oldestSaved, torn, carried>>

(***************************************************************************)
(* store_now: three keys one after the other, and the note of what was     *)
(* saved, which is taken whether or not the keys could be written, but not *)
(* if NVS could not be opened.                                             *)
(***************************************************************************)
Writes(key, value) ==
  \/ nvs' = [nvs EXCEPT ![key] = value] /\ UNCHANGED budget
  \/ Spend("failures") /\ UNCHANGED nvs

SaveNotOpened ==
  /\ pc = "save"
  /\ Spend("failures")
  /\ pc' = after
  /\ UNCHANGED <<world, detector, counter, aim, flash, carried, after>>

SaveDay ==
  /\ pc = "save"
  /\ Writes("day", day)
  /\ pc' = "saveCount"
  /\ UNCHANGED <<world, detector, counter, aim, persisted, oldestSaved, torn, carried, after>>

SaveCount ==
  /\ pc = "saveCount"
  /\ Writes("count", daily)
  /\ oldestSaved' = IF nvs' = nvs /\ nvs.count # daily THEN oldestSaved ELSE oldest
  /\ torn' = (torn \/ nvs'.count # daily)
  /\ pc' = "saveMark"
  /\ UNCHANGED <<world, detector, counter, aim, persisted, carried, after>>

SaveMark ==
  /\ pc = "saveMark"
  /\ Writes("targetDay", targetDay)
  /\ persisted' = daily
  /\ pc' = after
  /\ UNCHANGED <<world, detector, counter, aim, oldestSaved, torn, carried, after>>

(***************************************************************************)
(* The power fails and rr_steps_init restores what is in NVS.              *)
(***************************************************************************)
Stored == nvs.day # None /\ nvs.count # None

\* Mutant: the stored count is taken for today's whatever its day.
ResumesAny(today) == Stored

Resumes(today) == Stored /\ (today = None \/ nvs.day = today)

Reboot(readable) ==
  LET today == IF readable THEN date ELSE None IN
  /\ Spend("reboots")
  /\ readable => clockSet
  /\ clockSet' = readable
  /\ daily' = IF Resumes(today) THEN nvs.count ELSE 0
  /\ oldest' = IF Resumes(today) THEN oldestSaved ELSE None
  /\ day' = IF today # None THEN today ELSE IF Stored THEN nvs.day ELSE 0
  /\ dayKnown' = readable
  /\ target' = IF nvs.target = None THEN DefaultTarget ELSE nvs.target
  /\ targetDay' = nvs.targetDay
  /\ persisted' = daily'
  /\ streak' = 0
  /\ unconfirmed' = 0
  /\ burst' = 0
  /\ torn' = (torn \/ pc = "saveCount")
  /\ pc' = "idle"
  /\ after' = "idle"
  /\ UNCHANGED <<date, nvs, announced, oldestSaved, carried>>

-----------------------------------------------------------------------------
(* The world. *)
Midnight ==
  /\ pc = "idle"
  /\ date < MaxDay
  /\ date' = date + 1
  /\ UNCHANGED <<clockSet, budget, detector, counter, aim, flash, carried, pc, after>>

\* TIME_SYNC, or a time zone.
SetClock(d) ==
  /\ pc = "idle"
  /\ Spend(IF d < date THEN "backs" ELSE "syncs")
  /\ date' = d
  /\ clockSet' = TRUE
  /\ UNCHANGED <<detector, counter, aim, flash, carried, pc, after>>

Next ==
  \/ \E tooSoon \in BOOLEAN : StrayPeak(tooSoon)
  \/ Unconfirmed \/ Silence \/ Stride \/ Announce
  \/ \E long \in BOOLEAN : MaybeStore(long)
  \/ CheckDay \/ AdoptDay \/ SameDay
  \/ \E t \in Targets, saved \in BOOLEAN : SetTarget(t, saved)
  \/ SaveNotOpened \/ SaveDay \/ SaveCount \/ SaveMark
  \/ \E readable \in BOOLEAN : Reboot(readable)
  \/ Midnight
  \/ \E d \in 1..MaxDay : SetClock(d)

Spec == Init /\ [][Next]_vars

-----------------------------------------------------------------------------
Budgets == [syncs : 0..MaxSyncs, backs : 0..MaxBacks, targets : 0..MaxTargets,
            reboots : 0..MaxReboots, failures : 0..MaxFailures, all : 0..MaxAll]

Keys == [day : Days \cup {None}, count : (0..MaxSteps) \cup {None},
         targetDay : Days \cup {None}, target : Targets \cup {None}]

TypeOK ==
  /\ date \in 1..MaxDay
  /\ clockSet \in BOOLEAN
  /\ budget \in Budgets
  /\ streak \in 0..(Entry + 1)
  /\ unconfirmed \in 0..Entry
  /\ daily \in 0..MaxSteps
  /\ day \in Days
  /\ dayKnown \in BOOLEAN
  /\ target \in Targets \cup {DefaultTarget}
  /\ targetDay \in Days \cup {None}
  /\ persisted \in 0..MaxSteps
  /\ nvs \in Keys
  /\ pc \in {"idle", "save", "saveCount", "saveMark", "announce", "announceOnly", "maybe"}
  /\ after \in {"idle", "announce", "announceOnly", "maybe"}
  /\ burst \in Nat
  /\ announced \subseteq Days
  /\ oldest \in Days \cup {None}
  /\ oldestSaved \in Days \cup {None}
  /\ carried \in BOOLEAN
  /\ torn \in BOOLEAN

(* The target is announced once a day, across reboots and power cuts in    *)
(* the middle of a save, unless the parent raises it, the clock goes back  *)
(* or the flash fails.  ("ONCE PER DAY IS THE WHOLE DESIGN": rr_steps.h.)  *)
AnnouncedOnceADay ==
  pc \in {"announce", "announceOnly"} /\ budget.failures = MaxFailures /\ budget.backs = MaxBacks
    => day \notin announced

(* Today's count has no step of an earlier day in it, unless the watch did *)
(* not know the day and carried them over, the clock was set back, or a    *)
(* save was torn between the day and its count.                            *)
CountsOnlyToday ==
  dayKnown /\ day = date /\ oldest # None /\ budget.backs = MaxBacks /\ ~carried /\ ~torn
    => oldest >= day

(* A restart between handlers loses fewer than Delta steps of the day.     *)
(* ("Worst-case loss is one threshold's worth": rr_steps.h.)               *)
RestartLosesLittle ==
  [][budget'.reboots < budget.reboots /\ pc = "idle" /\ dayKnown /\ dayKnown' /\ day' = day
       /\ budget.failures = MaxFailures /\ ~torn
       => daily < daily' + Delta]_vars

(* A confirmed walk is credited in full, the strides that confirmed it     *)
(* included, and nothing before it is confirmed.                           *)
WalkCreditedInFull ==
  streak <= Entry => burst = IF streak < Entry THEN 0 ELSE Entry * PerDetect

=============================================================================
