----------------------------- MODULE Scheduler -----------------------------
(***************************************************************************)
(* The on-watch scheduler, components/rr_sched/src/rr_sched.c, with the    *)
(* part of rr_routine.c it fires through: the READY offer.                 *)
(*                                                                         *)
(* The rr_sched task sleeps until the next scheduled moment, marks the     *)
(* occurrence handled (in RAM, then as two NVS keys), rings, and raises a  *)
(* READY offer through lv_async_call; it rings again while the offer is    *)
(* unanswered and gives up at the end of the grace window.  The LVGL task  *)
(* paints offers and takes the child's taps; the NimBLE host task sets the *)
(* clock, replaces the routine cache and starts routines for the phone.    *)
(* Both preempt the rr_sched task, so a pass of it is several steps here.  *)
(*                                                                         *)
(* The weekly schedule is abstracted to the moments it denotes: a routine  *)
(* of the cache is its id and the set of its scheduled moments.            *)
(***************************************************************************)
EXTENDS Integers, Sequences, FiniteSets, Functions

CONSTANTS
  Routines,   \* assignment ids
  Caches,     \* the routine caches a phone may push: sequences of routines
  Minute,     \* seconds per minute, scaled down like all the durations below
  Grace,      \* RR_SCHED_GRACE_WINDOW_S
  Repeat,     \* RR_SCHED_ALARM_REPEAT_S
  MaxRings,   \* RR_SCHED_ALARM_MAX_RINGS
  BusyRetry,  \* RR_SCHED_BUSY_RETRY_S
  ResyncCap,  \* RR_SCHED_RESYNC_CAP_S
  Lookback,   \* RR_SCHED_MAX_LOOKBACK_S
  UnsetPoll,  \* how often an unset clock is looked at again
  MaxSkip,    \* MAX_SKIP
  SearchGuard, \* the turns find_next gives its loop
  ClockValues, \* bound: the values TIME_SYNC and set_tz may set the clock to
  ClockStepsBack, \* whether those may lie in the past
  MaxTime,    \* bound: the clock stops here, waits do not
  MaxSyncs, MaxPushes, MaxStarts, MaxReboots, \* bounds on what others do
  MaxUnsaved, \* how often handled_save may not write both its keys
  MaxUnread,  \* how often a search may not be able to read the cache
  MaxTorn,    \* how often power may fail between the two
  MaxAll      \* bound on all of these together

NoOne == "none"

ASSUME SchedulerAssumption ==
  /\ NoOne \notin Routines
  /\ Minute \in Nat \ {0}
  /\ \A c \in Caches : c \in Seq([id : Routines, moments : SUBSET Nat])
  /\ \A c \in Caches : \A i \in DOMAIN c : \A m \in c[i].moments : m % Minute = 0
  /\ {Grace, MaxTime, MaxSyncs, MaxPushes, MaxStarts, MaxReboots, MaxUnsaved, MaxUnread,
      MaxTorn, MaxAll} \subseteq Nat
  /\ {Repeat, MaxRings, BusyRetry, ResyncCap, Lookback, UnsetPoll, MaxSkip, SearchGuard}
       \subseteq Nat \ {0}
  /\ Grace <= Lookback
  /\ ClockValues \subseteq 0..MaxTime
  /\ ClockStepsBack \in BOOLEAN

VARIABLES
  \* the world
  clock,    \* the RTC's local time
  clockSet, \* it was set since it last stopped
  cache,    \* routines.json
  budget,   \* how often the phone, the battery and the flash may still intervene
  \* rr_sched, in RAM and in NVS
  last, skip,           \* s_last_handled, s_skip
  savedLast, savedSkip, \* the keys last_handled and handled_ids
  pending,              \* s_pending: the occurrence in flight, or Nothing
  answer,               \* s_answer
  \* the rr_sched task
  pc,       \* where it is in a pass, or "wait"
  now,      \* the time the pass started
  floor,    \* where find_next searches from
  turns,    \* turns its loop has left
  left,     \* ticks left of the wait
  notified, \* a re-arm has arrived
  \* rr_routine
  active,   \* the routine running, or NoOne
  ready,    \* s_ready: the cache index offered and the id it had, or NoOffer
  posted,   \* cache indices of the deferred_offer calls LVGL has not run yet
  \* history
  consumed, \* occurrences marked handled
  fired,    \* occurrences that rang
  blind     \* the last search could not read the cache

ram   == <<last, skip, pending, answer>>
nvs   == <<savedLast, savedSkip>>
task  == <<pc, now, floor, turns, left, notified>>
watch == <<active, ready, posted>>
world == <<clock, clockSet, cache, budget>>
past  == <<consumed, fired, blind>>
vars  == <<world, ram, nvs, task, watch, past>>

Nothing == [valid |-> FALSE]
NoOffer == [idx |-> 0, id |-> NoOne]

Max2(a, b) == IF a >= b THEN a ELSE b
Min2(a, b) == IF a <= b THEN a ELSE b

(***************************************************************************)
(* The schedule.                                                           *)
(***************************************************************************)
Occurrence(id, at) == [id |-> id, at |-> at]

OccurrencesOf(c) ==
  UNION {{Occurrence(c[i].id, m) : m \in c[i].moments} : i \in DOMAIN c}

Occurrences == UNION {OccurrencesOf(c) : c \in Caches}

Scheduled == OccurrencesOf(cache)

\* rr_store_find_routine: the first entry with this id.
IndexOf(id) == CHOOSE i \in DOMAIN cache :
                 /\ cache[i].id = id
                 /\ \A j \in DOMAIN cache : cache[j].id = id => i <= j

Cached == {cache[i].id : i \in DOMAIN cache}

MinuteOf(t) == t - (t % Minute)

\* Mutant: the search starts behind the minute it starts from.
CandidatesAfter(from, skipped) == {o \in Scheduled : o.at > MinuteOf(from)}

\* rr_store_next_schedule looks from the minute of `from` on; the skip list
\* hides routines at that minute only.
Candidates(from, skipped) ==
  {o \in Scheduled : /\ o.at >= MinuteOf(from)
                     /\ ~(o.at = MinuteOf(from) /\ o.id \in skipped)}

\* The earliest; ties go to the first routine in the cache.
Earliest(S) == CHOOSE o \in S : \A p \in S :
                 o.at < p.at \/ (o.at = p.at /\ IndexOf(o.id) <= IndexOf(p.id))

\* find_next drops the skip list when the floor left the minute it belongs to.
SkippedAt(from) == IF from > last THEN {} ELSE Range(skip)

Due(from) == Candidates(from, SkippedAt(from))

\* How far back find_next looks.
FloorAt(t) == Max2(last, t - Lookback)

InFlight == Occurrence(pending.id, pending.at)

-----------------------------------------------------------------------------
Init ==
  /\ clock \in ClockValues
  /\ clockSet \in BOOLEAN
  /\ cache \in Caches
  /\ budget = [syncs |-> MaxSyncs, pushes |-> MaxPushes,
               starts |-> MaxStarts, reboots |-> MaxReboots,
               unsaved |-> MaxUnsaved, unread |-> MaxUnread,
               torn |-> MaxTorn, all |-> MaxAll]
  /\ last = 0 /\ skip = <<>>
  /\ savedLast = 0 /\ savedSkip = <<>>
  /\ pending = Nothing
  /\ answer = "none"
  /\ pc = "wait" /\ now = 0 /\ floor = 0 /\ turns = 0 /\ left = 0 /\ notified = FALSE
  /\ active = NoOne /\ ready = NoOffer /\ posted = <<>>
  /\ consumed = {} /\ fired = {} /\ blind = FALSE

Spend(what) ==
  /\ budget[what] > 0 /\ budget.all > 0
  /\ budget' = [budget EXCEPT ![what] = @ - 1, !.all = @ - 1]

\* Mutant: the task is not told.
NoRearm == UNCHANGED notified

\* rr_sched_rearm
Rearm == notified' = TRUE

\* The end of a pass: the wait, clamped as sched_task clamps it.
Sleep(ticks) ==
  /\ pc' = "wait"
  /\ left' = Min2(Max2(ticks, 1), ResyncCap)
  /\ now' = 0
  /\ floor' = 0
  /\ turns' = 0
  /\ UNCHANGED notified

Goto(step) == pc' = step /\ UNCHANGED <<now, left, notified>>

(***************************************************************************)
(* sched_task: a pass starts when the wait is over or a re-arm came.       *)
(***************************************************************************)
CanWake == pc = "wait" /\ (left = 0 \/ notified)

WakeWithoutClock ==
  /\ CanWake
  /\ ~clockSet
  /\ left' = Min2(UnsetPoll, ResyncCap)
  /\ notified' = FALSE
  /\ UNCHANGED <<world, ram, nvs, pc, now, floor, turns, watch, past>>

Wake ==
  /\ CanWake
  /\ clockSet
  /\ now' = clock
  /\ notified' = FALSE
  /\ pc' = IF pending.valid THEN "serve" ELSE "search"
  /\ floor' = IF pending.valid THEN 0 ELSE FloorAt(clock)
  /\ turns' = IF pending.valid THEN 0 ELSE SearchGuard
  /\ blind' = FALSE
  /\ UNCHANGED <<world, ram, nvs, left, watch, consumed, fired>>

(***************************************************************************)
(* find_next, one turn of its loop, and handled_commit in three writes.    *)
(***************************************************************************)
FindGaveUp ==
  /\ pc = "search"
  /\ turns = 0
  /\ Sleep(ResyncCap)
  /\ UNCHANGED <<world, ram, nvs, watch, past>>

Finds == pc = "search" /\ turns > 0

FindNothing ==
  /\ Finds
  /\ Due(floor) = {}
  /\ Sleep(ResyncCap)
  /\ UNCHANGED <<world, ram, nvs, watch, past>>

\* load_routines has no memory, or no file it can open or parse: to the search
\* that is an empty schedule.
FindUnread ==
  /\ Finds
  /\ Spend("unread")
  /\ blind' = TRUE
  /\ Sleep(ResyncCap)
  /\ UNCHANGED <<clock, clockSet, cache, ram, nvs, watch, consumed, fired>>

FindFuture ==
  /\ Finds
  /\ Due(floor) # {}
  /\ Earliest(Due(floor)).at > now
  /\ Sleep(Earliest(Due(floor)).at - now)
  /\ UNCHANGED <<world, ram, nvs, watch, past>>

\* Mutant: the previous minute's ids are kept.
HandledIdsKept(o) == IF Len(skip) < MaxSkip THEN Append(skip, o.id) ELSE skip

\* handled_commit: a new minute forgets the ids of the previous one.
HandledIds(o) ==
  LET ids == IF o.at > last THEN <<>> ELSE skip
  IN  IF Len(ids) < MaxSkip THEN Append(ids, o.id) ELSE ids

\* s_pending is filled when the occurrence is taken; until then it is only
\* remembered here.
FindDue ==
  /\ Finds
  /\ Due(floor) # {}
  /\ LET o == Earliest(Due(floor)) IN
       /\ o.at <= now
       /\ skip' = HandledIds(o)
       /\ last' = Max2(last, o.at)
       /\ consumed' = consumed \cup {o}
       /\ pending' = [valid |-> FALSE, id |-> o.id, at |-> o.at]
  /\ Goto("save_last")
  /\ turns' = turns - 1
  /\ UNCHANGED <<world, answer, nvs, floor, watch, fired, blind>>

SaveLast ==
  /\ pc = "save_last"
  /\ savedLast' = last
  /\ Goto("save_ids")
  /\ UNCHANGED <<world, ram, savedSkip, floor, turns, watch, past>>

\* The first nvs_set fails; the second is made all the same.
LastFails ==
  /\ pc = "save_last"
  /\ Spend("unsaved")
  /\ Goto("save_ids")
  /\ UNCHANGED <<clock, clockSet, cache, ram, nvs, floor, turns, watch, past>>

\* After the save: beyond the grace window it is marked skipped and the search
\* goes on; within it, it is the occurrence in flight.
Take ==
  /\ floor' = IF now - pending.at > Grace THEN pending.at ELSE 0
  /\ pending' = IF now - pending.at > Grace THEN Nothing
                ELSE [valid |-> TRUE, id |-> pending.id, at |-> pending.at,
                      offered |-> FALSE, rings |-> 0, lastRing |-> 0]
  /\ Goto(IF now - pending.at > Grace THEN "search" ELSE "serve")

SaveIds ==
  /\ pc = "save_ids"
  /\ savedSkip' = skip
  /\ Take
  /\ UNCHANGED <<world, last, skip, answer, savedLast, turns, watch, past>>

\* nvs_open fails, or both sets do, or the second: a warning at most.
SaveFails ==
  /\ pc \in {"save_last", "save_ids"}
  /\ Spend("unsaved")
  /\ Take
  /\ UNCHANGED <<clock, clockSet, cache, last, skip, answer, nvs, turns, watch, past>>

(***************************************************************************)
(* service_pending.                                                        *)
(***************************************************************************)
LateBy == now - pending.at

Clear == pending' = Nothing /\ answer' = "none"

Offered    == pc = "serve" /\ pending.offered
Unanswered == Offered /\ answer = "none"
NotOffered == pc = "serve" /\ ~pending.offered

ServeAnswered ==
  /\ Offered
  /\ answer # "none"
  /\ Clear
  /\ Sleep(1)
  /\ UNCHANGED <<world, last, skip, nvs, watch, past>>

\* Mutant: an unanswered offer never expires.
ExpiredNever == FALSE

Expired == LateBy > Grace

\* rr_routine_cancel_ready compares the id, and then withdraws.
ServeExpired ==
  /\ Unanswered
  /\ Expired
  /\ Goto(IF ready # NoOffer /\ ready.id = pending.id THEN "withdraw" ELSE "give_up")
  /\ UNCHANGED <<world, ram, nvs, floor, turns, watch, past>>

Withdraw ==
  /\ pc = "withdraw"
  /\ ready' = NoOffer
  /\ Goto("give_up")
  /\ UNCHANGED <<world, ram, nvs, floor, turns, active, posted, past>>

GiveUp ==
  /\ pc = "give_up"
  /\ Clear
  /\ Sleep(1)
  /\ UNCHANGED <<world, last, skip, nvs, watch, past>>

RingsLeft == pending.rings < MaxRings

ServeQuiet ==
  /\ Unanswered
  /\ ~Expired
  /\ ~RingsLeft
  /\ Sleep(Grace - LateBy)
  /\ UNCHANGED <<world, ram, nvs, watch, past>>

SinceRing == now - pending.lastRing

Ringing == [pending EXCEPT !.rings = @ + 1, !.lastRing = clock]

ServeRepeat ==
  /\ Unanswered
  /\ ~Expired
  /\ RingsLeft
  /\ SinceRing >= Repeat
  /\ pending' = Ringing
  /\ Sleep(Repeat)
  /\ UNCHANGED <<world, last, skip, answer, nvs, watch, past>>

ServeWaitToRepeat ==
  /\ Unanswered
  /\ ~Expired
  /\ RingsLeft
  /\ SinceRing < Repeat
  /\ Sleep(Repeat - SinceRing)
  /\ UNCHANGED <<world, ram, nvs, watch, past>>

ServeMissed ==
  /\ NotOffered
  /\ Expired
  /\ Clear
  /\ Sleep(1)
  /\ UNCHANGED <<world, last, skip, nvs, watch, past>>

Busy == active # NoOne

ServeDeferred ==
  /\ NotOffered
  /\ ~Expired
  /\ Busy
  /\ Sleep(BusyRetry)
  /\ UNCHANGED <<world, ram, nvs, watch, past>>

\* ring(): the answer is reset and the alarm sounds, before the offer.
Ring ==
  /\ NotOffered
  /\ ~Expired
  /\ ~Busy
  /\ answer' = "none"
  /\ pending' = Ringing
  /\ fired' = fired \cup {InFlight}
  /\ Goto("rung")
  /\ UNCHANGED <<world, last, skip, nvs, floor, turns, watch, consumed, blind>>

(***************************************************************************)
(* rr_routine_request_start, as ring() calls it: refused when a routine    *)
(* runs or the id is not cached, which drops the fire; otherwise the index *)
(* found is handed to the LVGL task.                                       *)
(***************************************************************************)
RequestRefused ==
  /\ pc = "rung"
  /\ Busy \/ pending.id \notin Cached
  /\ Clear
  /\ Sleep(Repeat)
  /\ UNCHANGED <<world, last, skip, nvs, watch, past>>

RequestAccepted ==
  /\ pc = "rung"
  /\ ~Busy
  /\ pending.id \in Cached
  /\ floor' = IndexOf(pending.id)
  /\ Goto("accepted")
  /\ UNCHANGED <<world, ram, nvs, turns, watch, past>>

PostOffer ==
  /\ pc = "accepted"
  /\ posted' = Append(posted, floor)
  /\ Goto("posted")
  /\ UNCHANGED <<world, ram, nvs, floor, turns, active, ready, past>>

\* Back in ring(): only now does an answer concern this fire; LVGL may have
\* painted the offer, and the child answered it, before.
RaiseOffer ==
  /\ pc = "posted"
  /\ pending' = [pending EXCEPT !.offered = TRUE]
  /\ Sleep(Repeat)
  /\ UNCHANGED <<world, last, skip, answer, nvs, watch, past>>

-----------------------------------------------------------------------------
(***************************************************************************)
(* The LVGL task.                                                          *)
(***************************************************************************)
\* deferred_offer: dropped when a routine runs or the index holds nothing any
\* more; otherwise it replaces whatever offer was up.
DeferredOffer ==
  /\ posted # <<>>
  /\ posted' = Tail(posted)
  /\ ready' = IF ~Busy /\ Head(posted) \in DOMAIN cache
              THEN [idx |-> Head(posted), id |-> cache[Head(posted)].id] ELSE ready
  /\ UNCHANGED <<world, ram, nvs, task, active, past>>

\* on_ready_answer: only an answer to the offer of the fire in flight counts.
Concerns(id) == pending.valid /\ pending.offered /\ pending.id = id

Report(id, given) ==
  IF Concerns(id) THEN answer' = given /\ Rearm ELSE UNCHANGED <<answer, notified>>

\* answer_ready(true): the hook, then the routine the cache holds at the index.
TapStart ==
  /\ ready # NoOffer
  /\ Report(ready.id, "start")
  /\ active' = IF ready.idx \in DOMAIN cache THEN cache[ready.idx].id ELSE active
  /\ ready' = NoOffer
  /\ UNCHANGED <<world, last, skip, pending, nvs, pc, now, floor, turns, left, posted, past>>

TapNotNow ==
  /\ ready # NoOffer
  /\ Report(ready.id, "dismiss")
  /\ ready' = NoOffer
  /\ UNCHANGED <<world, last, skip, pending, nvs, pc, now, floor, turns, left, active, posted, past>>

\* The routine ends and its finish hook re-arms the scheduler.
Finish ==
  /\ Busy
  /\ active' = NoOne
  /\ Rearm
  /\ UNCHANGED <<world, ram, nvs, pc, now, floor, turns, left, ready, posted, past>>

(***************************************************************************)
(* The NimBLE host task.                                                   *)
(***************************************************************************)
\* A start that is refused changes nothing.
PhoneStart(id) ==
  /\ ~Busy /\ id \in Cached
  /\ Spend("starts")
  /\ posted' = Append(posted, IndexOf(id))
  /\ UNCHANGED <<clock, clockSet, cache, ram, nvs, task, active, ready, past>>

SetClock(t) ==
  /\ Spend("syncs")
  /\ t >= clock \/ ClockStepsBack
  /\ clock' = t
  /\ clockSet' = TRUE
  /\ Rearm
  /\ UNCHANGED <<cache, ram, nvs, pc, now, floor, turns, left, watch, past>>

Push(c) ==
  /\ Spend("pushes")
  /\ cache' = c
  /\ Rearm
  /\ UNCHANGED <<clock, clockSet, ram, nvs, pc, now, floor, turns, left, watch, past>>

(***************************************************************************)
(* Time, and power.                                                        *)
(***************************************************************************)
\* A pass takes no time, and neither does a call LVGL still has to run.  The
\* clock stops at its bound; waits end all the same.
Tick ==
  /\ pc = "wait"
  /\ left > 0
  /\ ~notified
  /\ posted = <<>>
  /\ clock' = Min2(clock + 1, MaxTime)
  /\ left' = left - 1
  /\ UNCHANGED <<clockSet, cache, budget, ram, nvs, pc, now, floor, turns, notified, watch, past>>

PowerFails ==
  LET torn == IF pc = "save_ids" THEN 1 ELSE 0 IN
    /\ budget.reboots > 0 /\ budget.torn >= torn /\ budget.all > 0
    /\ budget' = [budget EXCEPT !.reboots = @ - 1, !.torn = @ - torn, !.all = @ - 1]

\* Mutant: the ids handled in this minute live in RAM only.
RebootForgetsIds ==
  /\ PowerFails
  /\ last' = savedLast
  /\ skip' = <<>>
  /\ pending' = Nothing /\ answer' = "none"
  /\ pc' = "wait" /\ now' = 0 /\ floor' = 0 /\ turns' = 0 /\ left' = 0 /\ notified' = FALSE
  /\ active' = NoOne /\ ready' = NoOffer /\ posted' = <<>>
  /\ UNCHANGED <<clock, clockSet, cache, nvs, past>>

\* Power fails and the watch boots: handled_load, and the RTC keeps time.
Reboot ==
  /\ PowerFails
  /\ last' = savedLast
  /\ skip' = savedSkip
  /\ pending' = Nothing /\ answer' = "none"
  /\ pc' = "wait" /\ now' = 0 /\ floor' = 0 /\ turns' = 0 /\ left' = 0 /\ notified' = FALSE
  /\ active' = NoOne /\ ready' = NoOffer /\ posted' = <<>>
  /\ UNCHANGED <<clock, clockSet, cache, nvs, past>>

-----------------------------------------------------------------------------
Search == \/ FindGaveUp \/ FindNothing \/ FindUnread \/ FindFuture \/ FindDue
          \/ SaveLast \/ LastFails \/ SaveIds \/ SaveFails

Serve == \/ ServeAnswered \/ ServeExpired \/ Withdraw \/ GiveUp
         \/ ServeQuiet \/ ServeRepeat \/ ServeWaitToRepeat
         \/ ServeMissed \/ ServeDeferred \/ Ring
         \/ RequestRefused \/ RequestAccepted \/ PostOffer \/ RaiseOffer

Pass == WakeWithoutClock \/ Wake \/ Search \/ Serve

Next ==
  \/ Pass
  \/ DeferredOffer \/ TapStart \/ TapNotNow \/ Finish
  \/ \E id \in Routines : PhoneStart(id)
  \/ \E t \in ClockValues : SetClock(t)
  \/ \E c \in Caches : Push(c)
  \/ Tick \/ Reboot

\* The task runs when it is ready, LVGL runs what was posted, time passes; what
\* the child and the phone do is up to them.
Fairness == WF_vars(Pass) /\ WF_vars(DeferredOffer) /\ WF_vars(Tick)

Spec == Init /\ [][Next]_vars /\ Fairness

-----------------------------------------------------------------------------
Steps == {"wait", "search", "save_last", "save_ids", "serve", "withdraw",
          "give_up", "rung", "accepted", "posted"}

Offers == [idx : Nat, id : Routines \cup {NoOne}]

(* The type invariant; one fire never sounds more often than the cap. *)
TypeOK ==
  /\ clock \in 0..MaxTime /\ clockSet \in BOOLEAN /\ cache \in Caches
  /\ last \in 0..MaxTime /\ savedLast \in 0..MaxTime
  /\ skip \in Seq(Routines) /\ savedSkip \in Seq(Routines)
  /\ Len(skip) <= MaxSkip
  /\ pending.valid => /\ InFlight \in Occurrences
                      /\ pending.offered \in BOOLEAN
                      /\ pending.rings \in 0..MaxRings
  /\ answer \in {"none", "start", "dismiss"}
  /\ pc \in Steps /\ turns \in 0..SearchGuard /\ left \in 0..ResyncCap /\ notified \in BOOLEAN
  /\ active \in Routines \cup {NoOne} /\ ready \in Offers
  /\ posted \in Seq(Nat)

\* No save was cut between its two keys, and none failed: the minute and the
\* ids in NVS belong together.
SavesAreWhole == budget.torn = MaxTorn /\ budget.unsaved = MaxUnsaved

(* What the skip list hides from the search was handled, also across a     *)
(* reboot, unless a save was cut or failed: a routine is never silently    *)
(* dropped because another, or the same one at another time, was handled.  *)
SkipHidesOnlyHandled ==
  SavesAreWhole =>
    \A o \in Occurrences : o.at = last /\ o.id \in Range(skip) => o \in consumed

(* An occurrence never rings as a new fire twice, whatever the clock, the  *)
(* cache, the child and power cuts at any step do in between; unless the   *)
(* save that marks it handled failed, or the list of that minute was full  *)
(* and could not remember it.                                              *)
FiredAtMostOnce ==
  [][pc = "serve" /\ pc' = "rung" /\ budget.unsaved = MaxUnsaved /\ pending.id \in Range(skip)
       => InFlight \notin fired]_vars

\* What the marks say of an occurrence: it was handled.
IsMarked(o) == o.at < last \/ (o.at = last /\ o.id \in Range(skip))

\* What one search can have handled, a sleep ago at the most.
HandledLately == {o \in consumed : o.at + Minute + Lookback + ResyncCap > clock}

\* More routines share the last minute than the list has room for.
MinuteOverfull ==
  Len(skip) = MaxSkip /\ \E o \in Scheduled : o.at = last /\ o.id \notin Range(skip)

(* The task never sleeps through its work: a fire it deferred waits only   *)
(* while a routine runs, and nothing is due while it waits that is not     *)
(* marked handled, but for the pauses between two passes, a repeat         *)
(* interval at the longest.  Two things use up the turns of a search and   *)
(* leave the rest for later: as many occurrences as it has turns, or one   *)
(* that a full list cannot remember, which is found in every turn; and a   *)
(* search that could not read the cache sleeps as if nothing were stored.  *)
NeverOversleeps ==
  pc = "wait" /\ left > 0 /\ ~notified /\ clockSet =>
    IF pending.valid
    THEN pending.offered \/ Busy
    ELSE left > Repeat => \/ \A o \in Due(FloorAt(clock)) : o.at > clock \/ IsMarked(o)
                          \/ Cardinality(HandledLately) >= SearchGuard
                          \/ MinuteOverfull
                          \/ blind

(* The alarm sounds neither before the scheduled moment nor after the      *)
(* grace window, by the clock as the pass found it; before it only if the  *)
(* clock was set.                                                          *)
RingsInItsWindow ==
  [][pending.valid /\ pending'.valid /\ pending'.rings > pending.rings
       => LateBy <= Grace /\ (budget.syncs = MaxSyncs => LateBy >= 0)]_vars

(* The mark never moves past an occurrence that the search could still     *)
(* have found and that was not handled: routines that share a minute are   *)
(* handled one by one.  A save that was cut or failed may pair a minute    *)
(* with the ids of another, which then hide what was not handled.          *)
NothingIsPassedOver ==
  [][SavesAreWhole => \A o \in Scheduled :
       o.at \in Max2(last, MinuteOf(floor))..(last' - 1) => o \in consumed']_last

(* Every occurrence whose moment comes is handled, unless the cache or the *)
(* clock takes it out of reach first, or one that a full list forgot keeps *)
(* the search busy: an unanswered offer, an endless routine or a cache     *)
(* that cannot be read now does not stop the scheduler for good.           *)
Reachable(o) ==
  /\ SavesAreWhole
  /\ clockSet
  /\ o \in Scheduled
  /\ o.at >= last
  /\ clock \in o.at..(o.at + Lookback)
  /\ ~MinuteOverfull

EveryDueOccurrenceIsHandled ==
  \A o \in Occurrences : Reachable(o) ~> (o \in consumed \/ ~Reachable(o))

=============================================================================
