------------------------------- MODULE Glass -------------------------------
(***************************************************************************)
(* What is on the glass.  Five components draw on one screen: rr_ui paints *)
(* it and remembers the last status screen; rr_idle sleeps, wakes and      *)
(* repaints the watch face; rr_routine runs steps and raises READY offers; *)
(* main.c's face gate decides between the face and an unanswered offer;    *)
(* the BOOT button paints the reset countdown, and a ROUTINE_PUSH paints   *)
(* "Paired" from the NimBLE host task.                                     *)
(*                                                                         *)
(* Painting and what the watch believes to have painted are different      *)
(* things here, as in the code: `glass` is what the child sees, `last` is  *)
(* s_last_screen.  LVGL's own handlers hold the display lock from end to   *)
(* end and are one step each.  The other tasks take it screen by screen:   *)
(* between what the button, rr_sched or the NimBLE host reads, what it     *)
(* paints and what it then notes in s_last_screen, LVGL and the others     *)
(* run.  Timeouts (the sleep timeout, the two seconds before the face      *)
(* replaces "Paired", the minute) may expire at any tick.                  *)
(***************************************************************************)
EXTENDS Naturals, Sequences, FiniteSets

CONSTANTS
  Routines, \* assignment ids
  Caches,   \* what a phone may push: sequences of [id, steps]
  MaxPushes, MaxOffers, MaxHolds, \* bounds on what phone, scheduler and child do
  MaxAtWork \* and on how many tasks paint beside LVGL at one time

NoOne == "none"

ASSUME GlassAssumption ==
  /\ NoOne \notin Routines
  /\ \A c \in Caches : c \in Seq([id : Routines, steps : Nat \ {0}])
  /\ {MaxPushes, MaxOffers, MaxHolds, MaxAtWork} \subseteq Nat

VARIABLES
  cache,      \* routines.json
  paired,     \* rr_identity: the paired flag
  childKnown, \* child.json exists
  ui,         \* rr_ui, rr_idle and the READY offer, see UiType
  run,        \* rr_routine's s: the routine in progress, or NoRun
  posted,     \* cache indices of the deferred_offer calls LVGL has not run yet
  hold,       \* the BOOT button: "up", or "counting" past ARM_MS
  painter,    \* where the tasks that paint without being LVGL's are
  budget,     \* what phone, scheduler and child may still do
  promotions  \* history: how often "Paired" was promoted to the face, or needs
              \* no more to be, because the gate was open at boot

vars ==
  <<cache, paired, childKnown, ui, run, posted, hold, painter, budget, promotions>>

\* What the phone and the flash keep, and the histories.
kept == <<cache, paired, childKnown, promotions>>

Painters == {"button", "sched", "host"}

\* Between two paintings.  job is what the task is about: to wake the panel,
\* to restore what was covered, to withdraw an offer, to say "Paired".
Resting == [at |-> "idle", screen |-> "none", job |-> "none"]

\* Bound: not all of them at one time.
MayBegin(p) ==
  /\ painter[p] = Resting
  /\ Cardinality({q \in Painters : painter[q] # Resting}) < MaxAtWork

Goes(p, at, screen, job) ==
  painter' = [painter EXCEPT ![p] = [at |-> at, screen |-> screen, job |-> job]]

\* The index is 1 for C's 0: what a zeroed s_ready holds.
NoOffer == [pending |-> FALSE, painted |-> FALSE, idx |-> 1, id |-> NoOne]

NoRun == [active |-> FALSE, idx |-> 1, step |-> 0, count |-> 0, id |-> NoOne]

Has(idx, step) == idx \in DOMAIN cache /\ step < cache[idx].steps

Cached(id) == {i \in DOMAIN cache : cache[i].id = id}

-----------------------------------------------------------------------------
(***************************************************************************)
(* rr_ui: the screens, each as what it makes of the state u of the screen. *)
(***************************************************************************)
Paint(u, screen, who) ==
  [u EXCEPT !.glass = screen, !.shown = who, !.late = FALSE, !.dead = FALSE]

\* A status screen is remembered, to be restored.
Status(u, screen) == [Paint(u, screen, NoOne) EXCEPT !.last = screen]

ShowStep(u, id) == [Paint(u, "step", id) EXCEPT !.last = "none"]

\* s_last_screen is left as it is.
ShowComplete(u) == Paint(u, "complete", NoOne)

ShowCountdown(u) == [Paint(u, "countdown", NoOne) EXCEPT !.prompt = TRUE]

ShowReady(u) ==
  [Paint(u, "ready", u.offer.id) EXCEPT
    !.before = IF u.last = "ready" THEN u.before ELSE u.last,
    !.last = "ready",
    !.offer.painted = TRUE]

\* Mutant: whichever READY is up will do.
RepaintUnlessReady(u) ==
  IF u.offer.pending /\ u.last # "ready" THEN ShowReady(u) ELSE u

\* Mutant: an offer is painted once and no more.
RepaintIfNew(u) == IF u.offer.pending /\ ~u.offer.painted THEN ShowReady(u) ELSE u

\* rr_routine_show_ready
RepaintOffer(u) ==
  IF u.offer.pending /\ ~(u.offer.painted /\ u.last = "ready") THEN ShowReady(u) ELSE u

\* main.c, watchface_allowed: its answer, and what asking does to the screen.
\* (It looks at an unpaired watch once a second only: a delay, not modelled.)
GateOpen(u) == ~u.offer.pending /\ paired /\ childKnown

AskGate(u) == RepaintOffer(u)

\* rr_idle, build_and_show_face
BuildFace(u) == IF GateOpen(u) THEN Status(AskGate(u), "face") ELSE AskGate(u)

\* rr_ui_show_last_status
ShowLast(u) ==
  CASE u.last \in {"qr", "paired", "waiting"} -> Status(u, u.last)
    [] u.last = "face" -> BuildFace(u)
    [] OTHER -> u

\* History: whoever took the offer down leaves its READY up.
Dead(u) == [u EXCEPT !.dead = @ \/ (u.glass = "ready" /\ ~u.offer.pending)]

\* rr_ui_dismiss_ready
DismissReady(u) ==
  LET v == [u EXCEPT !.last = u.before]
  IN  IF u.last # "ready" THEN Dead(u)
      ELSE IF v.last = "none" THEN BuildFace(v)
      ELSE ShowLast(v)

\* rr_idle, wake_up
WakeUp(u) ==
  LET v == [u EXCEPT !.awake = TRUE]
  IN  IF u.awake THEN u
      ELSE IF GateOpen(v) THEN BuildFace(v) ELSE ShowLast(BuildFace(v))

-----------------------------------------------------------------------------
(***************************************************************************)
(* app_main and rr_idle_init.                                              *)
(***************************************************************************)
BootScreen(screen) ==
  [glass |-> screen, shown |-> NoOne, last |-> screen, before |-> "none",
   prompt |-> FALSE, awake |-> TRUE, offer |-> NoOffer, late |-> FALSE, dead |-> FALSE,
   everOpen |-> screen = "face", promote |-> FALSE]

Init ==
  /\ \/ paired = FALSE /\ childKnown = FALSE /\ cache = <<>> /\ ui = BootScreen("qr")
     \/ paired = TRUE /\ childKnown = FALSE /\ cache = <<>> /\ ui = BootScreen("waiting")
     \/ paired = TRUE /\ childKnown = TRUE /\ cache \in Caches /\ ui = BootScreen("face")
  /\ run = NoRun
  /\ posted = <<>>
  /\ hold = "up"
  /\ painter = [p \in Painters |-> Resting]
  /\ budget = [pushes |-> MaxPushes, offers |-> MaxOffers, holds |-> MaxHolds]
  /\ promotions = IF childKnown THEN 1 ELSE 0

Spend(what) ==
  /\ budget[what] > 0
  /\ budget' = [budget EXCEPT ![what] = @ - 1]

(***************************************************************************)
(* rr_idle, idle_tick: twice a second, on the LVGL task.                   *)
(***************************************************************************)
\* Mutant: a running routine does not keep the panel lit.
SuspendedUnpaired == ~paired

\* main.c, idle_suspended
Suspended == run.active \/ ~paired

\* The gate opening for the first time is the pairing.  (s_gate_open says no
\* more than the latch: where it is true, the gate has been open.)
NoticeGate(u) ==
  [AskGate(u) EXCEPT
    !.promote = @ \/ (GateOpen(u) /\ ~u.everOpen),
    !.everOpen = @ \/ GateOpen(u)]

Promote(u) ==
  LET v == [u EXCEPT !.promote = FALSE] IN IF u.awake THEN BuildFace(v) ELSE v

\* A changed queue, or a new minute, repaints the face where it is up.
RefreshFace(u) == IF u.awake /\ u.last = "face" THEN BuildFace(u) ELSE u

IdleTick(sleepy) ==
  /\ ~Suspended
  /\ \E promoteDue, refresh \in BOOLEAN :
       LET noticed  == NoticeGate(ui)
           promotes == ui.promote /\ promoteDue
           promoted == IF promotes THEN Promote(noticed) ELSE noticed
           fresh    == IF refresh THEN RefreshFace(promoted) ELSE promoted
       IN  /\ ui' = IF sleepy THEN [fresh EXCEPT !.awake = FALSE] ELSE fresh
           /\ promotions' = IF promotes THEN promotions + 1 ELSE promotions
  /\ UNCHANGED <<cache, paired, childKnown, run, posted, hold, painter, budget>>

(***************************************************************************)
(* The same painters on the other tasks.  Each reads what to paint, waits  *)
(* for the display lock, paints, and notes the screen after the unlock.    *)
(***************************************************************************)
\* build_and_show_face: the face, or the offer the gate wants painted again.
FaceOrOffer(u) ==
  IF GateOpen(u) THEN "face" ELSE IF AskGate(u) # u THEN "ready" ELSE "none"

\* rr_ui_show_last_status
LastStatus(u) ==
  CASE u.last \in {"qr", "paired", "waiting"} -> u.last
    [] u.last = "face" -> FaceOrOffer(u)
    [] OTHER -> "none"

Rests(p, u) ==
  /\ painter' = [painter EXCEPT ![p] = Resting]
  /\ ui' = IF painter[p].job = "withdraw" THEN Dead(u) ELSE u

\* READY's restore target is remembered before the lock is taken.
Begins(p, screen, u, job) ==
  IF screen = "none" THEN Rests(p, u)
  ELSE /\ Goes(p, "paint", screen, job)
       /\ ui' = IF screen = "ready" THEN [u EXCEPT !.before = ShowReady(u).before] ELSE u

\* rr_idle_wake_manual: a short press of BOOT, or the alarm of rr_sched.
Wake(p) ==
  /\ MayBegin(p)
  /\ p = "button" => hold = "up"
  /\ ~ui.awake
  /\ ui' = [ui EXCEPT !.awake = TRUE]
  /\ Goes(p, "gate", "none", "wake")
  /\ UNCHANGED <<kept, run, posted, hold, budget>>

\* A face the gate refuses leaves a waking task with the last status screen.
WakeAsks(p) ==
  /\ painter[p].at = "gate"
  /\ LET first == FaceOrOffer(ui)
     IN  Begins(p, IF first = "none" THEN LastStatus(ui) ELSE first, ui, "wake")
  /\ UNCHANGED <<kept, run, posted, hold, budget>>

\* Under the lock.  READY is painted from what s_ready holds by then.
PaintUnlocked(p) ==
  /\ painter[p].at = "paint"
  /\ LET screen == painter[p].screen
     IN  /\ ui' = IF screen = "ready" THEN Dead(Paint(ui, screen, ui.offer.id))
                  ELSE Paint(ui, screen, NoOne)
         /\ Goes(p, "note", screen, painter[p].job)
  /\ UNCHANGED <<kept, run, posted, hold, budget>>

\* Mutant: what a task paints over the screen is not remembered.
NoteForgotten(p) ==
  /\ painter[p].at = "note"
  /\ Rests(p, ui)
  /\ UNCHANGED <<kept, run, posted, hold, budget>>

\* After the lock.
Note(p) ==
  /\ painter[p].at = "note"
  /\ LET screen == painter[p].screen
     IN  Rests(p, [ui EXCEPT !.last = screen, !.late = ui.glass # screen,
                             !.offer.painted = @ \/ screen = "ready"])
  /\ UNCHANGED <<kept, run, posted, hold, budget>>

(***************************************************************************)
(* READY: raised by phone or scheduler, painted and answered on LVGL.      *)
(***************************************************************************)
\* rr_routine_request_start
RequestStart(id) ==
  /\ Spend("offers")
  /\ ~run.active
  /\ \E i \in Cached(id) :
       /\ \A j \in Cached(id) : i <= j
       /\ posted' = Append(posted, i)
  /\ UNCHANGED <<kept, ui, run, hold, painter>>

\* deferred_offer
Offered(u, i) ==
  RepaintOffer(WakeUp(
    [u EXCEPT !.offer = [pending |-> TRUE, painted |-> FALSE, idx |-> i, id |-> cache[i].id]]))

DeferredOffer ==
  /\ posted # <<>>
  /\ posted' = Tail(posted)
  /\ ui' = IF ~run.active /\ Has(Head(posted), 0) THEN Offered(ui, Head(posted)) ELSE ui
  /\ UNCHANGED <<kept, run, hold, painter, budget>>

\* rr_routine_start: it refuses an index the cache no longer has, and
\* answer_ready then asks for the last status screen.
Start(u, i) ==
  IF Has(i, 0)
  THEN /\ run' = [active |-> TRUE, idx |-> i, step |-> 0, count |-> cache[i].steps,
                  id |-> cache[i].id]
       /\ ui' = ShowStep(u, cache[i].id)
  ELSE /\ run' = run
       /\ ui' = Dead(ShowLast(u))

Touchable(screen) == ui.awake /\ ui.glass = screen

\* Mutant: the offer is cleared before its index is copied.
TapStartCleared ==
  /\ Touchable("ready")
  /\ Start([ui EXCEPT !.offer = NoOffer], NoOffer.idx)
  /\ UNCHANGED <<kept, posted, hold, painter, budget>>

\* answer_ready(true)
TapStart ==
  /\ Touchable("ready")
  /\ Start([ui EXCEPT !.offer = NoOffer], ui.offer.idx)
  /\ UNCHANGED <<kept, posted, hold, painter, budget>>

\* answer_ready(false)
TapNotNow ==
  /\ Touchable("ready")
  /\ ui' = DismissReady([ui EXCEPT !.offer = NoOffer])
  /\ UNCHANGED <<kept, run, posted, hold, painter, budget>>

\* rr_routine_cancel_ready, when rr_sched gives up on the offer: it has found
\* its own offer up.
CancelReady ==
  /\ MayBegin("sched")
  /\ ui.offer.pending
  /\ Goes("sched", "clear", "none", "withdraw")
  /\ UNCHANGED <<kept, ui, run, posted, hold, budget>>

\* By then the offer may be another, or answered.
CancelClears ==
  /\ painter["sched"].at = "clear"
  /\ ui' = [ui EXCEPT !.offer = NoOffer]
  /\ Goes("sched", "dismiss", "none", "withdraw")
  /\ UNCHANGED <<kept, run, posted, hold, budget>>

\* rr_ui_dismiss_ready, after the alarm has been stopped.
CancelDismisses ==
  /\ painter["sched"].at = "dismiss"
  /\ LET u == [ui EXCEPT !.last = ui.before]
     IN  IF ui.last # "ready" THEN Rests("sched", ui)
         ELSE Begins("sched", IF u.last = "none" THEN FaceOrOffer(u) ELSE LastStatus(u), u, "withdraw")
  /\ UNCHANGED <<kept, run, posted, hold, budget>>

(***************************************************************************)
(* The running routine: Done and Skip advance it.                          *)
(***************************************************************************)
LastStep == run.step + 1 >= run.count \/ ~Has(run.idx, run.step + 1)

TapStep ==
  /\ Touchable("step")
  /\ run.active
  /\ run' = IF LastStep THEN NoRun ELSE [run EXCEPT !.step = @ + 1]
  /\ ui' = IF LastStep THEN ShowComplete(ui) ELSE ShowStep(ui, cache[run.idx].id)
  /\ UNCHANGED <<kept, posted, hold, painter, budget>>

(***************************************************************************)
(* The phone.                                                              *)
(***************************************************************************)
\* nonce_auth
Pair ==
  /\ ~paired
  /\ paired' = TRUE
  /\ UNCHANGED <<cache, childKnown, ui, run, posted, hold, painter, budget, promotions>>

\* ROUTINE_PUSH
Push(c) ==
  /\ Spend("pushes")
  /\ cache' = c
  /\ childKnown' = TRUE
  /\ paired' = TRUE
  /\ MayBegin("host")
  /\ ui' = Paint(ui, "paired", NoOne)
  /\ Goes("host", "note", "paired", "push")
  /\ UNCHANGED <<run, posted, hold, promotions>>

(***************************************************************************)
(* The BOOT button held past ARM_MS.                                       *)
(***************************************************************************)
HoldArm ==
  /\ hold = "up"
  /\ MayBegin("button")
  /\ Spend("holds")
  /\ hold' = "counting"
  /\ ui' = ShowCountdown(ui)
  /\ UNCHANGED <<kept, run, posted, painter>>

\* Every POLL_MS the countdown is painted again.
HoldPoll ==
  /\ hold = "counting"
  /\ ui' = ShowCountdown(ui)
  /\ UNCHANGED <<kept, run, posted, hold, painter, budget>>

\* rr_ui_restore_after_reset_prompt
Release ==
  /\ hold = "counting"
  /\ hold' = "up"
  /\ LET u == [ui EXCEPT !.prompt = FALSE]
     IN  Begins("button", IF ui.prompt THEN LastStatus(u) ELSE "none", u, "restore")
  /\ UNCHANGED <<kept, run, posted, budget>>

\* Held to the end: everything is wiped and the watch boots unpaired.
FactoryReset ==
  /\ hold = "counting"
  /\ cache' = <<>> /\ paired' = FALSE /\ childKnown' = FALSE
  /\ ui' = BootScreen("qr")
  /\ run' = NoRun /\ posted' = <<>> /\ hold' = "up"
  /\ painter' = [p \in Painters |-> Resting]
  /\ promotions' = 0
  /\ UNCHANGED budget

-----------------------------------------------------------------------------
PainterStep(p) ==
  WakeAsks(p) \/ PaintUnlocked(p) \/ Note(p)

Next ==
  \/ IdleTick(FALSE) \/ IdleTick(TRUE)
  \/ Wake("button") \/ Wake("sched")
  \/ \E p \in Painters : PainterStep(p)
  \/ \E id \in Routines : RequestStart(id)
  \/ DeferredOffer \/ TapStart \/ TapNotNow
  \/ CancelReady \/ CancelClears \/ CancelDismisses
  \/ TapStep
  \/ Pair
  \/ \E c \in Caches : Push(c)
  \/ HoldArm \/ HoldPoll \/ Release \/ FactoryReset

\* LVGL runs its timers and what was posted to it; most ticks find the sleep
\* timeout not yet expired.  A task that is painting goes on.  Everyone else
\* may stop.
Fairness ==
  /\ WF_vars(IdleTick(FALSE)) /\ WF_vars(DeferredOffer)
  /\ \A p \in Painters : WF_vars(PainterStep(p))

Spec == Init /\ [][Next]_vars /\ Fairness

-----------------------------------------------------------------------------
Lasts   == {"none", "qr", "paired", "waiting", "face", "ready"}
Screens == (Lasts \ {"none"}) \cup {"step", "complete", "countdown"}

UiType ==
  [glass : Screens, shown : Routines \cup {NoOne},
   last : Lasts,               \* s_last_screen
   before : Lasts \ {"ready"}, \* s_screen_before_ready
   prompt : BOOLEAN,           \* s_reset_prompt_active
   awake : BOOLEAN,            \* s_awake
   offer : [pending : BOOLEAN, painted : BOOLEAN, idx : Nat \ {0},
            id : Routines \cup {NoOne}], \* s_ready
   everOpen : BOOLEAN,         \* s_gate_ever_open
   promote : BOOLEAN,          \* s_paired_at_ms # 0
   late : BOOLEAN, \* history: the last note was of a screen painted over
   dead : BOOLEAN] \* history: READY was painted, or left, without an offer

(* The type invariant; READY is never its own restore target.              *)
TypeOK ==
  /\ cache \in Caches \cup {<<>>}
  /\ paired \in BOOLEAN /\ childKnown \in BOOLEAN
  /\ ui \in UiType
  /\ run \in [active : BOOLEAN, idx : Nat \ {0}, step : Nat, count : Nat,
              id : Routines \cup {NoOne}]
  /\ posted \in Seq(Nat \ {0})
  /\ hold \in {"up", "counting"}
  /\ painter \in
       [Painters -> [at : {"idle", "gate", "paint", "note", "clear", "dismiss"},
                     screen : Lasts, job : {"none", "wake", "restore", "withdraw", "push"}]]

(* What covers a pending offer is not mistaken for its READY: s_last_screen *)
(* says so, and the next tick paints the offer again.  There are three     *)
(* exceptions: the reset countdown, which is never noted; a note still to  *)
(* come; and a note that came after another task had painted over its      *)
(* screen.                                                                 *)
CoverIsNoticed ==
  ui.offer.pending /\ ui.glass # "ready" =>
    \/ ui.last # "ready"
    \/ ui.glass = "countdown"
    \/ \E p \in Painters : painter[p].at = "note"
    \/ ui.late

Withdrawing == painter["sched"].job = "withdraw"

(* A READY screen is that of the pending offer: an answered or replaced    *)
(* offer leaves no buttons behind.  A withdrawn one does while rr_sched    *)
(* is taking it down, and a dead READY stays where START found the routine *)
(* gone (show_last_status does nothing for READY), where the offer went    *)
(* while a task was waiting to paint it, and where a late note says that   *)
(* READY is not up, or up again.                                           *)
ReadyShowsItsOffer ==
  ui.glass = "ready" =>
    \/ ui.offer.pending /\ ui.shown = ui.offer.id
    \/ Withdrawing
    \/ ui.dead

(* "A routine on screen must never be blanked mid-step."                   *)
NeverBlankedMidStep == run.active => ui.awake

StillThere == ui.offer.idx \in DOMAIN cache /\ cache[ui.offer.idx].id = ui.offer.id

(* The routine that starts is the one whose READY screen the child tapped, *)
(* if its offer has not been withdrawn under the finger and no push has    *)
(* moved the routine: answer_ready goes by the index alone.                *)
StartsWhatIsShown ==
  [][~run.active /\ run'.active /\ ui.offer.pending /\ StillThere => run'.id = ui.shown]_vars

(* Pairing is promoted to the face once, and never on a watch that booted  *)
(* paired: the gate closing for an offer and opening again must not paint  *)
(* the face over the completion screen.                                    *)
PromotesOnlyThePairing == promotions <= 1

(* Whatever is painted over it, and however the panel sleeps and wakes, a  *)
(* pending offer comes back to a lit panel.  It does not under a countdown *)
(* still running, nor under one left by an aborted hold over READY, which  *)
(* nothing takes down (show_last_status does nothing for READY), nor after *)
(* a late note of READY.                                                   *)
OfferIsShown ==
  ui.offer.pending /\ ui.awake ~>
    \/ ui.glass = "ready"
    \/ hold = "counting"
    \/ ui.glass = "countdown" /\ ui.last = "ready"
    \/ ui.late
    \/ ~ui.offer.pending
    \/ ~ui.awake

(* What the sources say and the code does not keep.                        *)
(* rr_routine.h, rr_routine_is_active: "True while a routine is on         *)
(* screen".                                                                *)
ActiveIsOnScreen == run.active => ui.glass = "step"

=============================================================================
