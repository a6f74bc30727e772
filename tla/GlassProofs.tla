---------------------------- MODULE GlassProofs ----------------------------
(***************************************************************************)
(* What Glass.tla promises, for every set of routines, every cache a phone *)
(* may push, every number of pushes, offers and holds, and however many    *)
(* tasks paint beside LVGL at one time.                                    *)
(*                                                                         *)
(* The painters are operators on the record `ui` that call each other;     *)
(* each is first reduced to one of three outcomes (nothing, the READY      *)
(* screen, a status screen), and the invariants are shown to survive       *)
(* those, and then the steps of the tasks that paint without LVGL's lock.  *)
(***************************************************************************)
EXTENDS Glass, TLAPS

Entries == [id : Routines, steps : Nat \ {0}]

LEMMA CacheEntries ==
  ASSUME TypeOK
  PROVE  /\ DOMAIN cache \subseteq Nat \ {0}
         /\ \A i \in DOMAIN cache : cache[i].id \in Routines /\ cache[i].steps \in Nat \ {0}
<1>1. cache \in Seq(Entries)
  <2>1. CASE cache = <<>>
    BY <2>1
  <2>2. CASE cache \in Caches
    BY <2>2, GlassAssumption DEF GlassAssumption, Entries
  <2> QED
    BY <2>1, <2>2 DEF TypeOK
<1>2. DOMAIN cache = 1..Len(cache) /\ Len(cache) \in Nat
  BY <1>1
<1>3. \A i \in DOMAIN cache : cache[i] \in Entries
  BY <1>1
<1>4. \A e \in Entries : e.id \in Routines /\ e.steps \in Nat \ {0}
  BY DEF Entries
<1> QED
  BY <1>2, <1>3, <1>4

Offers == [pending : BOOLEAN, painted : BOOLEAN, idx : Nat \ {0}, id : Routines \cup {NoOne}]

Runs == [active : BOOLEAN, idx : Nat \ {0}, step : Nat, count : Nat, id : Routines \cup {NoOne}]

Places == {"idle", "gate", "paint", "note", "clear", "dismiss"}

Jobs == {"none", "wake", "restore", "withdraw", "push"}

AtWork == [at : Places, screen : Lasts, job : Jobs]

LEMMA NoneType ==
  /\ NoOffer \in Offers /\ NoRun \in Runs /\ Resting \in AtWork
  /\ \A s \in {"qr", "waiting", "face"} : BootScreen(s) \in UiType
BY DEF NoOffer, NoRun, BootScreen, UiType, Lasts, Screens, Offers, Runs, Resting, AtWork, Places, Jobs

LEMMA OfferField ==
  ASSUME NEW u \in UiType
  PROVE  /\ u.offer \in Offers
         /\ \A o \in Offers : [u EXCEPT !.offer = o] \in UiType
BY DEF UiType, Offers

-----------------------------------------------------------------------------
(***************************************************************************)
(* The painters.                                                           *)
(***************************************************************************)
\* What the painters leave alone.
Same(u, v) ==
  /\ v.offer.pending = u.offer.pending
  /\ v.offer.idx = u.offer.idx /\ v.offer.id = u.offer.id
  /\ v.awake = u.awake
  /\ v.everOpen = u.everOpen /\ v.promote = u.promote

\* What is on the glass, and what is remembered of it.
SameScreen(u, v) ==
  v.glass = u.glass /\ v.shown = u.shown /\ v.last = u.last /\ v.late = u.late /\ v.dead = u.dead

LEMMA SameRefl == \A u : Same(u, u) /\ SameScreen(u, u)
BY DEF Same, SameScreen

StatusScreens == {"qr", "paired", "waiting", "face"}

\* v is u with nothing painted, the READY of its offer, or a status screen.
Repainted(u, v) ==
  \/ v = u
  \/ u.offer.pending /\ v = ShowReady(u)
  \/ \E s \in StatusScreens : v = Status(u, s)

LEMMA PaintScreen ==
  ASSUME NEW u \in UiType, NEW s \in Screens, NEW who \in Routines \cup {NoOne}
  PROVE  /\ Paint(u, s, who) \in UiType /\ Same(u, Paint(u, s, who))
         /\ Paint(u, s, who).glass = s /\ Paint(u, s, who).shown = who
         /\ Paint(u, s, who).last = u.last /\ Paint(u, s, who).offer = u.offer
BY DEF Paint, UiType, Same

LEMMA ReadyScreen ==
  ASSUME NEW u \in UiType
  PROVE  /\ ShowReady(u) \in UiType
         /\ Same(u, ShowReady(u))
         /\ ShowReady(u).glass = "ready" /\ ShowReady(u).last = "ready"
         /\ ShowReady(u).shown = u.offer.id /\ ShowReady(u).offer.painted
         /\ ShowReady(u).before = IF u.last = "ready" THEN u.before ELSE u.last
<1> DEFINE o == [u.offer EXCEPT !.painted = TRUE]
           b == IF u.last = "ready" THEN u.before ELSE u.last
<1>1. u.offer \in Offers
  BY OfferField
<1>2. /\ o \in Offers /\ o.painted /\ o.pending = u.offer.pending
      /\ o.idx = u.offer.idx /\ o.id = u.offer.id
  BY <1>1 DEF Offers
<1>3. b \in Lasts \ {"ready"}
  BY DEF UiType
<1>4. ShowReady(u) = [u EXCEPT !.glass = "ready", !.shown = u.offer.id, !.late = FALSE,
                               !.dead = FALSE, !.before = b, !.last = "ready", !.offer = o]
  BY DEF ShowReady, Paint, UiType
<1>5. u.offer.id \in Routines \cup {NoOne}
  BY <1>1 DEF Offers
<1> HIDE DEF o, b
<1>6. ShowReady(u) \in UiType
  <2> DEFINE w == Paint(u, "ready", u.offer.id)
             x == [w EXCEPT !.before = b, !.last = "ready"]
  <2>1. w \in UiType
    BY <1>5, PaintScreen DEF Screens, Lasts
  <2>2. ShowReady(u) = [x EXCEPT !.offer = o]
    BY <1>4 DEF Paint, UiType
  <2> HIDE DEF w
  <2>3. x \in UiType
    BY <2>1, <1>3 DEF UiType, Lasts
  <2> HIDE DEF x
  <2> QED
    BY <2>2, <2>3, <1>2 DEF UiType, Offers
<1>7. /\ ShowReady(u).glass = "ready" /\ ShowReady(u).last = "ready"
      /\ ShowReady(u).shown = u.offer.id /\ ShowReady(u).before = b
      /\ ShowReady(u).offer = o /\ ShowReady(u).awake = u.awake
      /\ ShowReady(u).everOpen = u.everOpen /\ ShowReady(u).promote = u.promote
  BY <1>4 DEF UiType
<1>8. Same(u, ShowReady(u)) /\ ShowReady(u).offer.painted
  BY <1>2, <1>7 DEF Same
<1> QED
  BY <1>6, <1>7, <1>8 DEF b

LEMMA StatusScreen ==
  ASSUME NEW u \in UiType, NEW s \in StatusScreens
  PROVE  /\ Status(u, s) \in UiType
         /\ Same(u, Status(u, s)) /\ Status(u, s).offer = u.offer
         /\ Status(u, s).glass = s /\ Status(u, s).last = s
<1> DEFINE v == Paint(u, s, NoOne)
<1>1. /\ v \in UiType /\ Same(u, v) /\ v.offer = u.offer /\ v.glass = s
  BY PaintScreen DEF StatusScreens, Screens, Lasts
<1>2. Status(u, s) = [v EXCEPT !.last = s]
  BY DEF Status
<1>3. s \in Lasts
  BY DEF StatusScreens, Lasts
<1> HIDE DEF v
<1> QED
  BY <1>1, <1>2, <1>3 DEF UiType, Same

LEMMA StepScreen ==
  ASSUME NEW u \in UiType, NEW id \in Routines
  PROVE  /\ ShowStep(u, id) \in UiType /\ Same(u, ShowStep(u, id))
         /\ ShowStep(u, id).glass = "step" /\ ShowStep(u, id).last = "none"
<1> DEFINE v == Paint(u, "step", id)
<1>1. /\ v \in UiType /\ Same(u, v) /\ v.glass = "step"
  BY PaintScreen DEF Screens
<1>2. ShowStep(u, id) = [v EXCEPT !.last = "none"]
  BY DEF ShowStep
<1>3. "none" \in Lasts
  BY DEF Lasts
<1> HIDE DEF v
<1> QED
  BY <1>1, <1>2, <1>3 DEF UiType, Same

LEMMA CountdownScreen ==
  ASSUME NEW u \in UiType
  PROVE  /\ ShowCountdown(u) \in UiType /\ Same(u, ShowCountdown(u))
         /\ ShowCountdown(u).glass = "countdown"
<1> DEFINE v == Paint(u, "countdown", NoOne)
<1>1. /\ v \in UiType /\ Same(u, v) /\ v.glass = "countdown"
  BY PaintScreen DEF Screens
<1>2. ShowCountdown(u) = [v EXCEPT !.prompt = TRUE]
  BY DEF ShowCountdown
<1> HIDE DEF v
<1> QED
  BY <1>1, <1>2 DEF UiType, Same

LEMMA DeadScreen ==
  ASSUME NEW u \in UiType
  PROVE  /\ Dead(u) \in UiType /\ Same(u, Dead(u))
         /\ Dead(u).glass = u.glass /\ Dead(u).shown = u.shown
         /\ Dead(u).last = u.last /\ Dead(u).late = u.late
         /\ u.glass = "ready" /\ ~u.offer.pending => Dead(u).dead
<1> DEFINE d == u.dead \/ (u.glass = "ready" /\ ~u.offer.pending)
<1>1. d \in BOOLEAN
  OBVIOUS
<1>2. Dead(u) = [u EXCEPT !.dead = d]
  BY DEF Dead, UiType
<1>3. u.glass = "ready" /\ ~u.offer.pending => d
  OBVIOUS
<1> HIDE DEF d
<1>4. [u EXCEPT !.dead = d] \in UiType /\ [u EXCEPT !.dead = d].dead = d
  BY <1>1 DEF UiType
<1>5. /\ Same(u, [u EXCEPT !.dead = d])
      /\ [u EXCEPT !.dead = d].glass = u.glass /\ [u EXCEPT !.dead = d].shown = u.shown
      /\ [u EXCEPT !.dead = d].last = u.last /\ [u EXCEPT !.dead = d].late = u.late
  BY DEF UiType, Same
<1> QED
  BY <1>2, <1>3, <1>4, <1>5

LEMMA RepaintOfferOutcome ==
  ASSUME NEW u \in UiType
  PROVE  /\ RepaintOffer(u) = u \/ (u.offer.pending /\ RepaintOffer(u) = ShowReady(u))
         /\ u.offer.pending /\ ~u.offer.painted => RepaintOffer(u) = ShowReady(u)
         /\ ~u.offer.pending => RepaintOffer(u) = u
BY DEF RepaintOffer, UiType

LEMMA BuildFaceOutcome ==
  ASSUME NEW u \in UiType
  PROVE  /\ Repainted(u, BuildFace(u))
         /\ GateOpen(u) => BuildFace(u) = Status(u, "face")
         /\ ~GateOpen(u) => BuildFace(u) = RepaintOffer(u)
BY RepaintOfferOutcome DEF BuildFace, AskGate, GateOpen, Repainted, StatusScreens

LEMMA ShowLastOutcome ==
  ASSUME NEW u \in UiType
  PROVE  /\ Repainted(u, ShowLast(u))
         /\ u.last \in {"qr", "paired", "waiting"} => ShowLast(u) = Status(u, u.last)
         /\ u.last = "face" => ShowLast(u) = BuildFace(u)
         /\ u.last \in {"none", "ready"} => ShowLast(u) = u
<1>1. CASE u.last \in {"qr", "paired", "waiting"}
  <2>1. ShowLast(u) = Status(u, u.last)
    BY <1>1 DEF ShowLast
  <2> QED
    BY <1>1, <2>1 DEF Repainted, StatusScreens
<1>2. CASE u.last = "face"
  <2>1. ShowLast(u) = BuildFace(u)
    BY <1>2 DEF ShowLast
  <2> QED
    BY <1>2, <2>1, BuildFaceOutcome
<1>3. CASE u.last \in {"none", "ready"}
  <2>1. ShowLast(u) = u
    BY <1>3 DEF ShowLast
  <2> QED
    BY <1>3, <2>1 DEF Repainted
<1> QED
  BY <1>1, <1>2, <1>3 DEF UiType, Lasts

LEMMA RepaintedType ==
  ASSUME NEW u \in UiType, NEW v, Repainted(u, v)
  PROVE  v \in UiType /\ Same(u, v)
BY SameRefl, ReadyScreen, StatusScreen DEF Repainted

\* The steps in a handler that touch no screen.
LEMMA SetAwake ==
  ASSUME NEW u \in UiType, NEW a \in BOOLEAN
  PROVE  /\ [u EXCEPT !.awake = a] \in UiType /\ [u EXCEPT !.awake = a].awake = a
         /\ SameScreen(u, [u EXCEPT !.awake = a])
         /\ [u EXCEPT !.awake = a].offer = u.offer
         /\ [u EXCEPT !.awake = a].everOpen = u.everOpen
         /\ [u EXCEPT !.awake = a].promote = u.promote
BY DEF UiType, SameScreen

LEMMA SetLast ==
  ASSUME NEW u \in UiType, NEW l \in Lasts
  PROVE  /\ [u EXCEPT !.last = l] \in UiType /\ Same(u, [u EXCEPT !.last = l])
         /\ [u EXCEPT !.last = l].last = l /\ [u EXCEPT !.last = l].offer = u.offer
         /\ [u EXCEPT !.last = l].glass = u.glass /\ [u EXCEPT !.last = l].shown = u.shown
         /\ [u EXCEPT !.last = l].late = u.late /\ [u EXCEPT !.last = l].dead = u.dead
         /\ [u EXCEPT !.last = l].before = u.before
BY DEF UiType, Same

LEMMA SetBefore ==
  ASSUME NEW u \in UiType, NEW b \in Lasts \ {"ready"}
  PROVE  /\ [u EXCEPT !.before = b] \in UiType
         /\ Same(u, [u EXCEPT !.before = b]) /\ SameScreen(u, [u EXCEPT !.before = b])
BY DEF UiType, Same, SameScreen

LEMMA SetPrompt ==
  ASSUME NEW u \in UiType, NEW b \in BOOLEAN
  PROVE  /\ [u EXCEPT !.prompt = b] \in UiType
         /\ Same(u, [u EXCEPT !.prompt = b]) /\ SameScreen(u, [u EXCEPT !.prompt = b])
BY DEF UiType, Same, SameScreen

LEMMA SetPromote ==
  ASSUME NEW u \in UiType, NEW b \in BOOLEAN
  PROVE  /\ [u EXCEPT !.promote = b] \in UiType /\ [u EXCEPT !.promote = b].promote = b
         /\ SameScreen(u, [u EXCEPT !.promote = b])
         /\ [u EXCEPT !.promote = b].offer = u.offer /\ [u EXCEPT !.promote = b].awake = u.awake
         /\ [u EXCEPT !.promote = b].everOpen = u.everOpen
BY DEF UiType, SameScreen

LEMMA ClearOffer ==
  ASSUME NEW u \in UiType
  PROVE  LET v == [u EXCEPT !.offer = NoOffer]
         IN  /\ v \in UiType /\ v.offer = NoOffer /\ ~v.offer.pending
             /\ SameScreen(u, v) /\ v.before = u.before
             /\ v.awake = u.awake /\ v.everOpen = u.everOpen /\ v.promote = u.promote
<1>1. [u EXCEPT !.offer = NoOffer] \in UiType
  BY OfferField, NoneType
<1>2. ~NoOffer.pending
  BY DEF NoOffer
<1> QED
  BY <1>1, <1>2 DEF UiType, SameScreen

-----------------------------------------------------------------------------
(***************************************************************************)
(* What the screen keeps to, n for a note to come and w for a withdrawal   *)
(* under way.                                                              *)
(***************************************************************************)
CoverOk(u, n) ==
  u.offer.pending /\ u.glass # "ready" =>
    u.last # "ready" \/ u.glass = "countdown" \/ n \/ u.late

ReadyOk(u, w) == u.glass = "ready" => (u.offer.pending /\ u.shown = u.offer.id) \/ w \/ u.dead

NamedOk(u) == u.glass = "ready" /\ u.offer.pending => u.shown = u.offer.id

Ok(u, n, w) == CoverOk(u, n) /\ ReadyOk(u, w) /\ NamedOk(u)

LEMMA SameScreenOk ==
  ASSUME NEW n, NEW w, NEW u, Ok(u, n, w), NEW v, Same(u, v), SameScreen(u, v)
  PROVE  Ok(v, n, w)
BY DEF Ok, CoverOk, ReadyOk, NamedOk, Same, SameScreen

LEMMA RepaintedOk ==
  ASSUME NEW n, NEW w, NEW u \in UiType, Ok(u, n, w), NEW v, Repainted(u, v)
  PROVE  /\ v \in UiType /\ Same(u, v) /\ Ok(v, n, w)
         /\ v.glass = "ready" => u.glass = "ready" \/ u.offer.pending
<1>1. v \in UiType /\ Same(u, v)
  BY RepaintedType
<1>2. CASE v = u
  BY <1>1, <1>2
<1>3. CASE u.offer.pending /\ v = ShowReady(u)
  BY <1>1, <1>3, ReadyScreen DEF Ok, CoverOk, ReadyOk, NamedOk, Same
<1>4. ASSUME NEW s \in StatusScreens, v = Status(u, s)
      PROVE  Ok(v, n, w) /\ v.glass # "ready"
  <2>1. v.glass = s /\ v.last = s /\ s # "ready"
    BY <1>4, StatusScreen DEF StatusScreens
  <2> QED
    BY <2>1 DEF Ok, CoverOk, ReadyOk, NamedOk
<1> QED
  BY <1>1, <1>2, <1>3, <1>4 DEF Repainted

LEMMA BuildFaceOk ==
  ASSUME NEW n, NEW w, NEW u \in UiType, Ok(u, n, w)
  PROVE  /\ BuildFace(u) \in UiType /\ Same(u, BuildFace(u)) /\ Ok(BuildFace(u), n, w)
         /\ BuildFace(u).glass = "ready" => u.glass = "ready" \/ u.offer.pending
BY BuildFaceOutcome, RepaintedOk

LEMMA ShowLastOk ==
  ASSUME NEW n, NEW w, NEW u \in UiType, Ok(u, n, w)
  PROVE  /\ ShowLast(u) \in UiType /\ Same(u, ShowLast(u)) /\ Ok(ShowLast(u), n, w)
         /\ ShowLast(u).glass = "ready" => u.glass = "ready" \/ u.offer.pending
BY ShowLastOutcome, RepaintedOk

\* A screen without READY, and one without an offer but marked.
LEMMA NotReadyOk ==
  ASSUME NEW n, NEW w, NEW u, u.glass # "ready",
         ~u.offer.pending \/ u.last # "ready" \/ u.glass = "countdown" \/ n
  PROVE  Ok(u, n, w)
BY DEF Ok, CoverOk, ReadyOk, NamedOk

LEMMA DeadOk ==
  ASSUME NEW n, NEW w, NEW u \in UiType, CoverOk(u, n), NamedOk(u)
  PROVE  Dead(u) \in UiType /\ Same(u, Dead(u)) /\ Ok(Dead(u), n, w) /\ Dead(u).glass = u.glass
<1>1. /\ Dead(u) \in UiType /\ Same(u, Dead(u))
      /\ Dead(u).glass = u.glass /\ Dead(u).shown = u.shown
      /\ Dead(u).last = u.last /\ Dead(u).late = u.late
      /\ u.glass = "ready" /\ ~u.offer.pending => Dead(u).dead
  BY DeadScreen
<1> QED
  BY <1>1 DEF Ok, CoverOk, ReadyOk, NamedOk, Same

\* Without an offer, nothing is covered and nothing is to be named.
LEMMA NoOfferOk ==
  ASSUME NEW n, NEW u, ~u.offer.pending
  PROVE  CoverOk(u, n) /\ NamedOk(u)
BY DEF CoverOk, NamedOk

\* Dismissing an offer takes its READY down, or marks it.
LEMMA DismissOk ==
  ASSUME NEW n, NEW w, NEW u \in UiType, ~u.offer.pending, paired, childKnown
  PROVE  /\ DismissReady(u) \in UiType /\ Same(u, DismissReady(u)) /\ Ok(DismissReady(u), n, w)
         /\ DismissReady(u).glass = "ready" => u.glass = "ready"
<1> DEFINE v == [u EXCEPT !.last = u.before]
<1>1. u.before \in Lasts \ {"ready"}
  BY DEF UiType
<1>2. v \in UiType /\ Same(u, v) /\ v.last = u.before /\ v.offer = u.offer
  BY <1>1, SetLast
<1>3. CASE u.last # "ready"
  <2>1. DismissReady(u) = Dead(u)
    BY <1>3 DEF DismissReady
  <2> QED
    BY <2>1, NoOfferOk, DeadOk
<1>4. CASE u.last = "ready"
  <2>1. v.last = "none" => DismissReady(u) = BuildFace(v)
    BY <1>2, <1>4 DEF DismissReady
  <2>2. v.last # "none" => DismissReady(u) = ShowLast(v)
    BY <1>2, <1>4 DEF DismissReady
  <2> HIDE DEF v
  <2>3. GateOpen(v)
    BY <1>2 DEF GateOpen
  <2>4. PICK s \in StatusScreens : DismissReady(u) = Status(v, s)
    <3>1. CASE v.last \in {"none", "face"}
      BY <1>2, <2>1, <2>2, <2>3, <3>1, BuildFaceOutcome, ShowLastOutcome DEF StatusScreens
    <3>2. CASE v.last \in {"qr", "paired", "waiting"}
      BY <1>2, <2>2, <3>2, ShowLastOutcome DEF StatusScreens
    <3> QED
      BY <1>1, <1>2, <3>1, <3>2 DEF Lasts
  <2>5. Status(v, s) \in UiType /\ Same(v, Status(v, s)) /\ Status(v, s).glass = s /\ s # "ready"
    BY <1>2, StatusScreen DEF StatusScreens
  <2>6. Same(u, Status(v, s)) /\ ~Status(v, s).offer.pending
    BY <1>2, <2>5 DEF Same
  <2> QED
    BY <2>4, <2>5, <2>6, NotReadyOk
<1> QED
  BY <1>3, <1>4

\* The READY of a new offer is painted, whether or not the panel was lit.
LEMMA OfferOutcome ==
  ASSUME NEW w \in UiType, w.offer.pending, ~w.offer.painted
  PROVE  \/ RepaintOffer(WakeUp(w)) = ShowReady(w) /\ w.awake
         \/ RepaintOffer(WakeUp(w)) = ShowReady([w EXCEPT !.awake = TRUE])
<1>1. CASE w.awake
  <2>1. WakeUp(w) = w
    BY <1>1 DEF WakeUp
  <2> QED
    BY <1>1, <2>1, RepaintOfferOutcome
<1>2. CASE ~w.awake
  <2> DEFINE v == [w EXCEPT !.awake = TRUE]
  <2>1. v \in UiType /\ v.offer = w.offer
    BY SetAwake
  <2>2. ~GateOpen(v)
    BY <2>1 DEF GateOpen
  <2>3. WakeUp(w) = ShowLast(BuildFace(v))
    BY <1>2, <2>2 DEF WakeUp
  <2> HIDE DEF v
  <2>4. BuildFace(v) = ShowReady(v)
    BY <2>1, <2>2, BuildFaceOutcome, RepaintOfferOutcome
  <2>5. ShowReady(v) \in UiType /\ ShowReady(v).last = "ready" /\ ShowReady(v).offer.painted
    BY <2>1, ReadyScreen
  <2>6. ShowLast(ShowReady(v)) = ShowReady(v)
    BY <2>5, ShowLastOutcome
  <2>7. RepaintOffer(ShowReady(v)) = ShowReady(v)
    BY <2>5 DEF RepaintOffer
  <2> QED
    BY <2>3, <2>4, <2>6, <2>7 DEF v
<1> QED
  BY <1>1, <1>2

LEMMA OfferedOk ==
  ASSUME TypeOK, NEW i \in DOMAIN cache, NEW n, NEW w
  PROVE  /\ Offered(ui, i) \in UiType /\ Offered(ui, i).awake /\ Ok(Offered(ui, i), n, w)
         /\ Offered(ui, i).everOpen = ui.everOpen /\ Offered(ui, i).promote = ui.promote
<1> DEFINE o == [pending |-> TRUE, painted |-> FALSE, idx |-> i, id |-> cache[i].id]
           x == [ui EXCEPT !.offer = o]
           y == [x EXCEPT !.awake = TRUE]
<1>1. o \in Offers
  BY CacheEntries DEF Offers
<1>2. ui \in UiType
  BY DEF TypeOK
<1>3. o.pending /\ ~o.painted
  OBVIOUS
<1>4. Offered(ui, i) = RepaintOffer(WakeUp(x))
  BY DEF Offered
<1> HIDE DEF o
<1>5. /\ x \in UiType /\ x.offer = o /\ x.everOpen = ui.everOpen /\ x.promote = ui.promote
  BY <1>1, <1>2, OfferField DEF UiType
<1> HIDE DEF x
<1>6. /\ y \in UiType /\ y.offer = o /\ y.awake /\ y.everOpen = ui.everOpen /\ y.promote = ui.promote
  BY <1>5, SetAwake
<1>7. \/ Offered(ui, i) = ShowReady(x) /\ x.awake
      \/ Offered(ui, i) = ShowReady(y)
  BY <1>3, <1>4, <1>5, OfferOutcome
<1> HIDE DEF y
<1>8. PICK z \in UiType : /\ Offered(ui, i) = ShowReady(z) /\ z.awake /\ z.offer.pending
                          /\ z.everOpen = ui.everOpen /\ z.promote = ui.promote
  BY <1>3, <1>5, <1>6, <1>7
<1>9. /\ ShowReady(z) \in UiType /\ Same(z, ShowReady(z))
      /\ ShowReady(z).glass = "ready" /\ ShowReady(z).shown = z.offer.id
  BY ReadyScreen
<1>10. Ok(ShowReady(z), n, w)
  BY <1>8, <1>9 DEF Ok, CoverOk, ReadyOk, NamedOk, Same
<1> QED
  BY <1>8, <1>9, <1>10 DEF Same

-----------------------------------------------------------------------------
(***************************************************************************)
(* idle_tick, stage by stage.                                              *)
(***************************************************************************)
\* What NoticeGate writes besides painting.
GateNoticed(u, everOpen, promote) ==
  /\ everOpen = (u.everOpen \/ GateOpen(u))
  /\ promote = (u.promote \/ (GateOpen(u) /\ ~u.everOpen))

LEMMA NoticeOk ==
  ASSUME NEW n, NEW w, NEW u \in UiType, Ok(u, n, w), paired \in BOOLEAN, childKnown \in BOOLEAN
  PROVE  LET v == NoticeGate(u)
         IN  /\ v \in UiType /\ Ok(v, n, w) /\ v.awake = u.awake
             /\ v.offer.pending = u.offer.pending
             /\ v.glass = "ready" => u.glass = "ready" \/ u.offer.pending
             /\ GateNoticed(u, v.everOpen, v.promote)
<1> DEFINE r == RepaintOffer(u)
           p == u.promote \/ (GateOpen(u) /\ ~u.everOpen)
           e == u.everOpen \/ GateOpen(u)
           v == [[r EXCEPT !.promote = p] EXCEPT !.everOpen = e]
<1>1. /\ r \in UiType /\ Same(u, r) /\ Ok(r, n, w)
      /\ r.glass = "ready" => u.glass = "ready" \/ u.offer.pending
  BY RepaintOfferOutcome, RepaintedOk DEF Repainted
<1>2. p \in BOOLEAN /\ e \in BOOLEAN
  OBVIOUS
<1>3. NoticeGate(u) = v
  <2>1. r.promote = u.promote /\ r.everOpen = u.everOpen
    BY <1>1 DEF Same
  <2> QED
    BY <1>1, <2>1 DEF NoticeGate, AskGate, UiType
<1>4. GateNoticed(u, e, p)
  BY DEF GateNoticed
<1> HIDE DEF r, p, e
<1>5. v \in UiType /\ v.everOpen = e /\ v.promote = p /\ v.awake = r.awake
  BY <1>1, <1>2 DEF UiType
<1>6. v.offer = r.offer /\ SameScreen(r, v)
  BY <1>1 DEF UiType, SameScreen
<1>7. Ok(v, n, w)
  BY <1>1, <1>6 DEF Ok, CoverOk, ReadyOk, NamedOk, SameScreen
<1> HIDE DEF v
<1> QED
  BY <1>1, <1>3, <1>4, <1>5, <1>6, <1>7 DEF Same, SameScreen

LEMMA PromoteOk ==
  ASSUME NEW n, NEW w, NEW u \in UiType, Ok(u, n, w)
  PROVE  LET v == Promote(u)
         IN  /\ v \in UiType /\ Ok(v, n, w) /\ v.awake = u.awake
             /\ v.offer.pending = u.offer.pending
             /\ v.glass = "ready" => u.glass = "ready" \/ u.offer.pending
             /\ v.everOpen = u.everOpen /\ v.promote = FALSE
<1> DEFINE c == [u EXCEPT !.promote = FALSE]
<1>1. /\ c \in UiType /\ SameScreen(u, c) /\ c.offer = u.offer /\ c.awake = u.awake
      /\ c.everOpen = u.everOpen /\ c.promote = FALSE
  BY SetPromote
<1>2. Ok(c, n, w)
  BY <1>1 DEF Ok, CoverOk, ReadyOk, NamedOk, SameScreen
<1>3. Promote(u) = c \/ Promote(u) = BuildFace(c)
  BY DEF Promote
<1> HIDE DEF c
<1>4. /\ BuildFace(c) \in UiType /\ Same(c, BuildFace(c)) /\ Ok(BuildFace(c), n, w)
      /\ BuildFace(c).glass = "ready" => c.glass = "ready" \/ c.offer.pending
  BY <1>1, <1>2, BuildFaceOk
<1> QED
  BY <1>1, <1>2, <1>3, <1>4 DEF Same, SameScreen

LEMMA RefreshOk ==
  ASSUME NEW n, NEW w, NEW u \in UiType, Ok(u, n, w)
  PROVE  /\ RefreshFace(u) \in UiType /\ Same(u, RefreshFace(u)) /\ Ok(RefreshFace(u), n, w)
         /\ RefreshFace(u).glass = "ready" => u.glass = "ready" \/ u.offer.pending
BY SameRefl, BuildFaceOk DEF RefreshFace

\* A tick, with `promotes` what it does about a pairing it noticed earlier.
LEMMA TickOk ==
  ASSUME TypeOK, NEW n, NEW w, Ok(ui, n, w), NEW sleepy \in BOOLEAN, IdleTick(sleepy)
  PROVE  \E noticed, promotes \in BOOLEAN :
           /\ ui' \in UiType /\ Ok(ui', n, w) /\ ui'.offer.pending = ui.offer.pending
           /\ ui'.glass = "ready" => ui.glass = "ready" \/ ui.offer.pending
           /\ promotes => ui.promote
           /\ GateNoticed(ui, ui'.everOpen, noticed)
           /\ ui'.promote = (noticed /\ ~promotes)
           /\ promotions' = IF promotes THEN promotions + 1 ELSE promotions
<1>1. PICK promoteDue, refresh \in BOOLEAN :
        LET noticed  == NoticeGate(ui)
            promotes == ui.promote /\ promoteDue
            promoted == IF promotes THEN Promote(noticed) ELSE noticed
            fresh    == IF refresh THEN RefreshFace(promoted) ELSE promoted
        IN  /\ ui' = IF sleepy THEN [fresh EXCEPT !.awake = FALSE] ELSE fresh
            /\ promotions' = IF promotes THEN promotions + 1 ELSE promotions
  BY DEF IdleTick
<1> DEFINE noticed  == NoticeGate(ui)
           promotes == ui.promote /\ promoteDue
           promoted == IF promotes THEN Promote(noticed) ELSE noticed
           fresh    == IF refresh THEN RefreshFace(promoted) ELSE promoted
           dark     == [fresh EXCEPT !.awake = FALSE]
<1>2. /\ ui' = dark \/ ui' = fresh
      /\ promotions' = IF promotes THEN promotions + 1 ELSE promotions
  BY <1>1
<1>3. ui \in UiType /\ promotes \in BOOLEAN /\ (promotes => ui.promote)
  BY DEF TypeOK, UiType
<1>4. /\ noticed \in UiType /\ Ok(noticed, n, w) /\ noticed.offer.pending = ui.offer.pending
      /\ noticed.glass = "ready" => ui.glass = "ready" \/ ui.offer.pending
      /\ GateNoticed(ui, noticed.everOpen, noticed.promote)
  BY <1>3, NoticeOk DEF TypeOK
<1> HIDE DEF noticed, promotes
<1>5. noticed.promote \in BOOLEAN
  BY <1>4 DEF UiType
<1>6. /\ promoted \in UiType /\ Ok(promoted, n, w) /\ promoted.offer.pending = noticed.offer.pending
      /\ promoted.glass = "ready" => noticed.glass = "ready" \/ noticed.offer.pending
      /\ promoted.everOpen = noticed.everOpen
      /\ promoted.promote = (noticed.promote /\ ~promotes)
  <2>1. CASE promotes
    BY <1>4, <2>1, PromoteOk
  <2>2. CASE ~promotes
    BY <1>4, <1>5, <2>2
  <2> QED
    BY <2>1, <2>2
<1> HIDE DEF promoted
<1>7. /\ fresh \in UiType /\ Ok(fresh, n, w) /\ fresh.offer.pending = promoted.offer.pending
      /\ fresh.glass = "ready" => promoted.glass = "ready" \/ promoted.offer.pending
      /\ fresh.everOpen = promoted.everOpen /\ fresh.promote = promoted.promote
  BY <1>6, RefreshOk DEF Same
<1> HIDE DEF fresh
<1>8. /\ dark \in UiType /\ SameScreen(fresh, dark) /\ dark.offer = fresh.offer
      /\ dark.everOpen = fresh.everOpen /\ dark.promote = fresh.promote
  BY <1>7, SetAwake
<1>9. Ok(dark, n, w)
  BY <1>7, <1>8 DEF Ok, CoverOk, ReadyOk, NamedOk, SameScreen
<1> HIDE DEF dark
<1>10. /\ ui' \in UiType /\ Ok(ui', n, w) /\ ui'.offer.pending = fresh.offer.pending
       /\ ui'.glass = fresh.glass
       /\ ui'.everOpen = noticed.everOpen /\ ui'.promote = (noticed.promote /\ ~promotes)
  BY <1>2, <1>6, <1>7, <1>8, <1>9 DEF SameScreen
<1>11. ui'.offer.pending = ui.offer.pending
  BY <1>4, <1>6, <1>7, <1>10
<1>12. ui'.glass = "ready" => ui.glass = "ready" \/ ui.offer.pending
  BY <1>4, <1>6, <1>7, <1>10
<1> QED
  BY <1>2, <1>3, <1>4, <1>5, <1>10, <1>11, <1>12

-----------------------------------------------------------------------------
(***************************************************************************)
(* The invariant: what the screen keeps to, and what the steps need to     *)
(* keep it so.  A running routine has no offer beside it; an offer, posted *)
(* or up, is of a watch that a phone has set up; and a task that paints    *)
(* without the lock knows what it is about.                                *)
(***************************************************************************)
Noting == \E p \in Painters : painter[p].at = "note"

OthersNote(p) == \E q \in Painters \ {p} : painter[q].at = "note"

ScreenOk == Ok(ui, Noting, Withdrawing)

Quiet == run.active => ~ui.offer.pending

ReadySomewhere ==
  ui.offer.pending \/ ui.glass = "ready" \/ \E p \in Painters : painter[p].screen = "ready"

Known == cache # <<>> \/ posted # <<>> \/ ReadySomewhere => paired /\ childKnown

Working ==
  /\ \A p \in Painters : painter[p].at = "gate" => painter[p].job = "wake"
  /\ \A p \in Painters : painter[p].at \in {"paint", "note"} => painter[p].screen # "none"
  /\ hold = "counting" => painter["button"] = Resting

IInv == TypeOK /\ ScreenOk /\ NeverBlankedMidStep /\ Quiet /\ Known /\ Working

\* Nothing but a tick of LVGL and a boot moves the latch of the pairing.
Latched ==
  ui'.everOpen = ui.everOpen /\ ui'.promote = ui.promote /\ promotions' = promotions

LEMMA TypeParts ==
  TypeOK <=>
    /\ cache \in Caches \cup {<<>>}
    /\ paired \in BOOLEAN /\ childKnown \in BOOLEAN
    /\ ui \in UiType /\ run \in Runs /\ posted \in Seq(Nat \ {0})
    /\ hold \in {"up", "counting"}
    /\ painter \in [Painters -> AtWork]
BY DEF TypeOK, Runs, AtWork, Places, Jobs

LEMMA Weaken ==
  ASSUME NEW n, NEW w, NEW n2, NEW w2, NEW u, Ok(u, n, w), n => n2, w => w2
  PROVE  Ok(u, n2, w2)
BY DEF Ok, CoverOk, ReadyOk, NamedOk

\* Where the painters stay, so does what is said of them.
LEMMA SamePainters ==
  ASSUME painter' = painter
  PROVE  Noting' = Noting /\ Withdrawing' = Withdrawing
BY DEF Noting, Withdrawing

-----------------------------------------------------------------------------
(***************************************************************************)
(* The steps of the tasks that paint.                                      *)
(***************************************************************************)
LEMMA PainterMoves ==
  ASSUME TypeOK, NEW p \in Painters, NEW x \in AtWork, painter' = [painter EXCEPT ![p] = x]
  PROVE  /\ painter' \in [Painters -> AtWork]
         /\ painter'[p] = x
         /\ \A q \in Painters \ {p} : painter'[q] = painter[q]
         /\ OthersNote(p) => Noting'
         /\ x.at = "note" => Noting'
         /\ painter[p].at # "note" => (Noting => OthersNote(p))
<1>1. painter \in [Painters -> AtWork]
  BY TypeParts
<1>2. painter' \in [Painters -> AtWork] /\ painter'[p] = x
  BY <1>1
<1>3. \A q \in Painters \ {p} : painter'[q] = painter[q]
  BY <1>1
<1>4. OthersNote(p) => Noting'
  BY <1>3 DEF OthersNote, Noting
<1>5. x.at = "note" => Noting'
  BY <1>2 DEF Noting
<1>6. painter[p].at # "note" => (Noting => OthersNote(p))
  BY DEF OthersNote, Noting
<1> QED
  BY <1>2, <1>3, <1>4, <1>5, <1>6

\* A painter comes to rest, and marks the READY it leaves behind.
LEMMA RestsOk ==
  ASSUME TypeOK, Working, NEW p \in Painters, NEW u \in UiType,
         CoverOk(u, OthersNote(p)), ReadyOk(u, Withdrawing), NamedOk(u), Rests(p, u)
  PROVE  /\ ui' \in UiType /\ Same(u, ui') /\ ui'.glass = u.glass
         /\ painter' \in [Painters -> AtWork]
         /\ \A q \in Painters \ {p} : painter'[q] = painter[q]
         /\ painter'[p] = Resting
         /\ ScreenOk'
<1>1. painter' = [painter EXCEPT ![p] = Resting]
  BY DEF Rests
<1>2. /\ painter' \in [Painters -> AtWork] /\ painter'[p] = Resting
      /\ \A q \in Painters \ {p} : painter'[q] = painter[q]
      /\ OthersNote(p) => Noting'
  BY <1>1, NoneType, PainterMoves
<1>3. CoverOk(u, Noting')
  BY <1>2 DEF CoverOk
<1>4. CASE painter[p].job = "withdraw"
  <2>1. ui' = Dead(u)
    BY <1>4 DEF Rests
  <2>2. Dead(u) \in UiType /\ Same(u, Dead(u)) /\ Dead(u).glass = u.glass
        /\ Ok(Dead(u), Noting', Withdrawing')
    BY <1>3, DeadOk
  <2> QED
    BY <1>2, <2>1, <2>2 DEF ScreenOk
<1>5. CASE painter[p].job # "withdraw"
  <2>1. ui' = u
    BY <1>5 DEF Rests
  <2>2. Withdrawing => Withdrawing'
    BY <1>2, <1>5 DEF Withdrawing, Painters
  <2>3. ReadyOk(u, Withdrawing')
    BY <2>2 DEF ReadyOk
  <2> QED
    BY <1>2, <1>3, <2>1, <2>3, SameRefl DEF ScreenOk, Ok
<1> QED
  BY <1>4, <1>5

\* A painter goes on to another place, its withdrawal still under way.
LEMMA GoesOk ==
  ASSUME TypeOK, NEW p \in Painters, NEW at \in Places, NEW screen \in Lasts, NEW job \in Jobs,
         Goes(p, at, screen, job), painter[p].job = "withdraw" => job = "withdraw"
  PROVE  /\ painter' \in [Painters -> AtWork]
         /\ \A q \in Painters \ {p} : painter'[q] = painter[q]
         /\ painter'[p] = [at |-> at, screen |-> screen, job |-> job]
         /\ Withdrawing => Withdrawing'
         /\ painter[p].at # "note" => (Noting => Noting')
         /\ at = "note" => Noting'
<1> DEFINE x == [at |-> at, screen |-> screen, job |-> job]
<1>1. x \in AtWork /\ x.at = at /\ x.job = job
  BY DEF AtWork
<1>2. painter' = [painter EXCEPT ![p] = x]
  BY DEF Goes
<1> HIDE DEF x
<1>3. /\ painter' \in [Painters -> AtWork] /\ painter'[p] = x
      /\ \A q \in Painters \ {p} : painter'[q] = painter[q]
      /\ OthersNote(p) => Noting'
      /\ x.at = "note" => Noting'
      /\ painter[p].at # "note" => (Noting => OthersNote(p))
  BY <1>1, <1>2, PainterMoves
<1>4. Withdrawing => Withdrawing'
  BY <1>1, <1>3 DEF Withdrawing, Painters
<1> QED
  BY <1>1, <1>3, <1>4 DEF x

LEMMA BeginsOk ==
  ASSUME TypeOK, Working, NEW p \in Painters, NEW u \in UiType, NEW screen \in Lasts,
         NEW job \in Jobs, Begins(p, screen, u, job), painter[p].at # "note",
         painter[p].job = "withdraw" => job = "withdraw",
         Ok(u, Noting, Withdrawing)
  PROVE  /\ ui' \in UiType /\ Same(u, ui') /\ ui'.glass = u.glass
         /\ painter' \in [Painters -> AtWork]
         /\ \A q \in Painters \ {p} : painter'[q] = painter[q]
         /\ \/ painter'[p] = Resting
            \/ painter'[p] = [at |-> "paint", screen |-> screen, job |-> job] /\ screen # "none"
         /\ ScreenOk'
<1>1. CASE screen = "none"
  <2>1. Rests(p, u)
    BY <1>1 DEF Begins
  <2>2. Noting => OthersNote(p)
    BY DEF Noting, OthersNote
  <2>3. CoverOk(u, OthersNote(p)) /\ ReadyOk(u, Withdrawing) /\ NamedOk(u)
    BY <2>2 DEF Ok, CoverOk
  <2> QED
    BY <2>1, <2>3, RestsOk
<1>2. CASE screen # "none"
  <2> DEFINE v == [u EXCEPT !.before = ShowReady(u).before]
  <2>1. /\ Goes(p, "paint", screen, job)
        /\ ui' = v \/ ui' = u
    BY <1>2 DEF Begins
  <2>2. "paint" \in Places
    BY DEF Places
  <2>3. /\ painter' \in [Painters -> AtWork]
        /\ \A q \in Painters \ {p} : painter'[q] = painter[q]
        /\ painter'[p] = [at |-> "paint", screen |-> screen, job |-> job]
        /\ Withdrawing => Withdrawing'
        /\ Noting => Noting'
    BY <2>1, <2>2, GoesOk
  <2>4. ShowReady(u).before \in Lasts \ {"ready"}
    BY ReadyScreen DEF UiType
  <2>5. v \in UiType /\ Same(u, v) /\ SameScreen(u, v)
    BY <2>4, SetBefore
  <2> HIDE DEF v
  <2>6. ui' \in UiType /\ Same(u, ui') /\ SameScreen(u, ui')
    BY <2>1, <2>5, SameRefl
  <2>7. Ok(ui', Noting, Withdrawing)
    BY <2>6, SameScreenOk
  <2>8. Ok(ui', Noting', Withdrawing')
    BY <2>3, <2>7, Weaken
  <2> QED
    BY <1>2, <2>3, <2>6, <2>8 DEF ScreenOk, SameScreen
<1> QED
  BY <1>1, <1>2

\* What a task decides to paint: READY only for a pending offer.
LEMMA Choices ==
  ASSUME NEW u \in UiType
  PROVE  /\ FaceOrOffer(u) \in Lasts /\ LastStatus(u) \in Lasts
         /\ FaceOrOffer(u) = "ready" => u.offer.pending
         /\ LastStatus(u) = "ready" => u.offer.pending
<1>1. FaceOrOffer(u) \in Lasts /\ (FaceOrOffer(u) = "ready" => u.offer.pending)
  BY RepaintOfferOutcome DEF FaceOrOffer, AskGate, Lasts
<1>2. CASE u.last \in {"qr", "paired", "waiting"}
  <2>1. LastStatus(u) = u.last
    BY <1>2 DEF LastStatus
  <2> QED
    BY <1>1, <1>2, <2>1 DEF Lasts
<1>3. CASE u.last = "face"
  <2>1. LastStatus(u) = FaceOrOffer(u)
    BY <1>3 DEF LastStatus
  <2> QED
    BY <1>1, <2>1
<1>4. CASE u.last \in {"none", "ready"}
  <2>1. LastStatus(u) = "none"
    BY <1>4 DEF LastStatus
  <2> QED
    BY <1>1, <2>1 DEF Lasts
<1> QED
  BY <1>2, <1>3, <1>4 DEF UiType, Lasts

\* A painter's step that keeps the screen leaves the rest of the invariant.
LEMMA PainterKeeps ==
  ASSUME IInv, NEW p \in Painters, UNCHANGED <<kept, run, posted>>,
         hold' \in {"up", "counting"}, hold' = "counting" => hold = "counting" /\ p # "button",
         ui' \in UiType, ScreenOk', ui.awake => ui'.awake, ui'.offer.pending => ui.offer.pending,
         ui'.glass = "ready" => ReadySomewhere,
         ui'.everOpen = ui.everOpen, ui'.promote = ui.promote,
         painter' \in [Painters -> AtWork],
         \A q \in Painters \ {p} : painter'[q] = painter[q],
         painter'[p].at = "gate" => painter'[p].job = "wake",
         painter'[p].at \in {"paint", "note"} => painter'[p].screen # "none",
         painter'[p].screen = "ready" => ReadySomewhere
  PROVE  IInv' /\ Latched
<1>1. TypeOK'
  <2>1. /\ cache \in Caches \cup {<<>>} /\ paired \in BOOLEAN /\ childKnown \in BOOLEAN
        /\ run \in Runs /\ posted \in Seq(Nat \ {0})
    BY TypeParts DEF IInv
  <2>2. /\ cache' \in Caches \cup {<<>>} /\ paired' \in BOOLEAN /\ childKnown' \in BOOLEAN
        /\ run' \in Runs /\ posted' \in Seq(Nat \ {0})
    BY <2>1 DEF kept
  <2> QED
    BY <2>2 DEF TypeOK, Runs, AtWork, Places, Jobs
<1>2. NeverBlankedMidStep' /\ Quiet'
  BY DEF IInv, NeverBlankedMidStep, Quiet
<1>3. ReadySomewhere' => ReadySomewhere
  BY DEF ReadySomewhere
<1>4. Known'
  BY <1>3 DEF IInv, Known, kept
<1>5. Working'
  BY DEF IInv, Working, Painters
<1>6. Latched
  BY DEF Latched, kept
<1> QED
  BY <1>1, <1>2, <1>4, <1>5, <1>6 DEF IInv

LEMMA WakeStep ==
  ASSUME IInv, NEW p \in Painters, Wake(p)
  PROVE  IInv' /\ Latched
<1>1. /\ painter[p] = Resting /\ (p = "button" => hold = "up")
      /\ ui' = [ui EXCEPT !.awake = TRUE] /\ Goes(p, "gate", "none", "wake")
      /\ UNCHANGED <<kept, run, posted, hold, budget>>
  BY DEF Wake, MayBegin
<1>2. /\ TypeOK /\ ui \in UiType /\ hold \in {"up", "counting"}
      /\ "gate" \in Places /\ "none" \in Lasts /\ "wake" \in Jobs
  BY TypeParts DEF IInv, Places, Lasts, Jobs
<1>3. /\ ui' \in UiType /\ ui'.awake /\ SameScreen(ui, ui') /\ ui'.offer = ui.offer
      /\ ui'.everOpen = ui.everOpen /\ ui'.promote = ui.promote
  BY <1>1, <1>2, SetAwake
<1>4. painter[p].at # "note" /\ painter[p].job # "withdraw"
  BY <1>1 DEF Resting
<1>5. /\ painter' \in [Painters -> AtWork]
      /\ \A q \in Painters \ {p} : painter'[q] = painter[q]
      /\ painter'[p] = [at |-> "gate", screen |-> "none", job |-> "wake"]
      /\ Withdrawing => Withdrawing'
      /\ Noting => Noting'
  BY <1>1, <1>2, <1>4, GoesOk
<1>6. Ok(ui', Noting, Withdrawing)
  BY <1>3 DEF IInv, ScreenOk, Ok, CoverOk, ReadyOk, NamedOk, SameScreen
<1>7. ScreenOk'
  BY <1>5, <1>6, Weaken DEF ScreenOk
<1>8. ui'.glass = "ready" => ReadySomewhere
  BY <1>3 DEF SameScreen, ReadySomewhere
<1>9. hold' = "counting" => hold = "counting" /\ p # "button"
  BY <1>1
<1>10. ui'.offer.pending = ui.offer.pending /\ UNCHANGED <<kept, run, posted>>
       /\ hold' \in {"up", "counting"}
  BY <1>1, <1>2, <1>3
<1>11. /\ painter'[p].at = "gate" /\ painter'[p].job = "wake"
       /\ painter'[p].screen = "none"
  BY <1>5
<1> QED
  BY <1>3, <1>5, <1>7, <1>8, <1>9, <1>10, <1>11, PainterKeeps

LEMMA WakeAsksStep ==
  ASSUME IInv, NEW p \in Painters, WakeAsks(p)
  PROVE  IInv' /\ Latched
<1> DEFINE screen == IF FaceOrOffer(ui) = "none" THEN LastStatus(ui) ELSE FaceOrOffer(ui)
<1>1. /\ painter[p].at = "gate" /\ Begins(p, screen, ui, "wake")
      /\ UNCHANGED <<kept, run, posted, hold, budget>>
  BY DEF WakeAsks
<1>2. TypeOK /\ Working /\ ui \in UiType /\ hold \in {"up", "counting"} /\ "wake" \in Jobs
  BY TypeParts DEF IInv, Jobs
<1>3. painter[p].job = "wake" /\ (p = "button" => hold # "counting")
  BY <1>1, <1>2 DEF Working, Resting
<1>4. screen \in Lasts /\ (screen = "ready" => ui.offer.pending)
  BY <1>2, Choices
<1>5. Ok(ui, Noting, Withdrawing)
  BY DEF IInv, ScreenOk
<1> HIDE DEF screen
<1>6. /\ ui' \in UiType /\ Same(ui, ui') /\ ui'.glass = ui.glass
      /\ painter' \in [Painters -> AtWork]
      /\ \A q \in Painters \ {p} : painter'[q] = painter[q]
      /\ \/ painter'[p] = Resting
         \/ painter'[p] = [at |-> "paint", screen |-> screen, job |-> "wake"] /\ screen # "none"
      /\ ScreenOk'
  BY <1>1, <1>2, <1>3, <1>4, <1>5, BeginsOk
<1>7. /\ painter'[p].at # "gate"
      /\ painter'[p].at \in {"paint", "note"} => painter'[p].screen # "none"
      /\ painter'[p].screen = "ready" => ReadySomewhere
  BY <1>4, <1>6 DEF Resting, ReadySomewhere
<1>8. ui'.glass = "ready" => ReadySomewhere
  BY <1>6 DEF ReadySomewhere
<1>9. /\ ui'.awake = ui.awake /\ ui'.offer.pending = ui.offer.pending
      /\ ui'.everOpen = ui.everOpen /\ ui'.promote = ui.promote
  BY <1>6 DEF Same
<1>10. hold' = "counting" => hold = "counting" /\ p # "button"
  BY <1>1, <1>3
<1> QED
  BY <1>1, <1>2, <1>6, <1>7, <1>8, <1>9, <1>10, PainterKeeps

LEMMA PaintUnlockedStep ==
  ASSUME IInv, NEW p \in Painters, PaintUnlocked(p)
  PROVE  IInv' /\ Latched
<1> DEFINE screen == painter[p].screen
           who == IF screen = "ready" THEN ui.offer.id ELSE NoOne
           v == Paint(ui, screen, who)
<1>1. /\ painter[p].at = "paint"
      /\ ui' = IF screen = "ready" THEN Dead(v) ELSE v
      /\ Goes(p, "note", screen, painter[p].job)
      /\ UNCHANGED <<kept, run, posted, hold, budget>>
  BY DEF PaintUnlocked
<1>2. TypeOK /\ Working /\ ui \in UiType /\ hold \in {"up", "counting"} /\ painter[p] \in AtWork
  BY TypeParts DEF IInv
<1>3. screen \in Lasts \ {"none"} /\ painter[p].job \in Jobs /\ "note" \in Places
  BY <1>1, <1>2 DEF AtWork, Working, Places
<1>4. who \in Routines \cup {NoOne}
  <2>1. ui.offer \in Offers
    BY <1>2, OfferField
  <2> QED
    BY <2>1 DEF Offers
<1>5. screen \in Screens
  BY <1>3 DEF Screens
<1>6. screen = "ready" => who = ui.offer.id
  OBVIOUS
<1>7. screen = "ready" => ReadySomewhere
  BY DEF ReadySomewhere
<1> HIDE DEF screen, who
<1>8. /\ v \in UiType /\ Same(ui, v) /\ v.glass = screen /\ v.shown = who
      /\ v.last = ui.last /\ v.offer = ui.offer
  BY <1>2, <1>4, <1>5, PaintScreen
<1> HIDE DEF v
<1>9. /\ painter' \in [Painters -> AtWork]
      /\ \A q \in Painters \ {p} : painter'[q] = painter[q]
      /\ painter'[p] = [at |-> "note", screen |-> screen, job |-> painter[p].job]
      /\ Withdrawing => Withdrawing'
      /\ Noting'
  BY <1>1, <1>2, <1>3, GoesOk
<1>10. CoverOk(v, Noting') /\ NamedOk(v)
  BY <1>6, <1>8, <1>9 DEF CoverOk, NamedOk
<1>11. CASE screen = "ready"
  <2>1. ui' = Dead(v)
    BY <1>1, <1>11
  <2>2. /\ Dead(v) \in UiType /\ Same(v, Dead(v)) /\ Ok(Dead(v), Noting', Withdrawing')
        /\ Dead(v).glass = v.glass
    BY <1>8, <1>10, DeadOk
  <2>3. ui' \in UiType /\ Same(ui, ui') /\ ScreenOk' /\ ui'.glass = screen
    BY <1>8, <2>1, <2>2 DEF ScreenOk, Same
  <2> QED
    BY <1>1, <1>2, <1>3, <1>7, <1>9, <2>3, PainterKeeps DEF Same, Working, Resting
<1>12. CASE screen # "ready"
  <2>1. ui' = v
    BY <1>1, <1>12
  <2>2. ReadyOk(v, Withdrawing')
    BY <1>8, <1>12 DEF ReadyOk
  <2>3. ui' \in UiType /\ Same(ui, ui') /\ ScreenOk' /\ ui'.glass # "ready"
    BY <1>8, <1>10, <1>12, <2>1, <2>2 DEF ScreenOk, Ok
  <2> QED
    BY <1>1, <1>2, <1>3, <1>7, <1>9, <2>3, PainterKeeps DEF Same, Working, Resting
<1> QED
  BY <1>11, <1>12

\* What a task notes: it is not READY, or READY is up, or the note was late.
\* What a task notes of the screen it has painted.
NotedAs(u, screen) == [u EXCEPT !.last = screen, !.late = u.glass # screen,
                                !.offer.painted = @ \/ screen = "ready"]

LEMMA Noted ==
  ASSUME NEW w, NEW u \in UiType, ReadyOk(u, w), NamedOk(u), NEW screen \in Lasts
  PROVE  /\ NotedAs(u, screen) \in UiType /\ Same(u, NotedAs(u, screen))
         /\ NotedAs(u, screen).glass = u.glass
         /\ CoverOk(NotedAs(u, screen), FALSE) /\ ReadyOk(NotedAs(u, screen), w)
         /\ NamedOk(NotedAs(u, screen))
<1> DEFINE l == u.glass # screen
           b == u.offer.painted \/ screen = "ready"
           o == [u.offer EXCEPT !.painted = b]
           v == [u EXCEPT !.last = screen, !.late = l, !.offer = o]
<1>1. l \in BOOLEAN /\ b \in BOOLEAN
  OBVIOUS
<1>2. NotedAs(u, screen) = v
  BY DEF UiType, NotedAs
<1>3. l = (u.glass # screen)
  OBVIOUS
<1>4. u.offer \in Offers
  BY OfferField
<1> HIDE DEF l, b
<1>5. o \in Offers /\ o.pending = u.offer.pending /\ o.idx = u.offer.idx /\ o.id = u.offer.id
  BY <1>1, <1>4 DEF Offers
<1> HIDE DEF o
<1>6. v \in UiType
  BY <1>1, <1>5 DEF UiType, Offers
<1>7. /\ v.last = screen /\ v.late = l /\ v.offer = o /\ v.glass = u.glass /\ v.shown = u.shown
      /\ v.dead = u.dead /\ v.awake = u.awake /\ v.everOpen = u.everOpen /\ v.promote = u.promote
  BY DEF UiType
<1> HIDE DEF v
<1>8. CoverOk(v, FALSE)
  BY <1>3, <1>7 DEF CoverOk
<1>9. ReadyOk(v, w) /\ NamedOk(v)
  BY <1>5, <1>7 DEF ReadyOk, NamedOk
<1>10. Same(u, v)
  BY <1>5, <1>7 DEF Same
<1> QED
  BY <1>2, <1>6, <1>7, <1>8, <1>9, <1>10

LEMMA NoteStep ==
  ASSUME IInv, NEW p \in Painters, Note(p)
  PROVE  IInv' /\ Latched
<1> DEFINE screen == painter[p].screen
           v == NotedAs(ui, screen)
<1>1. /\ painter[p].at = "note" /\ Rests(p, v)
      /\ UNCHANGED <<kept, run, posted, hold, budget>>
  BY DEF Note, NotedAs
<1>2. TypeOK /\ Working /\ ui \in UiType /\ hold \in {"up", "counting"} /\ painter[p] \in AtWork
  BY TypeParts DEF IInv
<1>3. screen \in Lasts
  BY <1>2 DEF AtWork
<1>4. ReadyOk(ui, Withdrawing) /\ NamedOk(ui)
  BY DEF IInv, ScreenOk, Ok
<1>5. /\ v \in UiType /\ Same(ui, v) /\ v.glass = ui.glass
      /\ CoverOk(v, FALSE) /\ ReadyOk(v, Withdrawing) /\ NamedOk(v)
  BY <1>2, <1>3, <1>4, Noted
<1> HIDE DEF v
<1>6. CoverOk(v, OthersNote(p))
  BY <1>5 DEF CoverOk
<1>7. /\ ui' \in UiType /\ Same(v, ui') /\ ui'.glass = v.glass
      /\ painter' \in [Painters -> AtWork]
      /\ \A q \in Painters \ {p} : painter'[q] = painter[q]
      /\ painter'[p] = Resting
      /\ ScreenOk'
  BY <1>1, <1>2, <1>5, <1>6, RestsOk
<1>8. ui'.glass = "ready" => ReadySomewhere
  BY <1>5, <1>7 DEF ReadySomewhere
<1>9. /\ ui'.awake = ui.awake /\ ui'.offer.pending = ui.offer.pending
      /\ ui'.everOpen = ui.everOpen /\ ui'.promote = ui.promote
  BY <1>5, <1>7 DEF Same
<1>10. painter'[p].at = "idle" /\ painter'[p].screen = "none"
  BY <1>7 DEF Resting
<1>11. hold' = "counting" => hold = "counting" /\ p # "button"
  BY <1>1, <1>2 DEF Working, Resting
<1> QED
  BY <1>1, <1>2, <1>7, <1>8, <1>9, <1>10, <1>11, PainterKeeps

LEMMA CancelReadyStep ==
  ASSUME IInv, CancelReady
  PROVE  IInv' /\ Latched
<1>1. /\ painter["sched"] = Resting /\ Goes("sched", "clear", "none", "withdraw")
      /\ UNCHANGED <<kept, ui, run, posted, hold, budget>>
  BY DEF CancelReady, MayBegin
<1>2. /\ TypeOK /\ ui \in UiType /\ hold \in {"up", "counting"} /\ "sched" \in Painters
      /\ "clear" \in Places /\ "none" \in Lasts /\ "withdraw" \in Jobs
  BY TypeParts DEF IInv, Places, Lasts, Jobs, Painters
<1>3. painter["sched"].at # "note"
  BY <1>1 DEF Resting
<1>4. /\ painter' \in [Painters -> AtWork]
      /\ \A q \in Painters \ {"sched"} : painter'[q] = painter[q]
      /\ painter'["sched"] = [at |-> "clear", screen |-> "none", job |-> "withdraw"]
      /\ Withdrawing => Withdrawing'
      /\ Noting => Noting'
  BY <1>1, <1>2, <1>3, GoesOk
<1>5. ScreenOk'
  BY <1>1, <1>4, Weaken DEF IInv, ScreenOk
<1>6. ui.glass = "ready" => ReadySomewhere
  BY DEF ReadySomewhere
<1> QED
  BY <1>1, <1>2, <1>4, <1>5, <1>6, PainterKeeps

LEMMA CancelClearsStep ==
  ASSUME IInv, CancelClears
  PROVE  IInv' /\ Latched
<1>1. /\ painter["sched"].at = "clear" /\ Goes("sched", "dismiss", "none", "withdraw")
      /\ ui' = [ui EXCEPT !.offer = NoOffer]
      /\ UNCHANGED <<kept, run, posted, hold, budget>>
  BY DEF CancelClears
<1>2. /\ TypeOK /\ ui \in UiType /\ hold \in {"up", "counting"} /\ "sched" \in Painters
      /\ "dismiss" \in Places /\ "none" \in Lasts /\ "withdraw" \in Jobs
  BY TypeParts DEF IInv, Places, Lasts, Jobs, Painters
<1>3. /\ painter' \in [Painters -> AtWork]
      /\ \A q \in Painters \ {"sched"} : painter'[q] = painter[q]
      /\ painter'["sched"] = [at |-> "dismiss", screen |-> "none", job |-> "withdraw"]
  BY <1>1, <1>2, GoesOk
<1>4. /\ ui' \in UiType /\ ~ui'.offer.pending /\ SameScreen(ui, ui') /\ ui'.awake = ui.awake
      /\ ui'.everOpen = ui.everOpen /\ ui'.promote = ui.promote
  BY <1>1, <1>2, ClearOffer
<1>5. CoverOk(ui', Noting') /\ NamedOk(ui')
  BY <1>4, NoOfferOk
<1>6. Withdrawing'
  BY <1>3 DEF Withdrawing
<1>7. ScreenOk'
  BY <1>5, <1>6 DEF ScreenOk, Ok, ReadyOk
<1>8. ui'.glass = "ready" => ReadySomewhere
  BY <1>4 DEF ReadySomewhere, SameScreen
<1> QED
  BY <1>1, <1>2, <1>3, <1>4, <1>7, <1>8, PainterKeeps

LEMMA CancelDismissesStep ==
  ASSUME IInv, CancelDismisses
  PROVE  IInv' /\ Latched
<1> DEFINE u == [ui EXCEPT !.last = ui.before]
           screen == IF u.last = "none" THEN FaceOrOffer(u) ELSE LastStatus(u)
<1>1. /\ painter["sched"].at = "dismiss"
      /\ UNCHANGED <<kept, run, posted, hold, budget>>
      /\ IF ui.last # "ready" THEN Rests("sched", ui) ELSE Begins("sched", screen, u, "withdraw")
  BY DEF CancelDismisses
<1>2. /\ TypeOK /\ Working /\ ui \in UiType /\ hold \in {"up", "counting"}
      /\ "sched" \in Painters /\ "withdraw" \in Jobs
  BY TypeParts DEF IInv, Jobs, Painters
<1>3. Ok(ui, Noting, Withdrawing)
  BY DEF IInv, ScreenOk
<1>4. CASE ui.last # "ready"
  <2>1. Rests("sched", ui)
    BY <1>1, <1>4
  <2>2. Noting => OthersNote("sched")
    BY <1>1 DEF Noting, OthersNote
  <2>3. CoverOk(ui, OthersNote("sched")) /\ ReadyOk(ui, Withdrawing) /\ NamedOk(ui)
    BY <1>3, <2>2 DEF Ok, CoverOk
  <2>4. /\ ui' \in UiType /\ Same(ui, ui') /\ ui'.glass = ui.glass
        /\ painter' \in [Painters -> AtWork]
        /\ \A q \in Painters \ {"sched"} : painter'[q] = painter[q]
        /\ painter'["sched"] = Resting /\ ScreenOk'
    BY <1>2, <2>1, <2>3, RestsOk
  <2>5. ui'.glass = "ready" => ReadySomewhere
    BY <2>4 DEF ReadySomewhere
  <2>6. painter'["sched"].at = "idle" /\ painter'["sched"].screen = "none"
    BY <2>4 DEF Resting
  <2> QED
    BY <1>1, <1>2, <2>4, <2>5, <2>6, PainterKeeps DEF Same
<1>5. CASE ui.last = "ready"
  <2>1. Begins("sched", screen, u, "withdraw")
    BY <1>1, <1>5
  <2>2. ui.before \in Lasts \ {"ready"}
    BY <1>2 DEF UiType
  <2>3. /\ u \in UiType /\ Same(ui, u) /\ u.last = ui.before /\ u.offer = ui.offer
        /\ u.glass = ui.glass /\ u.shown = ui.shown /\ u.dead = ui.dead
    BY <1>2, <2>2, SetLast
  <2>4. Ok(u, Noting, Withdrawing)
    BY <1>3, <2>2, <2>3 DEF Ok, CoverOk, ReadyOk, NamedOk
  <2> HIDE DEF u
  <2>5. screen \in Lasts /\ (screen = "ready" => ui.offer.pending)
    BY <2>3, Choices
  <2> HIDE DEF screen
  <2>6. /\ ui' \in UiType /\ Same(u, ui') /\ ui'.glass = u.glass
        /\ painter' \in [Painters -> AtWork]
        /\ \A q \in Painters \ {"sched"} : painter'[q] = painter[q]
        /\ \/ painter'["sched"] = Resting
           \/ /\ painter'["sched"] = [at |-> "paint", screen |-> screen, job |-> "withdraw"]
              /\ screen # "none"
        /\ ScreenOk'
    BY <1>1, <1>2, <2>1, <2>3, <2>4, <2>5, BeginsOk
  <2>7. /\ painter'["sched"].at # "gate"
        /\ painter'["sched"].at \in {"paint", "note"} => painter'["sched"].screen # "none"
        /\ painter'["sched"].screen = "ready" => ReadySomewhere
    BY <2>5, <2>6 DEF Resting, ReadySomewhere
  <2>8. ui'.glass = "ready" => ReadySomewhere
    BY <2>3, <2>6 DEF ReadySomewhere
  <2>9. /\ ui'.awake = ui.awake /\ ui'.offer.pending = ui.offer.pending
        /\ ui'.everOpen = ui.everOpen /\ ui'.promote = ui.promote
    BY <2>3, <2>6 DEF Same
  <2> QED
    BY <1>1, <1>2, <2>6, <2>7, <2>8, <2>9, PainterKeeps
<1> QED
  BY <1>4, <1>5

LEMMA ReleaseStep ==
  ASSUME IInv, Release
  PROVE  IInv' /\ Latched
<1> DEFINE u == [ui EXCEPT !.prompt = FALSE]
           screen == IF ui.prompt THEN LastStatus(u) ELSE "none"
<1>1. /\ hold = "counting" /\ hold' = "up" /\ Begins("button", screen, u, "restore")
      /\ UNCHANGED <<kept, run, posted, budget>>
  BY DEF Release
<1>2. /\ TypeOK /\ Working /\ ui \in UiType /\ "button" \in Painters /\ "restore" \in Jobs
  BY TypeParts DEF IInv, Jobs, Painters
<1>3. painter["button"].at # "note" /\ painter["button"].job # "withdraw"
  BY <1>1, <1>2 DEF Working, Resting
<1>4. u \in UiType /\ Same(ui, u) /\ SameScreen(ui, u)
  BY <1>2, SetPrompt
<1>5. Ok(u, Noting, Withdrawing)
  BY <1>4, SameScreenOk DEF IInv, ScreenOk
<1> HIDE DEF u
<1>6. screen \in Lasts /\ (screen = "ready" => ui.offer.pending)
  BY <1>4, Choices DEF Same, Lasts
<1> HIDE DEF screen
<1>7. /\ ui' \in UiType /\ Same(u, ui') /\ ui'.glass = u.glass
      /\ painter' \in [Painters -> AtWork]
      /\ \A q \in Painters \ {"button"} : painter'[q] = painter[q]
      /\ \/ painter'["button"] = Resting
         \/ /\ painter'["button"] = [at |-> "paint", screen |-> screen, job |-> "restore"]
            /\ screen # "none"
      /\ ScreenOk'
  BY <1>1, <1>2, <1>3, <1>4, <1>5, <1>6, BeginsOk
<1>8. /\ painter'["button"].at # "gate"
      /\ painter'["button"].at \in {"paint", "note"} => painter'["button"].screen # "none"
      /\ painter'["button"].screen = "ready" => ReadySomewhere
  BY <1>6, <1>7 DEF Resting, ReadySomewhere
<1>9. ui'.glass = "ready" => ReadySomewhere
  BY <1>4, <1>7 DEF ReadySomewhere, SameScreen
<1>10. /\ ui'.awake = ui.awake /\ ui'.offer.pending = ui.offer.pending
       /\ ui'.everOpen = ui.everOpen /\ ui'.promote = ui.promote
  BY <1>4, <1>7 DEF Same
<1> QED
  BY <1>1, <1>2, <1>7, <1>8, <1>9, <1>10, PainterKeeps

-----------------------------------------------------------------------------
(***************************************************************************)
(* The handlers on LVGL, the button and the phone.                         *)
(***************************************************************************)
LEMMA HandlerKeeps ==
  ASSUME IInv, UNCHANGED <<cache, paired, childKnown, painter>>,
         hold' \in {"up", "counting"}, hold' = "counting" => painter["button"] = Resting,
         posted' \in Seq(Nat \ {0}), posted' # <<>> => cache # <<>> \/ posted # <<>>,
         run' \in Runs, ui' \in UiType, Ok(ui', Noting, Withdrawing),
         run'.active => ui'.awake /\ ~ui'.offer.pending,
         ui'.offer.pending \/ ui'.glass = "ready" => posted # <<>> \/ ReadySomewhere
  PROVE  IInv'
<1>1. TypeOK'
  <2>1. /\ cache \in Caches \cup {<<>>} /\ paired \in BOOLEAN /\ childKnown \in BOOLEAN
        /\ painter \in [Painters -> AtWork]
    BY TypeParts DEF IInv
  <2>2. /\ cache' \in Caches \cup {<<>>} /\ paired' \in BOOLEAN /\ childKnown' \in BOOLEAN
        /\ painter' \in [Painters -> AtWork]
    BY <2>1
  <2> QED
    BY <2>2 DEF TypeOK, Runs, AtWork, Places, Jobs
<1>2. ScreenOk'
  BY SamePainters DEF ScreenOk
<1>3. NeverBlankedMidStep' /\ Quiet'
  BY DEF NeverBlankedMidStep, Quiet
<1>4. ReadySomewhere' => posted # <<>> \/ ReadySomewhere
  BY DEF ReadySomewhere
<1>5. Known'
  BY <1>4 DEF IInv, Known
<1>6. Working'
  BY DEF IInv, Working
<1> QED
  BY <1>1, <1>2, <1>3, <1>5, <1>6 DEF IInv

LEMMA InvParts ==
  ASSUME IInv
  PROVE  /\ TypeOK /\ ui \in UiType /\ run \in Runs /\ posted \in Seq(Nat \ {0})
         /\ hold \in {"up", "counting"} /\ Ok(ui, Noting, Withdrawing)
         /\ run.active => ui.awake /\ ~ui.offer.pending
         /\ hold = "counting" => painter["button"] = Resting
         /\ ui.offer.pending \/ ui.glass = "ready" => ReadySomewhere
BY TypeParts DEF IInv, ScreenOk, NeverBlankedMidStep, Quiet, Working, ReadySomewhere

LEMMA IdleTickStep ==
  ASSUME IInv, NEW sleepy \in BOOLEAN, IdleTick(sleepy)
  PROVE  /\ IInv'
         /\ \E noticed, promotes \in BOOLEAN :
              /\ promotes => ui.promote
              /\ GateNoticed(ui, ui'.everOpen, noticed)
              /\ ui'.promote = (noticed /\ ~promotes)
              /\ promotions' = IF promotes THEN promotions + 1 ELSE promotions
<1>1. /\ ~run.active
      /\ UNCHANGED <<cache, paired, childKnown, run, posted, hold, painter, budget>>
  BY DEF IdleTick, Suspended
<1>2. PICK noticed \in BOOLEAN, promotes \in BOOLEAN :
        /\ ui' \in UiType /\ Ok(ui', Noting, Withdrawing)
        /\ ui'.offer.pending = ui.offer.pending
        /\ ui'.glass = "ready" => ui.glass = "ready" \/ ui.offer.pending
        /\ promotes => ui.promote
        /\ GateNoticed(ui, ui'.everOpen, noticed)
        /\ ui'.promote = (noticed /\ ~promotes)
        /\ promotions' = IF promotes THEN promotions + 1 ELSE promotions
  BY InvParts, TickOk
<1>3. ~run'.active /\ run' \in Runs /\ posted' \in Seq(Nat \ {0}) /\ hold' \in {"up", "counting"}
  BY <1>1, InvParts
<1>4. IInv'
  BY <1>1, <1>2, <1>3, InvParts, HandlerKeeps
<1> QED
  BY <1>2, <1>4

LEMMA RequestStartStep ==
  ASSUME IInv, NEW id \in Routines, RequestStart(id)
  PROVE  IInv' /\ Latched
<1>1. PICK i \in Cached(id) : posted' = Append(posted, i)
  BY DEF RequestStart
<1>2. UNCHANGED <<cache, paired, childKnown, promotions, ui, run, hold, painter>>
  BY DEF RequestStart, kept
<1>3. i \in DOMAIN cache
  BY DEF Cached
<1>4. i \in Nat \ {0} /\ cache # <<>>
  BY <1>3, InvParts, CacheEntries
<1>5. posted' \in Seq(Nat \ {0})
  BY <1>1, <1>4, InvParts
<1> QED
  BY <1>2, <1>4, <1>5, InvParts, HandlerKeeps DEF Latched

LEMMA DeferredOfferStep ==
  ASSUME IInv, DeferredOffer
  PROVE  IInv' /\ Latched
<1>1. /\ posted # <<>> /\ posted' = Tail(posted)
      /\ UNCHANGED <<cache, paired, childKnown, promotions, run, hold, painter>>
      /\ ui' = IF ~run.active /\ Has(Head(posted), 0) THEN Offered(ui, Head(posted)) ELSE ui
  BY DEF DeferredOffer, kept
<1>2. posted' \in Seq(Nat \ {0})
  BY <1>1, InvParts
<1>3. CASE ~run.active /\ Has(Head(posted), 0)
  <2>1. Head(posted) \in DOMAIN cache
    BY <1>3 DEF Has
  <2>2. ui' = Offered(ui, Head(posted))
    BY <1>1, <1>3
  <2>3. /\ ui' \in UiType /\ ui'.awake /\ Ok(ui', Noting, Withdrawing)
        /\ ui'.everOpen = ui.everOpen /\ ui'.promote = ui.promote
    BY <2>1, <2>2, InvParts, OfferedOk
  <2>4. ~run'.active
    BY <1>1, <1>3
  <2> QED
    BY <1>1, <1>2, <2>3, <2>4, InvParts, HandlerKeeps DEF Latched
<1>4. CASE ~(~run.active /\ Has(Head(posted), 0))
  <2>1. ui' = ui
    BY <1>1, <1>4
  <2> QED
    BY <1>1, <1>2, <2>1, InvParts, HandlerKeeps DEF Latched
<1> QED
  BY <1>3, <1>4

LEMMA TapStartStep ==
  ASSUME IInv, TapStart
  PROVE  IInv' /\ Latched
<1> DEFINE u == [ui EXCEPT !.offer = NoOffer]
           i == ui.offer.idx
<1>1. /\ ui.awake /\ ui.glass = "ready" /\ Start(u, i)
      /\ UNCHANGED <<cache, paired, childKnown, promotions, posted, hold, painter>>
  BY DEF TapStart, Touchable, kept
<1>2. /\ u \in UiType /\ ~u.offer.pending /\ SameScreen(ui, u) /\ u.awake = ui.awake
      /\ u.everOpen = ui.everOpen /\ u.promote = ui.promote
  BY InvParts, ClearOffer
<1>3. ReadySomewhere
  BY <1>1 DEF ReadySomewhere
<1>4. CASE Has(i, 0)
  <2>1. i \in DOMAIN cache
    BY <1>4 DEF Has
  <2>2. cache[i].id \in Routines /\ i \in Nat \ {0} /\ cache[i].steps \in Nat
    BY <2>1, InvParts, CacheEntries
  <2>3. /\ run' = [active |-> TRUE, idx |-> i, step |-> 0, count |-> cache[i].steps,
                   id |-> cache[i].id]
        /\ ui' = ShowStep(u, cache[i].id)
    BY <1>1, <1>4 DEF Start
  <2>4. run' \in Runs
    BY <2>2, <2>3 DEF Runs
  <2> HIDE DEF u
  <2>5. ui' \in UiType /\ Same(u, ui') /\ ui'.glass = "step"
    BY <1>2, <2>2, <2>3, StepScreen
  <2>6. /\ ui'.awake /\ ~ui'.offer.pending
        /\ ui'.everOpen = ui.everOpen /\ ui'.promote = ui.promote
    BY <1>1, <1>2, <2>5 DEF Same
  <2>7. Ok(ui', Noting, Withdrawing)
    BY <2>5, <2>6, NotReadyOk
  <2> QED
    BY <1>1, <1>3, <2>4, <2>5, <2>6, <2>7, InvParts, HandlerKeeps DEF Latched
<1>5. CASE ~Has(i, 0)
  <2> HIDE DEF u
  <2>1. run' = run /\ ui' = Dead(ShowLast(u))
    BY <1>1, <1>5 DEF Start
  <2>2. Repainted(u, ShowLast(u))
    BY <1>2, ShowLastOutcome
  <2>3. ShowLast(u) \in UiType /\ Same(u, ShowLast(u))
    BY <1>2, <2>2, RepaintedType
  <2>4. ~ShowLast(u).offer.pending
    BY <1>2, <2>3 DEF Same
  <2>5. /\ ui' \in UiType /\ Same(ShowLast(u), ui') /\ Ok(ui', Noting, Withdrawing)
    BY <2>1, <2>3, <2>4, NoOfferOk, DeadOk
  <2>6. /\ ui'.awake /\ ~ui'.offer.pending
        /\ ui'.everOpen = ui.everOpen /\ ui'.promote = ui.promote
    BY <1>1, <1>2, <2>3, <2>5 DEF Same
  <2> QED
    BY <1>1, <1>3, <2>1, <2>5, <2>6, InvParts, HandlerKeeps DEF Latched
<1> QED
  BY <1>4, <1>5

LEMMA TapNotNowStep ==
  ASSUME IInv, TapNotNow
  PROVE  IInv' /\ Latched
<1> DEFINE u == [ui EXCEPT !.offer = NoOffer]
<1>1. /\ ui.glass = "ready" /\ ui' = DismissReady(u)
      /\ UNCHANGED <<cache, paired, childKnown, promotions, run, posted, hold, painter>>
  BY DEF TapNotNow, Touchable, kept
<1>2. /\ u \in UiType /\ ~u.offer.pending /\ u.awake = ui.awake
      /\ u.everOpen = ui.everOpen /\ u.promote = ui.promote
  BY InvParts, ClearOffer
<1>3. ReadySomewhere /\ paired /\ childKnown
  BY <1>1 DEF ReadySomewhere, IInv, Known
<1> HIDE DEF u
<1>4. ui' \in UiType /\ Same(u, ui') /\ Ok(ui', Noting, Withdrawing)
  BY <1>1, <1>2, <1>3, DismissOk
<1>5. /\ ui'.awake = ui.awake /\ ~ui'.offer.pending
      /\ ui'.everOpen = ui.everOpen /\ ui'.promote = ui.promote
  BY <1>2, <1>4 DEF Same
<1> QED
  BY <1>1, <1>3, <1>4, <1>5, InvParts, HandlerKeeps DEF Latched

LEMMA TapStepStep ==
  ASSUME IInv, TapStep
  PROVE  IInv' /\ Latched
<1>1. /\ ui.awake /\ ui.glass = "step" /\ run.active
      /\ run' = IF LastStep THEN NoRun ELSE [run EXCEPT !.step = @ + 1]
      /\ ui' = IF LastStep THEN ShowComplete(ui) ELSE ShowStep(ui, cache[run.idx].id)
      /\ UNCHANGED <<cache, paired, childKnown, promotions, posted, hold, painter>>
  BY DEF TapStep, Touchable, kept
<1>2. ~ui.offer.pending /\ run \in Runs
  BY <1>1, InvParts
<1>3. CASE LastStep
  <2>1. run' = NoRun /\ ui' = Paint(ui, "complete", NoOne)
    BY <1>1, <1>3 DEF ShowComplete
  <2>2. run' \in Runs /\ ~run'.active
    BY <2>1, NoneType DEF NoRun
  <2>3. ui' \in UiType /\ Same(ui, ui') /\ ui'.glass = "complete"
    <3>1. "complete" \in Screens /\ ui \in UiType
      BY InvParts DEF Screens
    <3> QED
      BY <2>1, <3>1, PaintScreen
  <2>4. /\ ~ui'.offer.pending /\ ui'.everOpen = ui.everOpen /\ ui'.promote = ui.promote
    BY <1>2, <2>3 DEF Same
  <2>5. Ok(ui', Noting, Withdrawing)
    BY <2>3, <2>4, NotReadyOk
  <2> QED
    BY <1>1, <2>2, <2>3, <2>4, <2>5, InvParts, HandlerKeeps DEF Latched
<1>4. CASE ~LastStep
  <2>1. run.idx \in DOMAIN cache
    BY <1>4 DEF LastStep, Has
  <2>2. cache[run.idx].id \in Routines
    BY <2>1, InvParts, CacheEntries
  <2>3. run' = [run EXCEPT !.step = @ + 1] /\ ui' = ShowStep(ui, cache[run.idx].id)
    BY <1>1, <1>4
  <2>4. run' \in Runs
    BY <1>2, <2>3 DEF Runs
  <2>5. ui' \in UiType /\ Same(ui, ui') /\ ui'.glass = "step"
    BY <2>2, <2>3, InvParts, StepScreen
  <2>6. /\ ui'.awake /\ ~ui'.offer.pending
        /\ ui'.everOpen = ui.everOpen /\ ui'.promote = ui.promote
    BY <1>1, <1>2, <2>5 DEF Same
  <2>7. Ok(ui', Noting, Withdrawing)
    BY <2>5, <2>6, NotReadyOk
  <2> QED
    BY <1>1, <2>4, <2>5, <2>6, <2>7, InvParts, HandlerKeeps DEF Latched
<1> QED
  BY <1>3, <1>4

LEMMA CountdownStep ==
  ASSUME IInv, HoldArm \/ HoldPoll
  PROVE  IInv' /\ Latched
<1>1. /\ ui' = ShowCountdown(ui) /\ hold' = "counting"
      /\ UNCHANGED <<cache, paired, childKnown, promotions, run, posted, painter>>
  BY DEF HoldArm, HoldPoll, kept
<1>2. painter["button"] = Resting
  BY InvParts DEF HoldArm, HoldPoll, MayBegin
<1>3. ui' \in UiType /\ Same(ui, ui') /\ ui'.glass = "countdown"
  BY <1>1, InvParts, CountdownScreen
<1>4. Ok(ui', Noting, Withdrawing)
  BY <1>3, NotReadyOk
<1>5. /\ ui'.awake = ui.awake /\ ui'.offer.pending = ui.offer.pending
      /\ ui'.everOpen = ui.everOpen /\ ui'.promote = ui.promote
  BY <1>3 DEF Same
<1> QED
  BY <1>1, <1>2, <1>3, <1>4, <1>5, InvParts, HandlerKeeps DEF Latched

LEMMA PairStep ==
  ASSUME IInv, Pair
  PROVE  IInv' /\ Latched
<1>1. /\ ~paired /\ paired' = TRUE
      /\ UNCHANGED <<cache, childKnown, ui, run, posted, hold, painter, promotions>>
  BY DEF Pair
<1>2. TypeOK'
  BY <1>1 DEF IInv, TypeOK
<1>3. ScreenOk'
  BY <1>1, SamePainters DEF IInv, ScreenOk
<1>4. NeverBlankedMidStep' /\ Quiet' /\ Working'
  BY <1>1 DEF IInv, NeverBlankedMidStep, Quiet, Working
<1>5. Known'
  BY <1>1 DEF IInv, Known, ReadySomewhere
<1> QED
  BY <1>1, <1>2, <1>3, <1>4, <1>5 DEF IInv, Latched

LEMMA PushStep ==
  ASSUME IInv, NEW c \in Caches, Push(c)
  PROVE  IInv' /\ Latched
<1>1. /\ cache' = c /\ childKnown' = TRUE /\ paired' = TRUE
      /\ painter["host"] = Resting /\ Goes("host", "note", "paired", "push")
      /\ ui' = Paint(ui, "paired", NoOne) /\ UNCHANGED <<run, posted, hold, promotions>>
  BY DEF Push, MayBegin
<1>2. /\ TypeOK /\ ui \in UiType /\ "host" \in Painters /\ "note" \in Places
      /\ "paired" \in Lasts \cap Screens /\ "push" \in Jobs
  BY InvParts DEF Painters, Places, Lasts, Screens, Jobs
<1>3. ui' \in UiType /\ Same(ui, ui') /\ ui'.glass = "paired"
  BY <1>1, <1>2, PaintScreen
<1>4. painter["host"].job # "withdraw"
  BY <1>1 DEF Resting
<1>5. /\ painter' \in [Painters -> AtWork]
      /\ \A q \in Painters \ {"host"} : painter'[q] = painter[q]
      /\ painter'["host"] = [at |-> "note", screen |-> "paired", job |-> "push"]
      /\ Noting'
  BY <1>1, <1>2, <1>4, GoesOk
<1>6. ScreenOk'
  BY <1>3, <1>5, NotReadyOk DEF ScreenOk
<1>7. TypeOK'
  <2>1. /\ cache' \in Caches \cup {<<>>} /\ paired' \in BOOLEAN /\ childKnown' \in BOOLEAN
        /\ run' \in Runs /\ posted' \in Seq(Nat \ {0}) /\ hold' \in {"up", "counting"}
    BY <1>1, InvParts
  <2> QED
    BY <1>3, <1>5, <2>1 DEF TypeOK, Runs, AtWork, Places, Jobs
<1>8. NeverBlankedMidStep' /\ Quiet'
  BY <1>1, <1>3 DEF IInv, NeverBlankedMidStep, Quiet, Same
<1>9. Known'
  BY <1>1 DEF Known
<1>10. Working'
  BY <1>1, <1>5 DEF IInv, Working, Painters
<1>11. Latched
  BY <1>1, <1>3 DEF Latched, Same
<1> QED
  BY <1>6, <1>7, <1>8, <1>9, <1>10, <1>11 DEF IInv

\* A watch at rest on one of its boot screens.
LEMMA BootOk ==
  ASSUME NEW s \in {"qr", "waiting", "face"}
  PROVE  LET u == BootScreen(s)
         IN  /\ u \in UiType /\ u.glass = s /\ ~u.offer.pending
             /\ \A n, w : Ok(u, n, w)
             /\ ~u.promote /\ (u.everOpen <=> s = "face")
<1>1. BootScreen(s) \in UiType
  BY NoneType
<1>2. /\ BootScreen(s).glass = s /\ ~BootScreen(s).offer.pending
      /\ ~BootScreen(s).promote /\ (BootScreen(s).everOpen <=> s = "face")
  BY DEF BootScreen, NoOffer
<1>3. ASSUME NEW n, NEW w PROVE Ok(BootScreen(s), n, w)
  BY <1>2, NotReadyOk
<1> QED
  BY <1>1, <1>2, <1>3

LEMMA BootIInv ==
  ASSUME NEW s \in {"qr", "waiting", "face"}, ui = BootScreen(s), cache \in Caches \cup {<<>>},
         cache # <<>> => paired /\ childKnown, paired \in BOOLEAN, childKnown \in BOOLEAN,
         run = NoRun, posted = <<>>, hold = "up", painter = [p \in Painters |-> Resting]
  PROVE  IInv
<1>1. /\ ui \in UiType /\ ui.glass # "ready" /\ ~ui.offer.pending
      /\ Ok(ui, Noting, Withdrawing)
  BY BootOk
<1>2. /\ painter \in [Painters -> AtWork]
      /\ \A p \in Painters : painter[p] = Resting
  BY NoneType
<1>3. TypeOK
  <2>1. run \in Runs
    BY NoneType
  <2> QED
    BY <1>1, <1>2, <2>1 DEF TypeOK, Runs, AtWork, Places, Jobs
<1>4. NeverBlankedMidStep /\ Quiet
  BY DEF NeverBlankedMidStep, Quiet, NoRun
<1>5. ~ReadySomewhere
  BY <1>1, <1>2 DEF ReadySomewhere, Resting
<1>6. Known
  BY <1>5 DEF Known
<1>7. Working
  BY <1>2 DEF Working, Resting, Painters
<1> QED
  BY <1>1, <1>3, <1>4, <1>6, <1>7 DEF IInv, ScreenOk

LEMMA FactoryResetStep ==
  ASSUME IInv, FactoryReset
  PROVE  IInv' /\ ~ui'.promote /\ promotions' = 0
<1>1. /\ cache' = <<>> /\ paired' = FALSE /\ childKnown' = FALSE
      /\ ui' = BootScreen("qr") /\ run' = NoRun /\ posted' = <<>> /\ hold' = "up"
      /\ painter' = [p \in Painters |-> Resting] /\ promotions' = 0
  BY DEF FactoryReset
<1>2. /\ ui' \in UiType /\ ui'.glass # "ready" /\ ~ui'.offer.pending /\ ~ui'.promote
      /\ Ok(ui', Noting', Withdrawing')
  BY <1>1, BootOk
<1>3. /\ painter' \in [Painters -> AtWork]
      /\ \A p \in Painters : painter'[p] = Resting
  BY <1>1, NoneType
<1>4. TypeOK'
  <2>1. run' \in Runs /\ posted' \in Seq(Nat \ {0}) /\ hold' \in {"up", "counting"}
    BY <1>1, NoneType
  <2>2. cache' \in Caches \cup {<<>>} /\ paired' \in BOOLEAN /\ childKnown' \in BOOLEAN
    BY <1>1
  <2> QED
    BY <1>2, <1>3, <2>1, <2>2 DEF TypeOK, Runs, AtWork, Places, Jobs
<1>5. NeverBlankedMidStep' /\ Quiet'
  BY <1>1 DEF NeverBlankedMidStep, Quiet, NoRun
<1>6. ~ReadySomewhere'
  BY <1>2, <1>3 DEF ReadySomewhere, Resting
<1>7. Known'
  BY <1>1, <1>6 DEF Known
<1>8. Working'
  BY <1>1, <1>3 DEF Working, Resting, Painters
<1> QED
  BY <1>1, <1>2, <1>4, <1>5, <1>7, <1>8 DEF IInv, ScreenOk

-----------------------------------------------------------------------------
(***************************************************************************)
(* The promotions: a promotion due has been noticed and not yet made, and  *)
(* before the gate ever opened none is due.                                *)
(***************************************************************************)
Promoting ==
  /\ promotions \in {0, 1}
  /\ ui.promote => ui.everOpen /\ promotions = 0
  /\ ~ui.everOpen => promotions = 0

Inv == IInv /\ Promoting

LEMMA InitInv == Init => Inv
<1> SUFFICES ASSUME Init PROVE Inv
  OBVIOUS
<1> USE DEF Init
<1>1. PICK s \in {"qr", "waiting", "face"} :
        /\ ui = BootScreen(s) /\ cache \in Caches \cup {<<>>}
        /\ cache # <<>> => paired /\ childKnown
        /\ paired \in BOOLEAN /\ childKnown \in BOOLEAN
        /\ childKnown <=> s = "face"
  OBVIOUS
<1>2. IInv
  BY <1>1, BootIInv
<1>3. ~ui.promote /\ (ui.everOpen <=> s = "face")
  BY <1>1, BootOk
<1>4. Promoting
  BY <1>1, <1>3 DEF Promoting
<1> QED
  BY <1>2, <1>4 DEF Inv

LEMMA LatchedPromoting ==
  ASSUME Promoting, Latched
  PROVE  Promoting'
BY DEF Promoting, Latched

LEMMA TickPromoting ==
  ASSUME Promoting, ui \in UiType, paired \in BOOLEAN, childKnown \in BOOLEAN,
         NEW noticed \in BOOLEAN, NEW promotes \in BOOLEAN, promotes => ui.promote,
         GateNoticed(ui, ui'.everOpen, noticed), ui'.promote = (noticed /\ ~promotes),
         promotions' = IF promotes THEN promotions + 1 ELSE promotions
  PROVE  Promoting'
<1>1. ui'.everOpen = (ui.everOpen \/ GateOpen(ui))
  BY DEF GateNoticed
<1>2. noticed <=> (ui.promote \/ (GateOpen(ui) /\ ~ui.everOpen))
  BY DEF GateNoticed
<1>3. CASE promotes
  <2>1. promotions' = 1 /\ ui.everOpen
    BY <1>3 DEF Promoting
  <2>2. ~ui'.promote /\ ui'.everOpen
    BY <1>1, <1>3, <2>1
  <2> QED
    BY <2>1, <2>2 DEF Promoting
<1>4. CASE ~promotes
  <2>1. promotions' = promotions
    BY <1>4
  <2>2. ui'.promote => ui'.everOpen /\ promotions = 0
    BY <1>1, <1>2, <1>4 DEF Promoting
  <2>3. ~ui'.everOpen => promotions = 0
    BY <1>1 DEF Promoting
  <2> QED
    BY <2>1, <2>2, <2>3 DEF Promoting
<1> QED
  BY <1>3, <1>4

LEMMA StepInv == Inv /\ [Next]_vars => Inv'
<1> SUFFICES ASSUME Inv, [Next]_vars PROVE Inv'
  OBVIOUS
<1>0. IInv /\ Promoting
  BY DEF Inv
<1>1. ASSUME NEW sleepy \in BOOLEAN, IdleTick(sleepy) PROVE Inv'
  <2>1. PICK noticed \in BOOLEAN, promotes \in BOOLEAN :
          /\ promotes => ui.promote
          /\ GateNoticed(ui, ui'.everOpen, noticed)
          /\ ui'.promote = (noticed /\ ~promotes)
          /\ promotions' = IF promotes THEN promotions + 1 ELSE promotions
    BY <1>0, <1>1, IdleTickStep
  <2>2. ui \in UiType /\ paired \in BOOLEAN /\ childKnown \in BOOLEAN
    BY <1>0, TypeParts DEF IInv
  <2>3. Promoting'
    BY <1>0, <2>1, <2>2, TickPromoting
  <2> QED
    BY <1>0, <1>1, <2>3, IdleTickStep DEF Inv
<1>2. ASSUME NEW p \in Painters, Wake(p) \/ PainterStep(p) PROVE IInv' /\ Latched
  BY <1>0, <1>2, WakeStep, WakeAsksStep, PaintUnlockedStep, NoteStep DEF PainterStep
<1>3. ASSUME NEW id \in Routines, RequestStart(id) PROVE IInv' /\ Latched
  BY <1>0, <1>3, RequestStartStep
<1>4. ASSUME DeferredOffer \/ TapStart \/ TapNotNow \/ TapStep PROVE IInv' /\ Latched
  BY <1>0, <1>4, DeferredOfferStep, TapStartStep, TapNotNowStep, TapStepStep
<1>5. ASSUME CancelReady \/ CancelClears \/ CancelDismisses PROVE IInv' /\ Latched
  BY <1>0, <1>5, CancelReadyStep, CancelClearsStep, CancelDismissesStep
<1>6. ASSUME HoldArm \/ HoldPoll \/ Release \/ Pair PROVE IInv' /\ Latched
  BY <1>0, <1>6, CountdownStep, ReleaseStep, PairStep
<1>7. ASSUME NEW c \in Caches, Push(c) PROVE IInv' /\ Latched
  BY <1>0, <1>7, PushStep
<1>8. CASE FactoryReset
  <2>1. IInv' /\ ~ui'.promote /\ promotions' = 0
    BY <1>0, <1>8, FactoryResetStep
  <2> QED
    BY <2>1 DEF Inv, Promoting
<1>9. CASE UNCHANGED vars
  <2>1. UNCHANGED <<cache, paired, childKnown, promotions, ui, run, posted, hold, painter>>
    BY <1>9 DEF vars
  <2>2. IInv'
    BY <1>0, <2>1, InvParts, HandlerKeeps
  <2> QED
    BY <1>0, <2>1, <2>2 DEF Inv, Promoting
<1>10. IInv' /\ Latched => Inv'
  BY <1>0, LatchedPromoting DEF Inv
<1>11. "button" \in Painters /\ "sched" \in Painters
  BY DEF Painters
<1> QED
  BY <1>1, <1>2, <1>3, <1>4, <1>5, <1>6, <1>7, <1>8, <1>9, <1>10, <1>11 DEF Next

\* Only a START tap starts a routine: the one the offer's index points at.
LEMMA StartGood ==
  ASSUME IInv, [Next]_vars
  PROVE  ~run.active /\ run'.active /\ ui.offer.pending /\ StillThere => run'.id = ui.shown
<1> SUFFICES ASSUME ~run.active, run'.active, ui.offer.pending, StillThere
             PROVE  run'.id = ui.shown
  OBVIOUS
<1>1. run' # run
  OBVIOUS
<1>2. ~NoRun.active
  BY DEF NoRun
<1>3. TapStart
  BY <1>1, <1>2 DEF Next, vars, IdleTick, Wake, PainterStep, WakeAsks, PaintUnlocked, Note,
     RequestStart, DeferredOffer, TapNotNow, CancelReady, CancelClears, CancelDismisses, TapStep,
     Pair, Push, HoldArm, HoldPoll, Release, FactoryReset
<1>4. ui.glass = "ready" /\ Start([ui EXCEPT !.offer = NoOffer], ui.offer.idx)
  BY <1>3 DEF TapStart, Touchable
<1>5. run'.id = cache[ui.offer.idx].id
  BY <1>1, <1>4 DEF Start
<1>6. ui.shown = ui.offer.id
  BY <1>4, InvParts DEF Ok, NamedOk
<1> QED
  BY <1>5, <1>6 DEF StillThere

-----------------------------------------------------------------------------
(***************************************************************************)
(* The theorems.                                                           *)
(***************************************************************************)
LEMMA Invariance == Spec => []Inv
<1>1. Init => Inv
  BY InitInv
<1>2. Inv /\ [Next]_vars => Inv'
  BY StepInv
<1> QED
  BY <1>1, <1>2, PTL DEF Spec

(* Every step of the watch keeps its variables in their types.             *)
THEOREM GlassTypeCorrect == Spec => []TypeOK
<1>1. Inv => TypeOK
  BY DEF Inv, IInv
<1> QED
  BY <1>1, Invariance, PTL

(* The panel is lit while a routine runs: idle_tick is the only one to put *)
(* it out, and is suspended.                                               *)
THEOREM RunningStaysLit == Spec => []NeverBlankedMidStep
<1>1. Inv => NeverBlankedMidStep
  BY DEF Inv, IInv
<1> QED
  BY <1>1, Invariance, PTL

(* The pairing is promoted to the face at most once.                       *)
THEOREM PromotedOnce == Spec => []PromotesOnlyThePairing
<1>1. Inv => PromotesOnlyThePairing
  BY DEF Inv, Promoting, PromotesOnlyThePairing
<1> QED
  BY <1>1, Invariance, PTL

(* Whatever a task paints over a pending offer it notes in s_last_screen,  *)
(* but for a countdown and a late note: however many tasks paint at once,  *)
(* between whichever of LVGL's handlers.                                   *)
THEOREM CoversAreNoticed == Spec => []CoverIsNoticed
<1>1. Inv => CoverIsNoticed
  BY DEF Inv, IInv, ScreenOk, Ok, CoverOk, CoverIsNoticed, Noting
<1> QED
  BY <1>1, Invariance, PTL

(* The READY on the glass is that of the pending offer, a withdrawal in    *)
(* its three steps and a READY left dead excepted.                         *)
THEOREM ReadyIsTheOffers == Spec => []ReadyShowsItsOffer
<1>1. Inv => ReadyShowsItsOffer
  BY DEF Inv, IInv, ScreenOk, Ok, ReadyOk, ReadyShowsItsOffer
<1> QED
  BY <1>1, Invariance, PTL

(* Whatever pushes move in the cache: while the offer stands and its       *)
(* routine is where it was, START runs the routine on the glass.           *)
THEOREM StartsTheTapped == Spec => StartsWhatIsShown
<1>1. IInv /\ [Next]_vars =>
        [~run.active /\ run'.active /\ ui.offer.pending /\ StillThere => run'.id = ui.shown]_vars
  BY StartGood
<1>2. Inv => IInv
  BY DEF Inv
<1>3. Spec => [][Next]_vars
  BY PTL DEF Spec
<1> QED
  BY <1>1, <1>2, <1>3, Invariance, PTL DEF StartsWhatIsShown

=============================================================================
