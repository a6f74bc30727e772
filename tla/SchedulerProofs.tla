--------------------------- MODULE SchedulerProofs ---------------------------
(***************************************************************************)
(* What rr_sched promises for every set of caches, every length of its     *)
(* windows, every size of the skip list and any number of pushes, clock    *)
(* steps, power cuts and failed saves.                                     *)
(***************************************************************************)
EXTENDS Scheduler, TLAPS, WellFoundedInduction, FiniteSetTheorems

-----------------------------------------------------------------------------
(* Minima and minutes.                                                     *)

LessThan == {p \in Nat \X Nat : p[1] < p[2]}

LEMMA LessThanIsWellFounded == IsWellFoundedOn(LessThan, Nat)
BY NatLessThanWellFounded, Zenon DEF OpToRel, LessThan

LEMMA SmallestExists ==
  ASSUME NEW S \in SUBSET Nat, S # {}
  PROVE  \E m \in S : \A n \in S : m <= n
<1>1. PICK m \in S : \A n \in S : ~(<<n, m>> \in LessThan)
  BY LessThanIsWellFounded, WFMin
<1>2. ASSUME NEW n \in S PROVE m <= n
  <2>1. ~(<<n, m>> \in LessThan)
    BY <1>1
  <2> QED
    BY <2>1 DEF LessThan
<1> QED
  BY <1>2

(* A minute that has begun by `from` is not behind the minute of `from`.   *)
LEMMA MinuteBegun ==
  ASSUME NEW m \in Nat, NEW from \in Nat, m % Minute = 0, from >= m
  PROVE  m <= MinuteOf(from)
<1> DEFINE qm == m \div Minute
           qf == from \div Minute
<1>0. Minute \in Nat \ {0}
  BY SchedulerAssumption DEF SchedulerAssumption
<1>1. m = Minute * qm /\ qm \in Nat
  BY <1>0
<1>2. from = Minute * qf + (from % Minute) /\ qf \in Nat /\ from % Minute \in 0..(Minute-1)
  BY <1>0
<1> HIDE DEF qm, qf
<1>3. qf >= qm
  <2>1. SUFFICES ASSUME qf < qm PROVE FALSE
    BY <1>1, <1>2
  <2>2. qf + 1 <= qm
    BY <2>1, <1>1, <1>2
  <2>3. Minute * (qf + 1) <= Minute * qm
    BY <2>2, <1>0, <1>1, <1>2
  <2>4. Minute * (qf + 1) = Minute * qf + Minute
    BY <1>0, <1>2
  <2> QED
    BY <2>3, <2>4, <1>0, <1>1, <1>2
<1>4. Minute * qm <= Minute * qf
  BY <1>0, <1>1, <1>2, <1>3
<1> QED
  BY <1>0, <1>1, <1>2, <1>4 DEF MinuteOf

LEMMA Zero == 0 \in Nat /\ 0 % Minute = 0
BY SchedulerAssumption DEF SchedulerAssumption

-----------------------------------------------------------------------------
(* The schedule.                                                           *)

LEMMA CacheShape ==
  ASSUME NEW c \in Caches
  PROVE  /\ c \in Seq([id : Routines, moments : SUBSET Nat])
         /\ \A i \in DOMAIN c : /\ i \in Nat
                                /\ c[i].id \in Routines
                                /\ \A m \in c[i].moments : m \in Nat /\ m % Minute = 0
<1>1. c \in Seq([id : Routines, moments : SUBSET Nat])
  BY SchedulerAssumption DEF SchedulerAssumption
<1>2. \A i \in DOMAIN c : \A m \in c[i].moments : m % Minute = 0
  BY SchedulerAssumption DEF SchedulerAssumption
<1>3. ASSUME NEW i \in DOMAIN c
      PROVE  i \in Nat /\ c[i] \in [id : Routines, moments : SUBSET Nat]
  <2> DEFINE Entries == [id : Routines, moments : SUBSET Nat]
  <2>1. c \in Seq(Entries)
    BY <1>1
  <2> HIDE DEF Entries
  <2>2. DOMAIN c = 1..Len(c) /\ Len(c) \in Nat
    BY <2>1
  <2>3. i \in 1..Len(c) /\ c[i] \in Entries
    BY <2>1, <2>2
  <2>4. i \in Nat
    BY <2>2, <2>3
  <2> QED
    BY <2>3, <2>4 DEF Entries
<1>4. ASSUME NEW i \in DOMAIN c
      PROVE  c[i].id \in Routines /\ c[i].moments \in SUBSET Nat
  BY <1>3
<1> QED
  BY <1>1, <1>2, <1>3, <1>4

LEMMA OccurrenceShape ==
  ASSUME NEW o \in Occurrences
  PROVE  /\ o.id \in Routines /\ o.at \in Nat /\ o.at % Minute = 0
         /\ o = Occurrence(o.id, o.at)
<1>1. PICK c \in Caches : o \in OccurrencesOf(c)
  BY DEF Occurrences
<1>2. PICK i \in DOMAIN c : o \in {Occurrence(c[i].id, m) : m \in c[i].moments}
  BY <1>1 DEF OccurrencesOf
<1>3. PICK m \in c[i].moments : o = Occurrence(c[i].id, m)
  BY <1>2
<1> QED
  BY <1>3, CacheShape DEF Occurrence

LEMMA ScheduledIsOccurrence ==
  ASSUME cache \in Caches, NEW o \in Scheduled
  PROVE  /\ o \in Occurrences
         /\ \E i \in DOMAIN cache : cache[i].id = o.id
<1>1. PICK i \in DOMAIN cache : o \in {Occurrence(cache[i].id, m) : m \in cache[i].moments}
  BY DEF Scheduled, OccurrencesOf
<1>2. cache[i].id = o.id
  BY <1>1 DEF Occurrence
<1> QED
  BY <1>2 DEF Scheduled, Occurrences

LEMMA IndexExists ==
  ASSUME cache \in Caches, NEW id, \E i \in DOMAIN cache : cache[i].id = id
  PROVE  IndexOf(id) \in DOMAIN cache /\ IndexOf(id) \in Nat
<1> DEFINE S == {i \in DOMAIN cache : cache[i].id = id}
<1>1. S \in SUBSET Nat /\ S # {}
  BY CacheShape
<1>2. PICK m \in S : \A n \in S : m <= n
  BY <1>1, SmallestExists
<1>3. \E i \in DOMAIN cache : /\ cache[i].id = id
                              /\ \A j \in DOMAIN cache : cache[j].id = id => i <= j
  BY <1>2
<1>4. IndexOf(id) \in DOMAIN cache
  BY <1>3 DEF IndexOf
<1> QED
  BY <1>4, CacheShape

(* The search returns an occurrence it may return, and no later one.       *)
LEMMA EarliestIsFirst ==
  ASSUME cache \in Caches, NEW S \in SUBSET Scheduled, S # {}
  PROVE  Earliest(S) \in S /\ \A p \in S : Earliest(S).at <= p.at
<1> DEFINE Ats == {o.at : o \in S}
<1>0. \A o \in S : o.at \in Nat /\ IndexOf(o.id) \in Nat
  BY ScheduledIsOccurrence, OccurrenceShape, IndexExists
<1>1. Ats \in SUBSET Nat /\ Ats # {}
  BY <1>0
<1>2. PICK m \in Ats : \A n \in Ats : m <= n
  BY <1>1, SmallestExists
<1> DEFINE First == {o \in S : o.at = m}
           Idx == {IndexOf(o.id) : o \in First}
<1>3. Idx \in SUBSET Nat /\ Idx # {}
  BY <1>0, <1>2
<1>4. PICK k \in Idx : \A n \in Idx : k <= n
  BY <1>3, SmallestExists
<1>5. PICK o \in First : IndexOf(o.id) = k
  BY <1>4
<1>6. ASSUME NEW p \in S
      PROVE  o.at < p.at \/ (o.at = p.at /\ IndexOf(o.id) <= IndexOf(p.id))
  <2>1. m <= p.at /\ m \in Nat /\ p.at \in Nat
    BY <1>0, <1>1, <1>2
  <2>2. CASE p.at = m
    BY <2>2, <1>4, <1>5
  <2>3. CASE p.at # m
    BY <2>1, <2>3, <1>5
  <2> QED
    BY <2>2, <2>3
<1>7. /\ Earliest(S) \in S
      /\ \A p \in S : \/ Earliest(S).at < p.at
                      \/ Earliest(S).at = p.at /\ IndexOf(Earliest(S).id) <= IndexOf(p.id)
  BY <1>5, <1>6 DEF Earliest
<1> QED
  BY <1>0, <1>7

-----------------------------------------------------------------------------
(* The inductive invariant.                                                *)

Saving == {"save_last", "save_ids"}

Serving == {"serve", "withdraw", "give_up", "rung", "accepted", "posted"}

(* TypeOK without the occurrence in flight, and with the pass's own state. *)
Types ==
  /\ clock \in 0..MaxTime /\ clockSet \in BOOLEAN /\ cache \in Caches
  /\ last \in 0..MaxTime /\ savedLast \in 0..MaxTime
  /\ skip \in Seq(Routines) /\ savedSkip \in Seq(Routines)
  /\ Len(skip) <= MaxSkip /\ Len(savedSkip) <= MaxSkip
  /\ answer \in {"none", "start", "dismiss"}
  /\ pc \in Steps /\ turns \in 0..SearchGuard /\ left \in 0..ResyncCap /\ notified \in BOOLEAN
  /\ active \in Routines \cup {NoOne} /\ ready \in Offers
  /\ posted \in Seq(Nat)
  /\ now \in 0..MaxTime /\ floor \in Nat

(* While it is being saved an occurrence is only remembered, and is the    *)
(* last one marked.                                                        *)
Remembered ==
  /\ pending.valid = FALSE
  /\ InFlight \in Occurrences
  /\ pending.at = last
  /\ pending.at <= now

(* A fire that was not offered has not rung, but between ring and offer.   *)
Taken ==
  /\ pending = [valid |-> TRUE, id |-> pending.id, at |-> pending.at,
                offered |-> pending.offered, rings |-> pending.rings,
                lastRing |-> pending.lastRing]
  /\ InFlight \in Occurrences
  /\ pending.offered \in BOOLEAN
  /\ pending.rings \in 0..MaxRings
  /\ pending.lastRing \in Nat
  /\ ~pending.offered /\ pc \notin {"rung", "accepted", "posted"} => pending.rings = 0

PendingOk ==
  /\ pc = "search" => pending = Nothing
  /\ pc \in Saving => Remembered
  /\ pc \in Serving => Taken
  /\ pc = "wait" => pending = Nothing \/ Taken

(* Marks are whole minutes, NVS is never ahead of RAM, and the search never *)
(* looks behind the last mark.                                             *)
Marks ==
  /\ savedLast <= last
  /\ last % Minute = 0
  /\ savedLast % Minute = 0
  /\ pc = "search" => last <= floor

BudgetOk ==
  /\ budget = [syncs |-> budget.syncs, pushes |-> budget.pushes,
               starts |-> budget.starts, reboots |-> budget.reboots,
               unsaved |-> budget.unsaved, unread |-> budget.unread,
               torn |-> budget.torn, all |-> budget.all]
  /\ budget.syncs \in 0..MaxSyncs /\ budget.pushes \in 0..MaxPushes
  /\ budget.starts \in 0..MaxStarts /\ budget.reboots \in 0..MaxReboots
  /\ budget.unsaved \in 0..MaxUnsaved /\ budget.unread \in 0..MaxUnread
  /\ budget.torn \in 0..MaxTorn /\ budget.all \in 0..MaxAll

HidesOnlyHandled(at, ids) ==
  \A o \in Occurrences : o.at = at /\ o.id \in Range(ids) => o \in consumed

(* What the skip list hides was handled, in RAM and, but between its two   *)
(* keys, in NVS, where the minute is then already that of RAM.             *)
Handled ==
  SavesAreWhole =>
    /\ HidesOnlyHandled(last, skip)
    /\ pc # "save_ids" => HidesOnlyHandled(savedLast, savedSkip)
    /\ pc = "save_ids" => savedLast = last

IInv == Types /\ PendingOk /\ Marks /\ BudgetOk /\ Handled

LEMMA Sizes ==
  /\ {Grace, MaxTime, MaxSyncs, MaxPushes, MaxStarts, MaxReboots, MaxUnsaved, MaxUnread,
      MaxTorn, MaxAll} \subseteq Nat
  /\ {Repeat, MaxRings, BusyRetry, ResyncCap, Lookback, UnsetPoll, MaxSkip, SearchGuard}
       \subseteq Nat \ {0}
BY SchedulerAssumption DEF SchedulerAssumption

LEMMA Numbers ==
  /\ Grace \in Nat /\ MaxTime \in Nat
  /\ Repeat \in Nat \ {0} /\ MaxRings \in Nat \ {0} /\ BusyRetry \in Nat \ {0}
  /\ ResyncCap \in Nat \ {0} /\ Lookback \in Nat \ {0} /\ UnsetPoll \in Nat \ {0}
  /\ MaxSkip \in Nat \ {0} /\ SearchGuard \in Nat \ {0}
BY Sizes

LEMMA Limits ==
  /\ MaxSyncs \in Nat /\ MaxPushes \in Nat /\ MaxStarts \in Nat /\ MaxReboots \in Nat
  /\ MaxUnsaved \in Nat /\ MaxUnread \in Nat /\ MaxTorn \in Nat /\ MaxAll \in Nat
BY Sizes

LEMMA OneLess ==
  ASSUME NEW m \in Nat, NEW k \in 0..m, k > 0
  PROVE  k - 1 \in 0..m /\ k - 1 # m
OBVIOUS

(* The end of a pass.                                                      *)
LEMMA Slept ==
  ASSUME NEW ticks \in Int, Sleep(ticks)
  PROVE  /\ pc' = "wait" /\ now' = 0 /\ floor' = 0 /\ turns' = 0
         /\ left' \in 0..ResyncCap /\ notified' = notified
BY Numbers DEF Sleep, Min2, Max2

(* What the budgets become: only a failed save spends one.                 *)
LEMMA SyncSpends ==
  ASSUME BudgetOk, Spend("syncs")
  PROVE  /\ BudgetOk'
         /\ budget'.syncs # MaxSyncs
         /\ SavesAreWhole' => SavesAreWhole
<1> DEFINE k == budget.syncs - 1
           n == budget.all - 1
<1>1. k \in 0..MaxSyncs /\ k # MaxSyncs /\ n \in 0..MaxAll
  BY Limits, OneLess DEF BudgetOk, Spend
<1>2. budget' = [budget EXCEPT !.syncs = k, !.all = n]
  BY DEF Spend
<1> HIDE DEF k, n
<1> QED
  BY <1>1, <1>2 DEF BudgetOk, SavesAreWhole

LEMMA PushSpends ==
  ASSUME BudgetOk, Spend("pushes")
  PROVE  /\ BudgetOk'
         /\ budget'.syncs = budget.syncs
         /\ SavesAreWhole' => SavesAreWhole
<1> DEFINE k == budget.pushes - 1
           n == budget.all - 1
<1>1. k \in 0..MaxPushes /\ k # MaxPushes /\ n \in 0..MaxAll
  BY Limits, OneLess DEF BudgetOk, Spend
<1>2. budget' = [budget EXCEPT !.pushes = k, !.all = n]
  BY DEF Spend
<1> HIDE DEF k, n
<1> QED
  BY <1>1, <1>2 DEF BudgetOk, SavesAreWhole

LEMMA StartSpends ==
  ASSUME BudgetOk, Spend("starts")
  PROVE  /\ BudgetOk'
         /\ budget'.syncs = budget.syncs
         /\ SavesAreWhole' => SavesAreWhole
<1> DEFINE k == budget.starts - 1
           n == budget.all - 1
<1>1. k \in 0..MaxStarts /\ k # MaxStarts /\ n \in 0..MaxAll
  BY Limits, OneLess DEF BudgetOk, Spend
<1>2. budget' = [budget EXCEPT !.starts = k, !.all = n]
  BY DEF Spend
<1> HIDE DEF k, n
<1> QED
  BY <1>1, <1>2 DEF BudgetOk, SavesAreWhole

LEMMA FailureSpends ==
  ASSUME BudgetOk, Spend("unsaved")
  PROVE  /\ BudgetOk'
         /\ budget'.syncs = budget.syncs
         /\ ~SavesAreWhole'
<1> DEFINE k == budget.unsaved - 1
           n == budget.all - 1
<1>1. k \in 0..MaxUnsaved /\ k # MaxUnsaved /\ n \in 0..MaxAll
  BY Limits, OneLess DEF BudgetOk, Spend
<1>2. budget' = [budget EXCEPT !.unsaved = k, !.all = n]
  BY DEF Spend
<1> HIDE DEF k, n
<1> QED
  BY <1>1, <1>2 DEF BudgetOk, SavesAreWhole

LEMMA UnreadSpends ==
  ASSUME BudgetOk, Spend("unread")
  PROVE  /\ BudgetOk'
         /\ budget'.syncs = budget.syncs /\ budget'.unsaved = budget.unsaved
         /\ SavesAreWhole' => SavesAreWhole
<1> DEFINE k == budget.unread - 1
           n == budget.all - 1
<1>1. k \in 0..MaxUnread /\ k # MaxUnread /\ n \in 0..MaxAll
  BY Limits, OneLess DEF BudgetOk, Spend
<1>2. budget' = [budget EXCEPT !.unread = k, !.all = n]
  BY DEF Spend
<1> HIDE DEF k, n
<1> QED
  BY <1>1, <1>2 DEF BudgetOk, SavesAreWhole

LEMMA CutSpends ==
  ASSUME BudgetOk, PowerFails
  PROVE  /\ BudgetOk'
         /\ budget'.syncs = budget.syncs /\ budget'.unsaved = budget.unsaved
         /\ SavesAreWhole' => SavesAreWhole /\ pc # "save_ids"
<1> DEFINE torn == IF pc = "save_ids" THEN 1 ELSE 0
           k == budget.reboots - 1
           m == budget.torn - torn
           n == budget.all - 1
<1>1. k \in 0..MaxReboots /\ n \in 0..MaxAll
  BY Limits, OneLess DEF BudgetOk, PowerFails
<1>2. /\ m \in 0..MaxTorn
      /\ m = MaxTorn => budget.torn = MaxTorn /\ pc # "save_ids"
  BY Limits DEF BudgetOk, PowerFails
<1>3. budget' = [budget EXCEPT !.reboots = k, !.torn = m, !.all = n]
  BY DEF PowerFails
<1> HIDE DEF torn, k, m, n
<1> QED
  BY <1>1, <1>2, <1>3 DEF BudgetOk, SavesAreWhole

-----------------------------------------------------------------------------
(* What the steps that touch the marks and the occurrence do.              *)

LEMMA InFlightShape ==
  ASSUME InFlight \in Occurrences
  PROVE  pending.id \in Routines /\ pending.at \in Nat /\ pending.at % Minute = 0
<1>1. InFlight.id = pending.id /\ InFlight.at = pending.at
  BY DEF InFlight, Occurrence
<1> QED
  BY <1>1, OccurrenceShape

LEMMA NothingIsNotValid == Nothing.valid = FALSE
BY DEF Nothing

(* The occurrence a search consumes is the first one it may find, it is    *)
(* due, and it is not behind the last one marked.                          *)
LEMMA Found ==
  ASSUME Types, Marks, FindDue
  PROVE  \E o \in Due(floor) :
           /\ o \in Scheduled /\ o \in Occurrences
           /\ \A p \in Due(floor) : o.at <= p.at
           /\ last <= o.at /\ o.at <= now
           /\ last' = o.at /\ skip' = HandledIds(o)
           /\ consumed' = consumed \cup {o}
           /\ pending' = [valid |-> FALSE, id |-> o.id, at |-> o.at]
<1> DEFINE o == Earliest(Due(floor))
<1>1. Due(floor) \in SUBSET Scheduled
  BY DEF Due, Candidates
<1>2. o \in Due(floor) /\ \A p \in Due(floor) : o.at <= p.at
  BY <1>1, EarliestIsFirst DEF FindDue, Types
<1>3. o \in Scheduled /\ o \in Occurrences
  BY <1>1, <1>2, ScheduledIsOccurrence DEF Types
<1>4. o.at \in Nat
  BY <1>3, OccurrenceShape
<1>5. last <= MinuteOf(floor)
  BY MinuteBegun DEF Types, Marks, FindDue, Finds
<1>6. MinuteOf(floor) <= o.at
  BY <1>2 DEF Due, Candidates
<1>7. MinuteOf(floor) \in Int
  BY SchedulerAssumption DEF MinuteOf, Types, SchedulerAssumption
<1>8. last <= o.at
  BY <1>4, <1>5, <1>6, <1>7 DEF Types
<1>9. last' = o.at
  BY <1>4, <1>8 DEF FindDue, Max2, Types
<1> QED
  BY <1>2, <1>3, <1>8, <1>9 DEF FindDue

LEMMA IdsHandled ==
  ASSUME Types, NEW o \in Occurrences
  PROVE  /\ HandledIds(o) \in Seq(Routines)
         /\ Len(HandledIds(o)) <= MaxSkip
         /\ \A id \in Range(HandledIds(o)) :
              id = o.id \/ (o.at <= last /\ id \in Range(skip))
<1> DEFINE ids == IF o.at > last THEN <<>> ELSE skip
<1>1. o.id \in Routines /\ o.at \in Nat /\ last \in Nat
  BY OccurrenceShape DEF Types
<1>2. ids \in Seq(Routines) /\ Len(ids) <= MaxSkip
  BY Numbers DEF Types
<1>3. \A id \in Range(ids) : o.at <= last /\ id \in Range(skip)
  BY <1>1 DEF Range
<1>4. HandledIds(o) = IF Len(ids) < MaxSkip THEN Append(ids, o.id) ELSE ids
  BY DEF HandledIds
<1> HIDE DEF ids
<1>5. CASE Len(ids) < MaxSkip
  <2>1. HandledIds(o) = Append(ids, o.id)
    BY <1>4, <1>5
  <2>2. \A id \in Range(Append(ids, o.id)) : id = o.id \/ id \in Range(ids)
    BY <1>1, <1>2 DEF Range
  <2>3. Append(ids, o.id) \in Seq(Routines) /\ Len(Append(ids, o.id)) = Len(ids) + 1
    BY <1>1, <1>2
  <2> QED
    BY <1>2, <1>3, <1>5, <2>1, <2>2, <2>3, Numbers
<1>6. CASE ~(Len(ids) < MaxSkip)
  BY <1>2, <1>3, <1>4, <1>6
<1> QED
  BY <1>5, <1>6

(* After the save the occurrence is in flight, or too old to ring.         *)
LEMMA TookIt ==
  ASSUME Types, Remembered, Take
  PROVE  /\ last <= pending.at /\ floor' \in Nat
         /\ \/ pc' = "serve" /\ Taken' /\ pending'.at = pending.at
            \/ pc' = "search" /\ pending' = Nothing /\ floor' = last
         /\ UNCHANGED <<now, left, notified>>
<1>1. pending.id \in Routines /\ pending.at \in Nat
  BY InFlightShape DEF Remembered
<1>2. CASE now - pending.at > Grace
  BY <1>1, <1>2 DEF Take, Goto, Remembered
<1>3. CASE ~(now - pending.at > Grace)
  <2> DEFINE p == [valid |-> TRUE, id |-> pending.id, at |-> pending.at,
                   offered |-> FALSE, rings |-> 0, lastRing |-> 0]
  <2>1. pending' = p /\ pc' = "serve" /\ floor' = 0 /\ UNCHANGED <<now, left, notified>>
    BY <1>3 DEF Take, Goto
  <2>2. InFlight' = InFlight
    BY <2>1 DEF InFlight, Occurrence
  <2>3. pending' = [valid |-> TRUE, id |-> pending'.id, at |-> pending'.at,
                offered |-> pending'.offered, rings |-> pending'.rings,
                lastRing |-> pending'.lastRing]
    BY <2>1
  <2>4. /\ pending'.offered = FALSE /\ pending'.rings = 0 /\ pending'.lastRing = 0
        /\ pending'.at = pending.at
    BY <2>1
  <2>5. 0 \in 0..MaxRings
    BY Numbers
  <2>6. InFlight' \in Occurrences /\ pending'.offered \in BOOLEAN
    BY <2>2, <2>4 DEF Remembered
  <2>7. pending'.rings \in 0..MaxRings /\ pending'.lastRing \in Nat
    BY <2>4, <2>5
  <2> HIDE DEF p
  <2>8. Taken'
    BY <2>3, <2>4, <2>6, <2>7 DEF Taken
  <2> QED
    BY <1>1, <2>1, <2>4, <2>8 DEF Remembered, Types
<1> QED
  BY <1>2, <1>3

LEMMA RangOnce ==
  ASSUME Types, Taken, pending.rings < MaxRings, pending' = Ringing,
         pending.offered \/ pc' \in {"rung", "accepted", "posted"}
  PROVE  /\ Taken' /\ pending'.at = pending.at
<1> DEFINE n == pending.rings + 1
<1>1. n \in 0..MaxRings
  BY Numbers DEF Taken
<1>2. pending' = [valid |-> TRUE, id |-> pending.id, at |-> pending.at,
                  offered |-> pending.offered, rings |-> n, lastRing |-> clock]
  <2>1. PICK i, a, f, r, l : pending = [valid |-> TRUE, id |-> i, at |-> a,
                                        offered |-> f, rings |-> r, lastRing |-> l]
    BY DEF Taken
  <2>2. pending' = [pending EXCEPT !.rings = n, !.lastRing = clock]
    BY DEF Ringing
  <2> HIDE DEF n
  <2>3. pending' = [valid |-> TRUE, id |-> i, at |-> a, offered |-> f, rings |-> n,
                    lastRing |-> clock]
    BY <2>1, <2>2
  <2>4. pending.id = i /\ pending.at = a /\ pending.offered = f
    BY <2>1
  <2> QED
    BY <2>3, <2>4
<1> HIDE DEF n
<1>3. InFlight' = InFlight
  BY <1>2 DEF InFlight, Occurrence
<1>4. pending' = [valid |-> TRUE, id |-> pending'.id, at |-> pending'.at,
                offered |-> pending'.offered, rings |-> pending'.rings,
                lastRing |-> pending'.lastRing]
  BY <1>2
<1>5. /\ pending'.offered = pending.offered /\ pending'.rings = n
      /\ pending'.lastRing = clock /\ pending'.at = pending.at
  BY <1>2
<1>6. clock \in Nat
  BY Numbers DEF Types
<1> QED
  BY <1>1, <1>3, <1>4, <1>5, <1>6 DEF Taken

LEMMA TakenStays ==
  ASSUME Taken, pending' = pending,
         \/ pending.offered
         \/ pc \notin {"rung", "accepted", "posted"}
         \/ pc' \in {"rung", "accepted", "posted"}
  PROVE  Taken'
BY DEF Taken, InFlight

LEMMA OfferRaised ==
  ASSUME Taken, pending' = [pending EXCEPT !.offered = TRUE]
  PROVE  Taken' /\ pending'.at = pending.at
<1>1. pending' = [valid |-> TRUE, id |-> pending.id, at |-> pending.at,
                  offered |-> TRUE, rings |-> pending.rings, lastRing |-> pending.lastRing]
  <2>1. PICK i, a, f, r, l : pending = [valid |-> TRUE, id |-> i, at |-> a,
                                        offered |-> f, rings |-> r, lastRing |-> l]
    BY DEF Taken
  <2>2. pending' = [valid |-> TRUE, id |-> i, at |-> a, offered |-> TRUE, rings |-> r,
                    lastRing |-> l]
    BY <2>1
  <2>3. pending.id = i /\ pending.at = a /\ pending.rings = r /\ pending.lastRing = l
    BY <2>1
  <2> QED
    BY <2>2, <2>3
<1>2. InFlight' = InFlight
  BY <1>1 DEF InFlight, Occurrence
<1>3. pending' = [valid |-> TRUE, id |-> pending'.id, at |-> pending'.at,
                offered |-> pending'.offered, rings |-> pending'.rings,
                lastRing |-> pending'.lastRing]
  BY <1>1
<1>4. /\ pending'.offered = TRUE /\ pending'.rings = pending.rings
      /\ pending'.lastRing = pending.lastRing /\ pending'.at = pending.at
  BY <1>1
<1> QED
  BY <1>2, <1>3, <1>4 DEF Taken

-----------------------------------------------------------------------------
(* The steps, one kind at a time: what changes nothing but the pass, what  *)
(* drops the occurrence in flight, and what LVGL and the phone do.         *)

SavingStep == FindDue \/ SaveLast \/ LastFails \/ SaveIds \/ SaveFails

(* The pass ends and leaves the occurrence as it is.                       *)
Pausing ==
  \/ FindGaveUp \/ FindNothing \/ FindUnread \/ FindFuture
  \/ ServeQuiet \/ ServeWaitToRepeat \/ ServeDeferred

(* The pass ends and the occurrence is over.                               *)
Dropping == ServeAnswered \/ GiveUp \/ ServeMissed \/ RequestRefused

(* The pass goes on.                                                       *)
Going == ServeExpired \/ Withdraw \/ RequestAccepted \/ PostOffer

Sounding == Ring \/ ServeRepeat

Tapping == DeferredOffer \/ TapStart \/ TapNotNow \/ Finish

Intruding ==
  \/ \E id \in Routines : PhoneStart(id)
  \/ \E t \in ClockValues : SetClock(t)
  \/ \E c \in Caches : Push(c)

LEMMA StepKinds ==
  Next <=> \/ WakeWithoutClock \/ Wake \/ SavingStep \/ Pausing \/ Dropping \/ Going
           \/ Sounding \/ RaiseOffer \/ Tapping \/ Intruding \/ Tick \/ Reboot
BY DEF Next, Pass, Search, Serve, SavingStep, Pausing, Dropping, Going, Sounding, Tapping,
       Intruding

LEMMA PausingStep ==
  ASSUME Types, PendingOk, BudgetOk, Pausing
  PROVE  /\ \E ticks \in Int : Sleep(ticks)
         /\ pc \in {"search", "serve"}
         /\ UNCHANGED <<clock, clockSet, cache, ram, nvs, watch, consumed, fired>>
         /\ BudgetOk' /\ (SavesAreWhole' => SavesAreWhole)
         /\ budget'.syncs = budget.syncs /\ budget'.unsaved = budget.unsaved
<1>0. now \in Nat
  BY Numbers DEF Types
<1>a. ASSUME UNCHANGED <<world, past>>
      PROVE  /\ UNCHANGED <<clock, clockSet, cache, consumed, fired>>
             /\ BudgetOk' /\ (SavesAreWhole' => SavesAreWhole)
             /\ budget'.syncs = budget.syncs /\ budget'.unsaved = budget.unsaved
  BY <1>a DEF BudgetOk, SavesAreWhole, world, past
<1>1. CASE FindGaveUp
  BY <1>1, <1>a, Numbers DEF FindGaveUp
<1>2. CASE FindNothing
  BY <1>2, <1>a, Numbers DEF FindNothing, Finds
<1>b. CASE FindUnread
  BY <1>b, UnreadSpends, Numbers DEF FindUnread, Finds
<1>3. CASE FindFuture
  <2>1. Earliest(Due(floor)) \in Scheduled
    BY <1>3, EarliestIsFirst DEF FindFuture, Due, Candidates, Types
  <2>2. Earliest(Due(floor)).at \in Nat
    BY <2>1, ScheduledIsOccurrence, OccurrenceShape DEF Types
  <2>3. Earliest(Due(floor)).at - now \in Int
    BY <1>0, <2>2
  <2> QED
    BY <1>3, <1>a, <2>3 DEF FindFuture, Finds
<1>4. CASE ServeQuiet \/ ServeWaitToRepeat \/ ServeDeferred
  <2>0. pc = "serve"
    BY <1>4 DEF ServeQuiet, ServeWaitToRepeat, ServeDeferred, NotOffered, Unanswered, Offered
  <2>1. Taken
    BY <2>0 DEF PendingOk, Serving
  <2>2. pending.at \in Nat /\ pending.lastRing \in Nat
    BY <2>1, InFlightShape DEF Taken
  <2>3. Grace - LateBy \in Int /\ Repeat - SinceRing \in Int /\ BusyRetry \in Int
    BY <1>0, <2>2, Numbers DEF LateBy, SinceRing
  <2> QED
    BY <1>4, <1>a, <2>0, <2>3 DEF ServeQuiet, ServeWaitToRepeat, ServeDeferred
<1> QED
  BY <1>1, <1>2, <1>b, <1>3, <1>4 DEF Pausing

LEMMA DroppingStep ==
  ASSUME Dropping
  PROVE  /\ \E ticks \in Int : Sleep(ticks)
         /\ pc \in {"serve", "give_up", "rung"}
         /\ pending' = Nothing /\ answer' = "none"
         /\ UNCHANGED <<world, last, skip, nvs, watch, past>>
BY Numbers DEF Dropping, ServeAnswered, GiveUp, ServeMissed, RequestRefused, Clear, Offered,
               NotOffered

LEMMA GoingStep ==
  ASSUME Types, PendingOk, Going
  PROVE  /\ pc \in Serving /\ pc' \in Serving
         /\ pc' \in {"rung", "accepted", "posted"} <=> pc \in {"rung", "accepted", "posted"}
         /\ floor' \in Nat
         /\ ready' \in {ready, NoOffer}
         /\ posted' \in Seq(Nat)
         /\ UNCHANGED <<world, ram, nvs, now, turns, left, notified, active, past>>
<1>1. CASE ServeExpired
  BY <1>1 DEF ServeExpired, Unanswered, Offered, Goto, Serving, watch, Types
<1>2. CASE Withdraw
  BY <1>2 DEF Withdraw, Goto, Serving, Types
<1>3. CASE RequestAccepted
  <2>1. IndexOf(pending.id) \in Nat
    <3>1. \E i \in DOMAIN cache : cache[i].id = pending.id
      BY <1>3 DEF RequestAccepted, Cached
    <3> QED
      BY <3>1, IndexExists DEF Types
  <2> QED
    BY <1>3, <2>1 DEF RequestAccepted, Goto, Serving, watch, Types
<1>4. CASE PostOffer
  <2>1. posted' \in Seq(Nat)
    BY <1>4 DEF PostOffer, Types
  <2> QED
    BY <1>4, <2>1 DEF PostOffer, Goto, Serving, Types
<1> QED
  BY <1>1, <1>2, <1>3, <1>4 DEF Going

LEMMA SoundingStep ==
  ASSUME Types, PendingOk, Sounding
  PROVE  /\ pc = "serve" /\ Taken
         /\ ~Expired
         /\ pending.rings < MaxRings
         /\ pending' = Ringing
         /\ pending.offered \/ pc' \in {"rung", "accepted", "posted"}
         /\ \/ pc' = "rung" /\ UNCHANGED <<now, floor, turns, left, notified>>
            \/ \E ticks \in Int : Sleep(ticks)
         /\ answer' \in {answer, "none"}
         /\ UNCHANGED <<world, last, skip, nvs, watch, consumed>>
<1>1. CASE Ring
  <2>1. pc = "serve" /\ Taken /\ ~pending.offered
    BY <1>1 DEF Ring, NotOffered, PendingOk, Serving
  <2>2. pending.rings = 0
    BY <2>1 DEF Taken
  <2>3. pending.rings < MaxRings
    BY <2>2, Numbers
  <2> QED
    BY <1>1, <2>1, <2>3 DEF Ring, Goto
<1>2. CASE ServeRepeat
  BY <1>2, Numbers DEF ServeRepeat, Unanswered, Offered, RingsLeft, PendingOk, Serving, past
<1> QED
  BY <1>1, <1>2 DEF Sounding

LEMMA TappingStep ==
  ASSUME Types, Tapping
  PROVE  /\ answer' \in {"none", "start", "dismiss"} /\ notified' \in BOOLEAN
         /\ active' \in Routines \cup {NoOne} /\ ready' \in Offers /\ posted' \in Seq(Nat)
         /\ UNCHANGED <<world, last, skip, pending, nvs, pc, now, floor, turns, left, past>>
<1>0. NoOffer \in Offers
  BY DEF NoOffer, Offers
<1>1. \A i \in DOMAIN cache : i \in Nat /\ cache[i].id \in Routines
  BY CacheShape DEF Types
<1>2. CASE DeferredOffer
  <2>1. Head(posted) \in Nat /\ Tail(posted) \in Seq(Nat)
    BY <1>2 DEF DeferredOffer, Types
  <2>2. ready' \in Offers
    <3>1. CASE ~Busy /\ Head(posted) \in DOMAIN cache
      <4>1. ready' = [idx |-> Head(posted), id |-> cache[Head(posted)].id]
        BY <1>2, <3>1 DEF DeferredOffer
      <4> QED
        BY <1>1, <2>1, <3>1, <4>1 DEF Offers
    <3>2. CASE ~(~Busy /\ Head(posted) \in DOMAIN cache)
      BY <1>2, <3>2 DEF DeferredOffer, Types
    <3> QED
      BY <3>1, <3>2
  <2> QED
    BY <1>2, <2>1, <2>2 DEF DeferredOffer, Types, ram, task
<1>3. CASE TapStart
  <2>1. active' \in Routines \cup {NoOne}
    BY <1>1, <1>3 DEF TapStart, Types
  <2>2. answer' \in {"none", "start", "dismiss"} /\ notified' \in BOOLEAN
    BY <1>3 DEF TapStart, Report, Rearm, Types
  <2> QED
    BY <1>0, <1>3, <2>1, <2>2 DEF TapStart, Types
<1>4. CASE TapNotNow
  <2>1. answer' \in {"none", "start", "dismiss"} /\ notified' \in BOOLEAN
    BY <1>4 DEF TapNotNow, Report, Rearm, Types
  <2> QED
    BY <1>0, <1>4, <2>1 DEF TapNotNow, Types
<1>5. CASE Finish
  BY <1>5 DEF Finish, Rearm, Types, ram
<1> QED
  BY <1>2, <1>3, <1>4, <1>5 DEF Tapping

LEMMA IntrudingStep ==
  ASSUME Types, BudgetOk, Intruding
  PROVE  /\ BudgetOk' /\ (SavesAreWhole' => SavesAreWhole)
         /\ clock' \in 0..MaxTime /\ clockSet' \in BOOLEAN /\ cache' \in Caches
         /\ notified' \in BOOLEAN /\ posted' \in Seq(Nat)
         /\ budget'.syncs = MaxSyncs => clock' = clock /\ budget.syncs = MaxSyncs
         /\ UNCHANGED <<ram, nvs, pc, now, floor, turns, left, active, ready, past>>
<1>1. ASSUME NEW id \in Routines, PhoneStart(id)
      PROVE  /\ BudgetOk' /\ (SavesAreWhole' => SavesAreWhole)
             /\ posted' \in Seq(Nat) /\ budget'.syncs = budget.syncs
             /\ UNCHANGED <<clock, clockSet, cache, ram, nvs, task, active, ready, past>>
  <2>1. IndexOf(id) \in Nat
    BY <1>1, IndexExists DEF PhoneStart, Cached, Types
  <2>2. posted' \in Seq(Nat)
    BY <1>1, <2>1 DEF PhoneStart, Types
  <2> QED
    BY <1>1, <2>2, StartSpends DEF PhoneStart
<1>2. ASSUME NEW t \in ClockValues, SetClock(t)
      PROVE  /\ BudgetOk' /\ (SavesAreWhole' => SavesAreWhole)
             /\ clock' \in 0..MaxTime /\ clockSet' = TRUE /\ notified' = TRUE
             /\ budget'.syncs # MaxSyncs
             /\ UNCHANGED <<cache, ram, nvs, pc, now, floor, turns, left, watch, past>>
  <2>1. t \in 0..MaxTime
    BY SchedulerAssumption DEF SchedulerAssumption
  <2> QED
    BY <1>2, <2>1, SyncSpends DEF SetClock, Rearm
<1>3. ASSUME NEW c \in Caches, Push(c)
      PROVE  /\ BudgetOk' /\ (SavesAreWhole' => SavesAreWhole)
             /\ cache' \in Caches /\ notified' = TRUE /\ budget'.syncs = budget.syncs
             /\ UNCHANGED <<clock, clockSet, ram, nvs, pc, now, floor, turns, left, watch, past>>
  BY <1>3, PushSpends DEF Push, Rearm
<1>4. CASE \E id \in Routines : PhoneStart(id)
  BY <1>1, <1>4 DEF Types, task
<1>5. CASE \E t \in ClockValues : SetClock(t)
  BY <1>2, <1>5 DEF Types, watch
<1>6. CASE \E c \in Caches : Push(c)
  BY <1>3, <1>6 DEF Types, watch
<1> QED
  BY <1>4, <1>5, <1>6 DEF Intruding

-----------------------------------------------------------------------------
(* The saving steps keep the invariant.                                    *)

LEMMA FindDueKeeps ==
  ASSUME IInv, FindDue
  PROVE  IInv'
<1>0. Types /\ Marks /\ BudgetOk /\ Handled
  BY DEF IInv
<1>1. PICK o \in Due(floor) :
           /\ o \in Scheduled /\ o \in Occurrences
           /\ last <= o.at /\ o.at <= now
           /\ last' = o.at /\ skip' = HandledIds(o)
           /\ consumed' = consumed \cup {o}
           /\ pending' = [valid |-> FALSE, id |-> o.id, at |-> o.at]
  BY <1>0, Found
<1>2. /\ pc' = "save_last" /\ turns' = turns - 1 /\ turns > 0
      /\ UNCHANGED <<world, answer, nvs, floor, watch, now, left, notified>>
  BY DEF FindDue, Goto, Finds
<1>3. /\ o.id \in Routines /\ o.at \in Nat /\ o.at % Minute = 0
      /\ o = Occurrence(o.id, o.at)
  BY <1>1, OccurrenceShape
<1>4. /\ HandledIds(o) \in Seq(Routines) /\ Len(HandledIds(o)) <= MaxSkip
      /\ \A id \in Range(HandledIds(o)) : id = o.id \/ (o.at <= last /\ id \in Range(skip))
  BY <1>0, <1>1, IdsHandled
<1>5. Types'
  <2>1. last' \in 0..MaxTime
    BY <1>0, <1>1, <1>3, Numbers DEF Types
  <2>2. turns' \in 0..SearchGuard
    BY <1>0, <1>2, Numbers DEF Types
  <2>3. pc' \in Steps
    BY <1>2 DEF Steps
  <2> QED
    BY <1>0, <1>1, <1>2, <1>4, <2>1, <2>2, <2>3 DEF Types, world, nvs, watch
<1>6. PendingOk'
  <2>1. pending'.valid = FALSE /\ pending'.id = o.id /\ pending'.at = o.at
    BY <1>1
  <2>2. InFlight' = o
    BY <1>3, <2>1 DEF InFlight
  <2>3. Remembered'
    BY <1>1, <1>2, <2>1, <2>2 DEF Remembered
  <2> QED
    BY <1>2, <2>3 DEF PendingOk, Saving, Serving
<1>7. Marks'
  BY <1>0, <1>1, <1>2, <1>3 DEF Marks, Types, nvs
<1>8. BudgetOk' /\ SavesAreWhole' = SavesAreWhole
  BY <1>0, <1>2 DEF BudgetOk, SavesAreWhole, world
<1>9. Handled'
  <2>1. SUFFICES ASSUME SavesAreWhole'
                 PROVE  /\ HidesOnlyHandled(last, skip)'
                        /\ HidesOnlyHandled(savedLast, savedSkip)'
    BY <1>2 DEF Handled, HidesOnlyHandled
  <2>2. SavesAreWhole /\ pc # "save_ids"
    BY <1>8, <2>1 DEF FindDue, Finds
  <2>3. HidesOnlyHandled(last, skip) /\ HidesOnlyHandled(savedLast, savedSkip)
    BY <1>0, <2>2 DEF Handled
  <2>4. ASSUME NEW p \in Occurrences, p.at = last', p.id \in Range(skip')
        PROVE  p \in consumed'
    <3>1. p = Occurrence(p.id, p.at)
      BY OccurrenceShape
    <3>2. CASE p.id = o.id
      BY <1>1, <1>3, <2>4, <3>1, <3>2
    <3>3. CASE o.at <= last /\ p.id \in Range(skip)
      <4>1. p.at = last
        BY <1>0, <1>1, <1>3, <2>4, <3>3 DEF Types
      <4> QED
        BY <1>1, <2>3, <3>3, <4>1 DEF HidesOnlyHandled
    <3> QED
      BY <1>1, <1>4, <2>4, <3>2, <3>3
  <2>5. ASSUME NEW p \in Occurrences, p.at = savedLast', p.id \in Range(savedSkip')
        PROVE  p \in consumed'
    BY <1>1, <1>2, <2>3, <2>5 DEF HidesOnlyHandled, nvs
  <2> QED
    BY <2>4, <2>5 DEF HidesOnlyHandled
<1> QED
  BY <1>5, <1>6, <1>7, <1>8, <1>9 DEF IInv

LEMMA SaveLastKeeps ==
  ASSUME IInv, SaveLast
  PROVE  IInv'
<1>1. /\ pc = "save_last" /\ pc' = "save_ids" /\ savedLast' = last
      /\ UNCHANGED <<world, ram, savedSkip, floor, turns, watch, past, now, left, notified>>
  BY DEF SaveLast, Goto
<1>2. Types'
  BY <1>1 DEF IInv, Types, world, ram, watch, Steps
<1>3. PendingOk'
  BY <1>1 DEF IInv, PendingOk, Saving, Serving, Remembered, InFlight, ram
<1>4. Marks'
  BY <1>1 DEF IInv, Marks, Types, ram
<1>5. BudgetOk'
  BY <1>1 DEF IInv, BudgetOk, world
<1>6. Handled'
  BY <1>1 DEF IInv, Handled, SavesAreWhole, HidesOnlyHandled, world, ram, past
<1> QED
  BY <1>2, <1>3, <1>4, <1>5, <1>6 DEF IInv

LEMMA LastFailsKeeps ==
  ASSUME IInv, LastFails
  PROVE  IInv'
<1>1. /\ pc = "save_last" /\ pc' = "save_ids" /\ Spend("unsaved")
      /\ UNCHANGED <<clock, clockSet, cache, ram, nvs, floor, turns, watch, now, left, notified>>
  BY DEF LastFails, Goto
<1>2. Types'
  BY <1>1 DEF IInv, Types, ram, nvs, watch, Steps
<1>3. PendingOk'
  BY <1>1 DEF IInv, PendingOk, Saving, Serving, Remembered, InFlight, ram
<1>4. Marks'
  BY <1>1 DEF IInv, Marks, ram, nvs
<1>5. BudgetOk' /\ ~SavesAreWhole'
  BY <1>1, FailureSpends DEF IInv
<1>6. Handled'
  BY <1>5 DEF Handled
<1> QED
  BY <1>2, <1>3, <1>4, <1>5, <1>6 DEF IInv

(* Taking the occurrence after its save, whole or not.                     *)
LEMMA TakeKeeps ==
  ASSUME IInv, pc \in Saving, Take,
         UNCHANGED <<clock, clockSet, cache, last, skip, answer, savedLast, turns, watch>>,
         savedSkip' \in {savedSkip, skip}
  PROVE  Types' /\ PendingOk' /\ Marks'
<1>0. Types /\ PendingOk /\ Marks /\ Remembered
  BY DEF IInv, PendingOk
<1>1. /\ last <= pending.at /\ floor' \in Nat
      /\ \/ pc' = "serve" /\ Taken'
         \/ pc' = "search" /\ pending' = Nothing /\ floor' = last
      /\ UNCHANGED <<now, left, notified>>
  BY <1>0, TookIt
<1>2. Types'
  BY <1>0, <1>1 DEF Types, watch, Steps
<1>3. PendingOk'
  BY <1>1 DEF PendingOk, Saving, Serving
<1>4. Marks'
  BY <1>0, <1>1 DEF Marks, Types
<1> QED
  BY <1>2, <1>3, <1>4

LEMMA SaveIdsKeeps ==
  ASSUME IInv, SaveIds
  PROVE  IInv'
<1>1. /\ pc = "save_ids" /\ savedSkip' = skip /\ Take
      /\ UNCHANGED <<world, last, skip, answer, savedLast, turns, watch, past>>
  BY DEF SaveIds
<1>2. pc' \in {"serve", "search"}
  BY <1>1 DEF Take, Goto
<1>3. Types' /\ PendingOk' /\ Marks'
  BY <1>1, TakeKeeps DEF Saving, world
<1>4. BudgetOk'
  BY <1>1 DEF IInv, BudgetOk, world
<1>5. Handled'
  BY <1>1, <1>2 DEF IInv, Handled, SavesAreWhole, HidesOnlyHandled, world, past
<1> QED
  BY <1>3, <1>4, <1>5 DEF IInv

LEMMA SaveFailsKeeps ==
  ASSUME IInv, SaveFails
  PROVE  IInv'
<1>1. /\ pc \in Saving /\ Take /\ Spend("unsaved")
      /\ UNCHANGED <<clock, clockSet, cache, last, skip, answer, nvs, turns, watch, past>>
  BY DEF SaveFails, Saving
<1>2. Types' /\ PendingOk' /\ Marks'
  BY <1>1, TakeKeeps DEF nvs
<1>3. BudgetOk' /\ ~SavesAreWhole'
  BY <1>1, FailureSpends DEF IInv
<1>4. Handled'
  BY <1>3 DEF Handled
<1> QED
  BY <1>2, <1>3, <1>4 DEF IInv

-----------------------------------------------------------------------------
(* So do all others: they leave the marks alone, but for a power cut.      *)

LEMMA MarksUntouched ==
  ASSUME IInv, UNCHANGED <<last, skip, nvs, consumed>>,
         SavesAreWhole' => SavesAreWhole,
         pc' = "save_ids" <=> pc = "save_ids"
  PROVE  Handled'
BY DEF IInv, Handled, HidesOnlyHandled, nvs

LEMMA OthersKeep ==
  ASSUME IInv, Next, ~SavingStep
  PROVE  IInv'
<1>0. Types /\ PendingOk /\ Marks /\ BudgetOk /\ Handled
  BY DEF IInv
<1>1. CASE WakeWithoutClock
  <2>1. /\ left' = Min2(UnsetPoll, ResyncCap) /\ notified' = FALSE
        /\ UNCHANGED <<world, ram, nvs, pc, now, floor, turns, watch, past>>
    BY <1>1 DEF WakeWithoutClock
  <2>2. left' \in 0..ResyncCap
    BY <2>1, Numbers DEF Min2
  <2>3. Types'
    BY <1>0, <2>1, <2>2 DEF Types, world, ram, nvs, watch
  <2>4. PendingOk'
    BY <1>0, <2>1 DEF PendingOk, Saving, Serving, Taken, Remembered, InFlight, ram
  <2>5. Marks' /\ BudgetOk' /\ Handled'
    BY <1>0, <2>1, MarksUntouched DEF Marks, BudgetOk, SavesAreWhole, world, ram, nvs, past
  <2> QED
    BY <2>3, <2>4, <2>5 DEF IInv
<1>2. CASE Wake
  <2>1. /\ pc = "wait" /\ now' = clock /\ notified' = FALSE
        /\ pc' = IF pending.valid THEN "serve" ELSE "search"
        /\ floor' = IF pending.valid THEN 0 ELSE FloorAt(clock)
        /\ turns' = IF pending.valid THEN 0 ELSE SearchGuard
        /\ UNCHANGED <<world, ram, nvs, left, watch, consumed>>
    BY <1>2 DEF Wake, CanWake
  <2>2. FloorAt(clock) \in Nat /\ last <= FloorAt(clock)
    BY <1>0, Numbers DEF FloorAt, Max2, Types
  <2>3. floor' \in Nat /\ turns' \in 0..SearchGuard
    BY <2>1, <2>2, Numbers
  <2>4. Types'
    BY <1>0, <2>1, <2>3 DEF Types, world, ram, nvs, watch, Steps
  <2>5. PendingOk'
    <3>1. CASE pending = Nothing
      BY <2>1, <3>1, NothingIsNotValid DEF PendingOk, Saving, Serving, ram
    <3>2. CASE Taken
      <4>1. pending.valid = TRUE
        BY <3>2 DEF Taken
      <4>2. pc' = "serve" /\ pending' = pending
        BY <2>1, <4>1 DEF ram
      <4>3. Taken'
        BY <2>1, <3>2, <4>2, TakenStays
      <4> QED
        BY <4>2, <4>3 DEF PendingOk, Saving, Serving
    <3> QED
      BY <1>0, <2>1, <3>1, <3>2 DEF PendingOk
  <2>6. Marks'
    BY <1>0, <2>1, <2>2 DEF Marks, ram, nvs
  <2>7. BudgetOk' /\ Handled'
    BY <1>0, <2>1, MarksUntouched DEF BudgetOk, SavesAreWhole, world, ram, nvs
  <2> QED
    BY <2>4, <2>5, <2>6, <2>7 DEF IInv
<1>3. CASE Pausing
  <2>1. /\ pc \in {"search", "serve"}
        /\ UNCHANGED <<clock, clockSet, cache, ram, nvs, watch, consumed>>
        /\ BudgetOk' /\ (SavesAreWhole' => SavesAreWhole)
        /\ pc' = "wait" /\ now' = 0 /\ floor' = 0 /\ turns' = 0
        /\ left' \in 0..ResyncCap /\ notified' = notified
    BY <1>0, <1>3, PausingStep, Slept
  <2>2. Types'
    BY <1>0, <2>1, Numbers DEF Types, ram, nvs, watch, Steps
  <2>3. pending = Nothing \/ Taken'
    BY <1>0, <2>1, TakenStays DEF PendingOk, Serving, ram
  <2>4. PendingOk'
    BY <2>1, <2>3 DEF PendingOk, Saving, Serving, ram
  <2>5. Marks' /\ Handled'
    BY <1>0, <2>1, MarksUntouched DEF Marks, ram, nvs
  <2> QED
    BY <2>1, <2>2, <2>4, <2>5 DEF IInv
<1>4. CASE Dropping
  <2>1. /\ pc \in {"serve", "give_up", "rung"} /\ pending' = Nothing /\ answer' = "none"
        /\ UNCHANGED <<world, last, skip, nvs, watch, past>>
        /\ pc' = "wait" /\ now' = 0 /\ floor' = 0 /\ turns' = 0
        /\ left' \in 0..ResyncCap /\ notified' = notified
    BY <1>4, DroppingStep, Slept
  <2>2. Types'
    BY <1>0, <2>1, Numbers DEF Types, world, nvs, watch, Steps
  <2>3. PendingOk'
    BY <2>1 DEF PendingOk, Saving, Serving
  <2>4. Marks' /\ BudgetOk' /\ Handled'
    BY <1>0, <2>1, MarksUntouched DEF Marks, BudgetOk, SavesAreWhole, world, nvs, past
  <2> QED
    BY <2>2, <2>3, <2>4 DEF IInv
<1>5. CASE Going
  <2>1. /\ pc \in Serving /\ pc' \in Serving
        /\ pc' \in {"rung", "accepted", "posted"} <=> pc \in {"rung", "accepted", "posted"}
        /\ floor' \in Nat
        /\ ready' \in {ready, NoOffer}
        /\ posted' \in Seq(Nat)
        /\ UNCHANGED <<world, ram, nvs, now, turns, left, notified, active, past>>
    BY <1>0, <1>5, GoingStep
  <2>2. Types'
    BY <1>0, <2>1 DEF Types, world, ram, nvs, Steps, Serving, NoOffer, Offers
  <2>3. Taken'
    BY <1>0, <2>1, TakenStays DEF PendingOk, ram
  <2>4. PendingOk'
    BY <2>1, <2>3 DEF PendingOk, Saving, Serving
  <2>5. Marks' /\ BudgetOk' /\ Handled'
    BY <1>0, <2>1, MarksUntouched
       DEF Marks, BudgetOk, SavesAreWhole, Serving, world, ram, nvs, past
  <2> QED
    BY <2>2, <2>4, <2>5 DEF IInv
<1>6. CASE Sounding
  <2>1. /\ pc = "serve" /\ Taken /\ pending.rings < MaxRings /\ pending' = Ringing
        /\ pending.offered \/ pc' \in {"rung", "accepted", "posted"}
        /\ \/ pc' = "rung" /\ UNCHANGED <<now, floor, turns, left, notified>>
           \/ \E ticks \in Int : Sleep(ticks)
        /\ answer' \in {answer, "none"}
        /\ UNCHANGED <<world, last, skip, nvs, watch, consumed>>
    BY <1>0, <1>6, SoundingStep
  <2>2. \/ pc' = "rung" /\ UNCHANGED <<now, floor, turns, left, notified>>
        \/ /\ pc' = "wait" /\ now' = 0 /\ floor' = 0 /\ turns' = 0
           /\ left' \in 0..ResyncCap /\ notified' = notified
    BY <2>1, Slept
  <2>3. Types'
    BY <1>0, <2>1, <2>2, Numbers DEF Types, world, nvs, watch, Steps
  <2>4. Taken'
    BY <1>0, <2>1, RangOnce
  <2>5. PendingOk'
    BY <2>2, <2>4 DEF PendingOk, Saving, Serving
  <2>6. Marks' /\ BudgetOk' /\ Handled'
    BY <1>0, <2>1, <2>2, MarksUntouched DEF Marks, BudgetOk, SavesAreWhole, world, nvs
  <2> QED
    BY <2>3, <2>5, <2>6 DEF IInv
<1>7. CASE RaiseOffer
  <2>1. /\ pc = "posted"
        /\ pending' = [pending EXCEPT !.offered = TRUE]
        /\ UNCHANGED <<world, last, skip, answer, nvs, watch, past>>
        /\ pc' = "wait" /\ now' = 0 /\ floor' = 0 /\ turns' = 0
        /\ left' \in 0..ResyncCap /\ notified' = notified
    BY <1>7, Slept, Numbers DEF RaiseOffer
  <2>3. Types'
    BY <1>0, <2>1, Numbers DEF Types, world, nvs, watch, Steps
  <2>4. Taken'
    BY <1>0, <2>1, OfferRaised DEF PendingOk, Serving
  <2>5. PendingOk'
    BY <2>1, <2>4 DEF PendingOk, Saving, Serving
  <2>6. Marks' /\ BudgetOk' /\ Handled'
    BY <1>0, <2>1, MarksUntouched DEF Marks, BudgetOk, SavesAreWhole, world, nvs, past
  <2> QED
    BY <2>3, <2>5, <2>6 DEF IInv
<1>8. CASE Tapping
  <2>1. /\ answer' \in {"none", "start", "dismiss"} /\ notified' \in BOOLEAN
        /\ active' \in Routines \cup {NoOne} /\ ready' \in Offers /\ posted' \in Seq(Nat)
        /\ UNCHANGED <<world, last, skip, pending, nvs, pc, now, floor, turns, left, past>>
    BY <1>0, <1>8, TappingStep
  <2>2. Types'
    BY <1>0, <2>1 DEF Types, world, nvs
  <2>3. PendingOk'
    BY <1>0, <2>1 DEF PendingOk, Saving, Serving, Taken, Remembered, InFlight
  <2>4. Marks' /\ BudgetOk' /\ Handled'
    BY <1>0, <2>1, MarksUntouched DEF Marks, BudgetOk, SavesAreWhole, world, nvs, past
  <2> QED
    BY <2>2, <2>3, <2>4 DEF IInv
<1>9. CASE Intruding
  <2>1. /\ BudgetOk' /\ (SavesAreWhole' => SavesAreWhole)
        /\ clock' \in 0..MaxTime /\ clockSet' \in BOOLEAN /\ cache' \in Caches
        /\ notified' \in BOOLEAN /\ posted' \in Seq(Nat)
        /\ UNCHANGED <<ram, nvs, pc, now, floor, turns, left, active, ready, past>>
    BY <1>0, <1>9, IntrudingStep
  <2>2. Types'
    BY <1>0, <2>1 DEF Types, ram, nvs
  <2>3. PendingOk'
    BY <1>0, <2>1 DEF PendingOk, Saving, Serving, Taken, Remembered, InFlight, ram
  <2>4. Marks' /\ Handled'
    BY <1>0, <2>1, MarksUntouched DEF Marks, ram, nvs, past
  <2> QED
    BY <2>1, <2>2, <2>3, <2>4 DEF IInv
<1>10. CASE Tick
  <2>1. /\ clock' = Min2(clock + 1, MaxTime) /\ left' = left - 1 /\ left > 0
        /\ UNCHANGED <<clockSet, cache, budget, ram, nvs, pc, now, floor, turns, notified,
                       watch, past>>
    BY <1>10 DEF Tick
  <2>2. clock' \in 0..MaxTime /\ left' \in 0..ResyncCap
    BY <1>0, <2>1, Numbers DEF Types, Min2
  <2>3. Types'
    BY <1>0, <2>1, <2>2 DEF Types, ram, nvs, watch
  <2>4. PendingOk'
    BY <1>0, <2>1 DEF PendingOk, Saving, Serving, Taken, Remembered, InFlight, ram
  <2>5. Marks' /\ BudgetOk' /\ Handled'
    BY <1>0, <2>1, MarksUntouched DEF Marks, BudgetOk, SavesAreWhole, ram, nvs, past
  <2> QED
    BY <2>3, <2>4, <2>5 DEF IInv
<1>11. CASE Reboot
  <2>1. /\ last' = savedLast /\ skip' = savedSkip /\ pending' = Nothing /\ answer' = "none"
        /\ pc' = "wait" /\ now' = 0 /\ floor' = 0 /\ turns' = 0 /\ left' = 0 /\ notified' = FALSE
        /\ active' = NoOne /\ ready' = NoOffer /\ posted' = <<>>
        /\ UNCHANGED <<clock, clockSet, cache, nvs, past>>
    BY <1>11 DEF Reboot
  <2>2. Types'
    <3>1. NoOffer \in Offers
      BY DEF NoOffer, Offers
    <3>2. left' \in 0..ResyncCap /\ turns' \in 0..SearchGuard /\ now' \in 0..MaxTime
          /\ floor' \in Nat
      BY <2>1, Numbers
    <3>3. pc' \in Steps /\ posted' \in Seq(Nat)
      BY <2>1 DEF Steps
    <3> QED
      BY <1>0, <2>1, <3>1, <3>2, <3>3 DEF Types, nvs
  <2>3. PendingOk'
    BY <2>1 DEF PendingOk, Saving, Serving
  <2>4. Marks'
    BY <1>0, <2>1 DEF Marks, Types, nvs
  <2>5. BudgetOk' /\ (SavesAreWhole' => SavesAreWhole /\ pc # "save_ids")
    BY <1>0, <1>11, CutSpends DEF Reboot
  <2>6. Handled'
    BY <1>0, <2>1, <2>5 DEF Handled, HidesOnlyHandled, nvs, past
  <2> QED
    BY <2>2, <2>3, <2>4, <2>5, <2>6 DEF IInv
<1> QED
  BY StepKinds, <1>1, <1>2, <1>3, <1>4, <1>5, <1>6, <1>7, <1>8, <1>9, <1>10, <1>11

-----------------------------------------------------------------------------
(* The theorems.                                                           *)

LEMMA Start ==
  ASSUME Init
  PROVE  IInv
<1>1. clock \in 0..MaxTime
  BY SchedulerAssumption DEF Init, SchedulerAssumption
<1>2. NoOffer \in Offers
  BY DEF NoOffer, Offers
<1>3. /\ 0 \in 0..MaxTime /\ 0 \in 0..SearchGuard /\ 0 \in 0..ResyncCap /\ 0 \in Nat
      /\ 0 <= MaxSkip
  BY Numbers
<1>4. <<>> \in Seq(Routines) /\ <<>> \in Seq(Nat) /\ Len(<<>>) = 0 /\ "wait" \in Steps
  BY DEF Steps
<1>5. Types
  BY <1>1, <1>2, <1>3, <1>4 DEF Init, Types
<1>6. PendingOk
  BY DEF Init, PendingOk, Saving, Serving
<1>7. Marks
  BY Zero DEF Init, Marks
<1>8. BudgetOk
  BY Limits DEF Init, BudgetOk
<1>9. Handled
  BY DEF Init, Handled, HidesOnlyHandled, Range
<1> QED
  BY <1>5, <1>6, <1>7, <1>8, <1>9 DEF IInv

LEMMA Keep ==
  ASSUME IInv, [Next]_vars
  PROVE  IInv'
<1>1. CASE SavingStep
  BY <1>1, FindDueKeeps, SaveLastKeeps, LastFailsKeeps, SaveIdsKeeps, SaveFailsKeeps
     DEF SavingStep
<1>2. CASE Next /\ ~SavingStep
  BY <1>2, OthersKeep
<1>3. CASE UNCHANGED vars
  <2>1. Types' /\ BudgetOk' /\ Marks'
    BY <1>3 DEF IInv, Types, BudgetOk, Marks, vars, world, ram, nvs, task, watch
  <2>2. PendingOk'
    BY <1>3 DEF IInv, PendingOk, Saving, Serving, Taken, Remembered, InFlight, vars, ram, task
  <2>3. Handled'
    BY <1>3 DEF IInv, Handled, HidesOnlyHandled, SavesAreWhole, vars, world, ram, nvs, task, past
  <2> QED
    BY <2>1, <2>2, <2>3 DEF IInv
<1> QED
  BY <1>1, <1>2, <1>3

(* The invariant, under every fault the module has.                        *)
THEOREM Invariance == Spec => []IInv
BY Start, Keep, PTL DEF Spec

(* The types of the task's, the offer's and the phone's state; one fire    *)
(* never sounds more often than RR_SCHED_ALARM_MAX_RINGS.                   *)
THEOREM SchedulerTypeCorrect == Spec => []TypeOK
<1>1. ASSUME IInv PROVE TypeOK
  <2>1. ASSUME pending.valid
        PROVE  /\ InFlight \in Occurrences
               /\ pending.offered \in BOOLEAN
               /\ pending.rings \in 0..MaxRings
    <3>1. pc \notin Saving /\ pending # Nothing
      BY <1>1, <2>1, NothingIsNotValid DEF IInv, PendingOk, Remembered
    <3>2. Taken
      BY <1>1, <3>1 DEF IInv, PendingOk, Types, Steps, Saving, Serving
    <3> QED
      BY <3>2 DEF Taken
  <2> QED
    BY <1>1, <2>1 DEF IInv, Types, TypeOK
<1> QED
  BY <1>1, Invariance, PTL

(* While every save was whole, what the skip list of s_skip hides from the *)
(* search was handled, whatever power cuts, pushes and clock steps do.     *)
THEOREM HiddenIsHandled == Spec => []SkipHidesOnlyHandled
<1>1. ASSUME IInv PROVE SkipHidesOnlyHandled
  BY <1>1 DEF IInv, Handled, HidesOnlyHandled, SkipHidesOnlyHandled
<1> QED
  BY <1>1, Invariance, PTL

(* While every save was whole, find_next never moves the mark past an      *)
(* occurrence it could still have found and that was not handled.          *)
THEOREM NonePassedOver == Spec => NothingIsPassedOver
<1> DEFINE Passes == SavesAreWhole => \A o \in Scheduled :
             o.at \in Max2(last, MinuteOf(floor))..(last' - 1) => o \in consumed'
<1>1. ASSUME IInv, [Next]_vars PROVE [Passes]_last
  <2>0. Types /\ PendingOk /\ Marks /\ Handled
    BY <1>1 DEF IInv
  <2>1. CASE FindDue
    <3>1. PICK e \in Due(floor) :
             /\ \A p \in Due(floor) : e.at <= p.at
             /\ last <= e.at /\ last' = e.at
             /\ consumed' = consumed \cup {e}
             /\ e \in Occurrences
      BY <2>0, <2>1, Found
    <3>2. SUFFICES ASSUME SavesAreWhole, NEW o \in Scheduled,
                          o.at \in Max2(last, MinuteOf(floor))..(last' - 1)
                   PROVE  o \in consumed'
      OBVIOUS
    <3>3. o \in Occurrences /\ o.at \in Nat /\ e.at \in Nat
      BY <2>0, <3>1, ScheduledIsOccurrence, OccurrenceShape DEF Types
    <3>4. MinuteOf(floor) \in Int /\ MinuteOf(floor) <= floor
      BY <2>0, SchedulerAssumption DEF MinuteOf, Types, SchedulerAssumption
    <3>5. o.at >= last /\ o.at >= MinuteOf(floor) /\ o.at < e.at
      BY <2>0, <3>1, <3>2, <3>3, <3>4 DEF Max2, Types
    <3>6. o \notin Due(floor)
      BY <3>1, <3>3, <3>5
    <3>7. o.at = MinuteOf(floor) /\ o.id \in SkippedAt(floor)
      BY <3>5, <3>6 DEF Due, Candidates
    <3>8. ~(floor > last) /\ o.id \in Range(skip)
      BY <3>7 DEF SkippedAt
    <3>9. o.at = last
      BY <2>0, <3>3, <3>4, <3>5, <3>7, <3>8 DEF Types
    <3> QED
      BY <2>0, <3>1, <3>2, <3>3, <3>8, <3>9 DEF Handled, HidesOnlyHandled
  <2>2. CASE Reboot
    <3>1. last' = savedLast
      BY <2>2 DEF Reboot
    <3>2. ASSUME NEW o, o.at \in Max2(last, MinuteOf(floor))..(last' - 1) PROVE FALSE
      <4>1. MinuteOf(floor) \in Int
        BY <2>0, SchedulerAssumption DEF MinuteOf, Types, SchedulerAssumption
      <4>2. Max2(last, MinuteOf(floor)) \in Int /\ Max2(last, MinuteOf(floor)) >= last
        BY <2>0, <4>1 DEF Max2, Types
      <4> QED
        BY <2>0, <3>1, <3>2, <4>2 DEF Marks, Types
    <3> QED
      BY <3>2
  <2>3. CASE SaveLast \/ LastFails \/ SaveIds \/ SaveFails
    BY <2>3 DEF SaveLast, LastFails, SaveIds, SaveFails, ram
  <2>4. CASE WakeWithoutClock \/ Wake \/ RaiseOffer \/ Tick
    BY <2>4 DEF WakeWithoutClock, Wake, RaiseOffer, Tick, ram
  <2>5. CASE Pausing
    BY <1>1, <2>0, <2>5, PausingStep DEF IInv, ram
  <2>6. CASE Dropping
    BY <2>6, DroppingStep
  <2>7. CASE Going
    BY <2>0, <2>7, GoingStep DEF ram
  <2>8. CASE Sounding
    BY <2>0, <2>8, SoundingStep
  <2>9. CASE Tapping
    BY <2>0, <2>9, TappingStep
  <2>10. CASE Intruding
    BY <1>1, <2>0, <2>10, IntrudingStep DEF IInv, ram
  <2>11. CASE UNCHANGED vars
    BY <2>11 DEF vars, ram
  <2> QED
    BY <1>1, StepKinds, <2>1, <2>2, <2>3, <2>4, <2>5, <2>6, <2>7, <2>8, <2>9, <2>10, <2>11
       DEF SavingStep
<1>2. IInv /\ [Next]_vars => [Passes]_last
  BY <1>1
<1>3. Spec => [][Passes]_last
  BY <1>2, Invariance, PTL DEF Spec
<1> QED
  BY <1>3 DEF NothingIsPassedOver

-----------------------------------------------------------------------------
(* The window.                                                             *)

(* Until the clock is set, a pass runs at the time it started, and what is *)
(* in flight is due.                                                       *)
Timed ==
  budget.syncs = MaxSyncs =>
    /\ pc # "wait" => now = clock
    /\ pending.valid \/ pc \in Saving => pending.at <= clock

LEMMA TimedKept ==
  ASSUME IInv, Timed, [Next]_vars
  PROVE  Timed'
<1>0. Types /\ PendingOk /\ Marks /\ BudgetOk
  BY DEF IInv
<1>1. CASE FindDue
  <2>1. PICK o \in Due(floor) : /\ o.at <= now
                                /\ pending' = [valid |-> FALSE, id |-> o.id, at |-> o.at]
    BY <1>0, <1>1, Found
  <2>2. pending'.at = o.at
    BY <2>1
  <2> QED
    BY <1>0, <1>1, <2>1, <2>2 DEF FindDue, Finds, Goto, Timed, world
<1>2. CASE SaveLast
  BY <1>2 DEF SaveLast, Goto, Timed, Saving, world, ram
<1>2a. CASE LastFails
  <2>1. budget'.syncs = budget.syncs
    BY <1>0, <1>2a, FailureSpends DEF LastFails
  <2> QED
    BY <1>2a, <2>1 DEF LastFails, Goto, Timed, Saving, ram
<1>3. CASE SaveIds \/ SaveFails
  <2>1. Remembered /\ Take /\ UNCHANGED clock /\ pc # "wait"
    BY <1>0, <1>3 DEF SaveIds, SaveFails, PendingOk, Saving, world
  <2>2. /\ now' = now
        /\ pending' = Nothing \/ pending'.at = pending.at
    BY <1>0, <2>1, TookIt
  <2>3. budget'.syncs = budget.syncs
    BY <1>0, <1>3, FailureSpends DEF SaveIds, SaveFails, world
  <2>4. pc \in Saving
    BY <1>3 DEF SaveIds, SaveFails, Saving
  <2>5. pending' = Nothing => ~pending'.valid /\ pc' \notin Saving
    BY <2>1, NothingIsNotValid DEF Take, Goto, Saving
  <2> QED
    BY <2>1, <2>2, <2>3, <2>4, <2>5 DEF Timed
<1>4. CASE WakeWithoutClock
  BY <1>4 DEF WakeWithoutClock, CanWake, Timed, Saving, world, ram
<1>5. CASE Wake
  BY <1>5 DEF Wake, Timed, Saving, world, ram
<1>6. CASE Pausing
  BY <1>0, <1>6, PausingStep, Slept DEF Timed, Saving, world, ram
<1>7. CASE Dropping
  BY <1>7, DroppingStep, Slept, NothingIsNotValid DEF Timed, Saving, world
<1>8. CASE Going
  BY <1>0, <1>8, GoingStep DEF Timed, Saving, Serving, world, ram
<1>9. CASE Sounding
  <2>1. pending'.at = pending.at /\ pc = "serve" /\ UNCHANGED world /\ pending.valid
    BY <1>0, <1>9, SoundingStep, RangOnce DEF Taken
  <2>2. pc' = "wait" \/ now' = now
    BY <1>0, <1>9, SoundingStep, Slept
  <2> QED
    BY <2>1, <2>2 DEF Timed, world
<1>10. CASE RaiseOffer
  <2>1. Taken /\ pending' = [pending EXCEPT !.offered = TRUE]
    BY <1>0, <1>10 DEF RaiseOffer, PendingOk, Serving
  <2>2. pending'.at = pending.at /\ pending.valid
    BY <2>1, OfferRaised DEF Taken
  <2>3. pc' = "wait" /\ UNCHANGED world
    BY <1>10, Slept, Numbers DEF RaiseOffer
  <2> QED
    BY <2>2, <2>3 DEF Timed, world
<1>11. CASE Tapping
  BY <1>0, <1>11, TappingStep DEF Timed, world
<1>12. CASE Intruding
  BY <1>0, <1>12, IntrudingStep DEF Timed, ram
<1>13. CASE Tick
  <2>1. /\ pc = "wait" /\ clock' = Min2(clock + 1, MaxTime)
        /\ UNCHANGED <<budget, pc, now, pending>>
    BY <1>13 DEF Tick, ram
  <2>2. ASSUME pending.valid PROVE pending.at \in Nat
    BY <1>0, <2>1, <2>2, InFlightShape, NothingIsNotValid DEF PendingOk, Taken
  <2>3. clock \in Nat /\ clock' \in Nat /\ clock <= clock'
    BY <1>0, <2>1, Numbers DEF Types, Min2
  <2> QED
    BY <2>1, <2>2, <2>3 DEF Timed, Saving
<1>14. CASE Reboot
  BY <1>14, NothingIsNotValid DEF Reboot, Timed, Saving
<1>15. CASE UNCHANGED vars
  BY <1>15 DEF Timed, vars, world, ram, task
<1> QED
  BY StepKinds, <1>1, <1>2, <1>2a, <1>3, <1>4, <1>5, <1>6, <1>7, <1>8, <1>9, <1>10, <1>11,
     <1>12, <1>13, <1>14, <1>15 DEF SavingStep

(* sound_alarm is reached only inside the grace window, and, as long as    *)
(* nobody set the clock, never ahead of the scheduled moment.              *)
THEOREM RingsOnlyInWindow == Spec => RingsInItsWindow
<1> DEFINE InWindow == pending.valid /\ pending'.valid /\ pending'.rings > pending.rings
             => LateBy <= Grace /\ (budget.syncs = MaxSyncs => LateBy >= 0)
<1>1. Init => Timed
  BY NothingIsNotValid DEF Init, Timed, Saving
<1>2. Spec => []Timed
  BY <1>1, TimedKept, Invariance, PTL DEF Spec
<1>3. ASSUME IInv, Timed, [Next]_vars PROVE [InWindow]_vars
  <2>0. Types /\ PendingOk /\ Marks
    BY <1>3 DEF IInv
  <2>1. CASE Sounding
    <3>1. pc = "serve" /\ Taken /\ ~Expired
      BY <2>0, <2>1, SoundingStep
    <3>2. pending.at \in Nat /\ now \in Nat /\ clock \in Nat
      BY <2>0, <3>1, InFlightShape, Numbers DEF Taken, Types
    <3>3. LateBy <= Grace
      BY <3>1, <3>2, Numbers DEF Expired, LateBy
    <3>4. pending.valid
      BY <3>1 DEF Taken
    <3>5. ASSUME budget.syncs = MaxSyncs PROVE LateBy >= 0
      BY <1>3, <3>1, <3>2, <3>4, <3>5 DEF Timed, LateBy
    <3> QED
      BY <3>3, <3>5
  <2>2. CASE pending' = pending /\ ~Sounding
    <3>1. ASSUME pending.valid PROVE ~(pending'.rings > pending.rings)
      <4>1. pc \notin Saving /\ pending # Nothing
        BY <2>0, <3>1, NothingIsNotValid DEF PendingOk, Remembered
      <4>2. pending.rings \in Int
        <5>1. Taken
          BY <2>0, <4>1 DEF PendingOk, Types, Steps, Saving, Serving
        <5> QED
          BY <5>1, Numbers DEF Taken
      <4> QED
        BY <2>2, <4>2
    <3> QED
      BY <3>1
  <2>3. CASE SavingStep /\ pending' # pending
    <3>1. pc \in Saving \/ pending = Nothing
      BY <2>0, <2>3 DEF SavingStep, FindDue, Finds, SaveLast, LastFails, SaveIds, SaveFails,
                        Saving, PendingOk
    <3>2. ~pending.valid
      BY <2>0, <3>1, NothingIsNotValid DEF PendingOk, Remembered
    <3> QED
      BY <3>2
  <2>4. CASE RaiseOffer
    <3>1. Taken /\ pending' = [pending EXCEPT !.offered = TRUE]
      BY <2>0, <2>4 DEF RaiseOffer, PendingOk, Serving
    <3>2. PICK i, a, f, r, l : pending = [valid |-> TRUE, id |-> i, at |-> a,
                                        offered |-> f, rings |-> r, lastRing |-> l]
      BY <3>1 DEF Taken
    <3>3. pending'.rings = pending.rings
      BY <3>1, <3>2
    <3>4. pending.rings \in Int
      BY <3>1, Numbers DEF Taken
    <3> QED
      BY <3>3, <3>4
  <2>5. CASE Dropping \/ Reboot
    BY <2>5, DroppingStep, NothingIsNotValid DEF Reboot
  <2>6. CASE (Next /\ ~SavingStep /\ ~Sounding /\ ~RaiseOffer /\ ~Dropping /\ ~Reboot)
    <3>1. pending' = pending
      BY <1>3, <2>0, <2>6, StepKinds, PausingStep, GoingStep, TappingStep, IntrudingStep
         DEF IInv, WakeWithoutClock, Wake, Tick, ram
    <3> QED
      BY <2>2, <2>6, <3>1
  <2>7. CASE SavingStep /\ pending' = pending
    <3>1. CASE Sounding
      BY <2>1, <3>1
    <3> QED
      BY <2>2, <2>7, <3>1, <2>1
  <2> QED
    BY <1>3, <2>1, <2>3, <2>4, <2>5, <2>6, <2>7
<1>4. IInv /\ Timed /\ [Next]_vars => [InWindow]_vars
  BY <1>3
<1>5. Spec => [][InWindow]_vars
  BY <1>2, <1>4, Invariance, PTL DEF Spec
<1> QED
  BY <1>5 DEF RingsInItsWindow

-----------------------------------------------------------------------------
(* One fire.                                                               *)

Known(o, ids) == o.id \in Range(ids) \/ Len(ids) >= MaxSkip

(* Until a save fails, RAM and NVS differ only while a mark is saved; what *)
(* rang is marked in both, and remembered by its id unless the list was    *)
(* full; and what is about to ring has not rung, unless it was forgotten.  *)
Synced ==
  /\ pc \notin Saving => savedLast = last /\ savedSkip = skip
  /\ pc = "save_ids" => savedLast = last

Searching == pc = "search" => floor = last \/ floor = now - Lookback

Marked ==
  \A o \in fired : /\ o \in Occurrences
                   /\ o.at <= savedLast
                   /\ o.at = savedLast => Known(o, savedSkip)
                   /\ o.at = last => Known(o, skip)

InHand ==
  pending.valid \/ pc \in Saving => pending.at = last /\ Known(InFlight, skip)

AboutToRing ==
  \/ pending.valid /\ ~pending.offered /\ pc \notin {"rung", "accepted", "posted"}
  \/ pc \in Saving /\ now - pending.at <= Grace

Fresh == AboutToRing => InFlight \notin fired \/ pending.id \notin Range(skip)

OnceInv == budget.unsaved = MaxUnsaved => Synced /\ Searching /\ Marked /\ InHand /\ Fresh

LEMMA IntruderSpends ==
  ASSUME BudgetOk, Intruding
  PROVE  budget'.unsaved = budget.unsaved
<1>1. ASSUME NEW k \in {"syncs", "pushes", "starts"}, Spend(k)
      PROVE  budget'.unsaved = budget.unsaved
  <2>1. budget' = [budget EXCEPT ![k] = budget[k] - 1, !.all = budget.all - 1]
    BY <1>1 DEF Spend
  <2> QED
    BY <1>1, <2>1 DEF BudgetOk
<1> QED
  BY <1>1 DEF Intruding, PhoneStart, SetClock, Push

LEMMA OnlyRingRings ==
  ASSUME Next, ~Ring, pc = "serve", pc' = "rung"
  PROVE  FALSE
BY DEF Next, Pass, Search, Serve, WakeWithoutClock, Wake, CanWake, FindGaveUp, FindNothing,
       FindUnread, FindFuture, FindDue, Finds, SaveLast, LastFails, SaveIds, SaveFails,
       ServeAnswered, ServeExpired,
       Withdraw, GiveUp, ServeQuiet, ServeRepeat, ServeWaitToRepeat, ServeMissed,
       ServeDeferred, RequestRefused, RequestAccepted, PostOffer, RaiseOffer, DeferredOffer, TapStart,
       TapNotNow, Finish, PhoneStart, SetClock, Push, Tick, Reboot, Sleep, Goto, task

LEMMA FindDueOnce ==
  ASSUME IInv, OnceInv, FindDue
  PROVE  OnceInv'
<1>0. Types /\ Marks
  BY DEF IInv
<1>1. PICK e \in Due(floor) :
           /\ e \in Scheduled /\ e \in Occurrences
           /\ last <= e.at /\ e.at <= now
           /\ last' = e.at /\ skip' = HandledIds(e)
           /\ pending' = [valid |-> FALSE, id |-> e.id, at |-> e.at]
  BY <1>0, Found
<1>2. /\ pc = "search" /\ pc' = "save_last"
      /\ UNCHANGED <<world, nvs, floor, now, fired>>
  BY DEF FindDue, Goto, Finds
<1>3. SUFFICES ASSUME budget.unsaved = MaxUnsaved
               PROVE  Synced' /\ Searching' /\ Marked' /\ InHand' /\ Fresh'
  BY <1>2 DEF OnceInv, world
<1>4. Synced /\ Searching /\ Marked
  BY <1>3 DEF OnceInv
<1>5. /\ savedLast = last /\ savedSkip = skip /\ last \in Nat /\ now \in Nat /\ floor \in Nat
      /\ last <= floor
  BY <1>0, <1>2, <1>4, Numbers DEF Synced, Saving, Types, Marks
<1>6. e.id \in Routines /\ e.at \in Nat /\ e = Occurrence(e.id, e.at)
  BY <1>1, OccurrenceShape
<1>7. skip \in Seq(Routines) /\ Len(skip) \in Nat
  BY <1>0 DEF Types
<1>8. Known(e, skip')
  <2> DEFINE ids == IF e.at > last THEN <<>> ELSE skip
  <2>1. HandledIds(e) = IF Len(ids) < MaxSkip THEN Append(ids, e.id) ELSE ids
    BY DEF HandledIds
  <2>2. ids \in Seq(Routines) /\ Len(ids) \in Nat
    BY <1>7
  <2> HIDE DEF ids
  <2>3. CASE Len(ids) < MaxSkip
    <3>1. Append(ids, e.id)[Len(ids) + 1] = e.id
          /\ Len(ids) + 1 \in DOMAIN Append(ids, e.id)
      BY <1>6, <2>2
    <3> QED
      BY <1>1, <2>1, <2>3, <3>1 DEF Known, Range
  <2>4. CASE ~(Len(ids) < MaxSkip)
    BY <1>1, <2>1, <2>2, <2>4, Numbers DEF Known
  <2> QED
    BY <2>3, <2>4
<1>9. ASSUME e.at = last, NEW o, Known(o, skip)
      PROVE  Known(o, skip')
  <2>1. skip' = IF Len(skip) < MaxSkip THEN Append(skip, e.id) ELSE skip
    BY <1>1, <1>5, <1>9 DEF HandledIds
  <2>2. CASE Len(skip) < MaxSkip
    <3>1. o.id \in Range(skip)
      BY <1>7, <1>9, <2>2, Numbers DEF Known
    <3>2. \A i \in DOMAIN skip : i \in DOMAIN Append(skip, e.id) /\ Append(skip, e.id)[i] = skip[i]
      BY <1>6, <1>7
    <3> QED
      BY <2>1, <2>2, <3>1, <3>2 DEF Known, Range
  <2>3. CASE ~(Len(skip) < MaxSkip)
    BY <1>9, <2>1, <2>3
  <2> QED
    BY <2>2, <2>3
<1>10. Synced' /\ Searching'
  BY <1>2 DEF Synced, Searching, Saving
<1>11. Marked'
  <2>1. SUFFICES ASSUME NEW o \in fired
                 PROVE  /\ o \in Occurrences
                        /\ o.at <= savedLast
                        /\ o.at = savedLast => Known(o, savedSkip)
                        /\ o.at = last' => Known(o, skip')
    BY <1>2 DEF Marked, nvs, Known
  <2>2. /\ o \in Occurrences /\ o.at <= savedLast
        /\ o.at = savedLast => Known(o, savedSkip)
        /\ o.at = last => Known(o, skip)
    BY <1>4, <2>1 DEF Marked
  <2>3. o.at \in Nat
    BY <2>2, OccurrenceShape
  <2>4. ASSUME o.at = last' PROVE Known(o, skip')
    <3>1. e.at = last /\ o.at = last
      BY <1>1, <1>5, <1>6, <2>2, <2>3, <2>4
    <3> QED
      BY <1>9, <2>2, <3>1
  <2> QED
    BY <2>2, <2>4
<1>12. pending'.valid = FALSE /\ pending'.id = e.id /\ pending'.at = e.at
  BY <1>1
<1>13. InFlight' = e
  BY <1>6, <1>12 DEF InFlight
<1>14. InHand'
  BY <1>1, <1>8, <1>12, <1>13 DEF InHand, Known
<1>15. Fresh'
  <2>1. SUFFICES ASSUME now - e.at <= Grace, e \in fired
                 PROVE  e.id \notin Range(skip')
    BY <1>2, <1>12, <1>13 DEF Fresh, AboutToRing
  <2>2. e.at = last
    BY <1>1, <1>4, <1>5, <1>6, <2>1 DEF Marked
  <2>3. Known(e, skip)
    BY <1>4, <2>1, <2>2 DEF Marked
  <2>4. floor = last
    <3>1. Lookback \in Nat /\ Grace \in Nat /\ Grace <= Lookback
      BY Numbers, SchedulerAssumption DEF SchedulerAssumption
    <3>2. floor = last \/ floor = now - Lookback
      BY <1>2, <1>4 DEF Searching
    <3> QED
      BY <1>5, <2>1, <2>2, <3>1, <3>2
  <2>5. MinuteOf(floor) = last
    BY <1>0, <1>5, <2>4 DEF MinuteOf, Marks
  <2>6. e.id \notin Range(skip)
    BY <1>1, <1>5, <2>2, <2>4, <2>5 DEF Due, Candidates, SkippedAt
  <2>7. Len(skip) >= MaxSkip
    BY <2>3, <2>6 DEF Known
  <2>8. skip' = skip
    BY <1>1, <1>5, <1>7, <2>2, <2>7, Numbers DEF HandledIds
  <2> QED
    BY <2>6, <2>8
<1> QED
  BY <1>10, <1>11, <1>14, <1>15

LEMMA SavesOnce ==
  ASSUME IInv, OnceInv, SaveLast \/ LastFails \/ SaveIds \/ SaveFails
  PROVE  OnceInv'
<1>0. Types /\ PendingOk /\ Marks /\ BudgetOk
  BY DEF IInv
<1>1. CASE SaveLast
  <2>1. /\ pc = "save_last" /\ pc' = "save_ids" /\ savedLast' = last
        /\ UNCHANGED <<world, ram, savedSkip, now, fired>>
    BY <1>1 DEF SaveLast, Goto, past
  <2>2. SUFFICES ASSUME budget.unsaved = MaxUnsaved
                 PROVE  Synced' /\ Searching' /\ Marked' /\ InHand' /\ Fresh'
    BY <2>1 DEF OnceInv, world
  <2>3. Marked /\ InHand /\ Fresh
    BY <2>2 DEF OnceInv
  <2>4. Synced' /\ Searching'
    BY <2>1 DEF Synced, Searching, Saving, ram
  <2>5. ASSUME NEW o \in fired
        PROVE  /\ o \in Occurrences
               /\ o.at <= last
               /\ o.at = last => Known(o, savedSkip) /\ Known(o, skip)
    <3>1. /\ o \in Occurrences /\ o.at <= savedLast
          /\ o.at = savedLast => Known(o, savedSkip)
          /\ o.at = last => Known(o, skip)
      BY <2>3, <2>5 DEF Marked
    <3>2. o.at \in Nat /\ savedLast \in Nat /\ last \in Nat /\ savedLast <= last
      BY <1>0, <3>1, OccurrenceShape, Numbers DEF Types, Marks
    <3> QED
      BY <3>1, <3>2
  <2>6. Marked'
    BY <2>1, <2>5 DEF Marked, Known, ram
  <2>7. InHand' /\ Fresh'
    BY <2>1, <2>3 DEF InHand, Fresh, AboutToRing, InFlight, Known, Saving, ram
  <2> QED
    BY <2>4, <2>6, <2>7
<1>2. CASE SaveIds
  <2>1. /\ pc = "save_ids" /\ savedSkip' = skip /\ Take
        /\ UNCHANGED <<world, last, skip, savedLast, fired>>
    BY <1>2 DEF SaveIds, past
  <2>2. Remembered
    BY <1>0, <2>1 DEF PendingOk, Saving
  <2>3. SUFFICES ASSUME budget.unsaved = MaxUnsaved
                 PROVE  Synced' /\ Searching' /\ Marked' /\ InHand' /\ Fresh'
    BY <2>1 DEF OnceInv, world
  <2>4. Synced /\ Marked /\ InHand /\ Fresh
    BY <2>3 DEF OnceInv
  <2>5. savedLast = last
    BY <2>1, <2>4 DEF Synced
  <2>6. pending.id \in Routines /\ pending.at \in Nat /\ now \in Nat /\ Grace \in Nat
    BY <1>0, <2>2, InFlightShape, Numbers DEF Remembered, Types
  <2>7. Marked'
    BY <2>1, <2>4, <2>5 DEF Marked, Known
  <2>8. CASE now - pending.at > Grace
    <3>1. pending' = Nothing /\ pc' = "search" /\ floor' = pending.at /\ now' = now
      BY <2>1, <2>8 DEF Take, Goto
    <3>2. floor' = last'
      BY <2>1, <2>2, <3>1 DEF Remembered
    <3>3. Synced' /\ Searching'
      BY <2>1, <2>5, <3>1, <3>2 DEF Synced, Searching, Saving
    <3>4. InHand' /\ Fresh'
      BY <3>1, NothingIsNotValid DEF InHand, Fresh, AboutToRing, Saving
    <3> QED
      BY <2>7, <3>3, <3>4
  <2>9. CASE ~(now - pending.at > Grace)
    <3>1. /\ pending' = [valid |-> TRUE, id |-> pending.id, at |-> pending.at,
                         offered |-> FALSE, rings |-> 0, lastRing |-> 0]
          /\ pc' = "serve" /\ now' = now
      BY <2>1, <2>9 DEF Take, Goto
    <3>2. /\ pending'.id = pending.id /\ pending'.at = pending.at
          /\ InFlight' = InFlight
      BY <3>1 DEF InFlight
    <3>3. Synced' /\ Searching'
      BY <2>1, <2>5, <3>1 DEF Synced, Searching, Saving
    <3>4. pending.at = last /\ Known(InFlight, skip)
      BY <2>1, <2>4 DEF InHand, Saving
    <3>5. now - pending.at <= Grace
      BY <2>6, <2>9
    <3>6. InFlight \notin fired \/ pending.id \notin Range(skip)
      BY <2>1, <2>4, <3>5 DEF Fresh, AboutToRing, Saving
    <3>7. InHand'
      BY <2>1, <3>2, <3>4 DEF InHand, Known
    <3>8. Fresh'
      BY <2>1, <3>2, <3>6 DEF Fresh, AboutToRing
    <3> QED
      BY <2>7, <3>3, <3>7, <3>8
  <2> QED
    BY <2>8, <2>9
<1>3. CASE LastFails \/ SaveFails
  <2>1. budget.unsaved > 0 /\ budget'.unsaved = budget.unsaved - 1
    <3>1. budget' = [budget EXCEPT !.unsaved = @ - 1, !.all = @ - 1]
      BY <1>3 DEF LastFails, SaveFails, Spend
    <3>2. budget' = [budget EXCEPT !.unsaved = budget.unsaved - 1, !.all = budget.all - 1]
      BY <3>1
    <3> QED
      BY <1>0, <1>3, <3>2 DEF LastFails, SaveFails, Spend, BudgetOk
  <2>2. budget'.unsaved # MaxUnsaved
    BY <1>0, <2>1, Limits DEF BudgetOk
  <2> QED
    BY <2>2 DEF OnceInv
<1> QED
  BY <1>1, <1>2, <1>3

(* A step that leaves marks, saves and fires alone.                        *)
LEMMA StaysOnce ==
  ASSUME OnceInv, budget'.unsaved = budget.unsaved,
         UNCHANGED <<last, skip, nvs, fired>>,
         pc \notin Saving, pc' \notin Saving,
         pc' = "search" => Searching',
         \/ pending' = Nothing
         \/ /\ pending'.valid = pending.valid /\ InFlight' = InFlight
            /\ pending'.id = pending.id /\ pending'.at = pending.at
            /\ ~pending'.offered /\ pc' \notin {"rung", "accepted", "posted"}
                 => ~pending.offered /\ pc \notin {"rung", "accepted", "posted"}
  PROVE  OnceInv'
<1>1. SUFFICES ASSUME budget.unsaved = MaxUnsaved
               PROVE  Synced' /\ Searching' /\ Marked' /\ InHand' /\ Fresh'
  BY DEF OnceInv
<1>2. Synced /\ Marked /\ InHand /\ Fresh
  BY <1>1 DEF OnceInv
<1>3. Synced' /\ Searching'
  BY <1>2 DEF Synced, Searching, Saving, nvs
<1>4. Marked'
  BY <1>2 DEF Marked, Known, nvs
<1>5. InHand' /\ Fresh'
  <2>1. CASE pending' = Nothing
    BY <2>1, NothingIsNotValid DEF InHand, Fresh, AboutToRing
  <2>2. CASE pending' # Nothing
    BY <1>2, <2>2 DEF InHand, Fresh, AboutToRing, Known
  <2> QED
    BY <2>1, <2>2
<1> QED
  BY <1>3, <1>4, <1>5

LEMMA OthersOnce ==
  ASSUME IInv, OnceInv, Next, ~SavingStep
  PROVE  OnceInv'
<1>0. Types /\ PendingOk /\ Marks /\ BudgetOk
  BY DEF IInv
<1>1. CASE WakeWithoutClock
  <2>1. pc = "wait" /\ UNCHANGED <<budget, last, skip, nvs, fired, pending, pc>>
    BY <1>1 DEF WakeWithoutClock, CanWake, world, ram, past
  <2> QED
    BY <2>1, StaysOnce DEF Saving, InFlight
<1>2. CASE Wake
  <2>1. /\ pc = "wait" /\ pc' = IF pending.valid THEN "serve" ELSE "search"
        /\ now' = clock /\ floor' = IF pending.valid THEN 0 ELSE FloorAt(clock)
        /\ UNCHANGED <<budget, last, skip, nvs, fired, pending>>
    BY <1>2 DEF Wake, CanWake, world, ram
  <2>2. pc' = "search" => Searching'
    BY <2>1 DEF Searching, FloorAt, Max2
  <2> QED
    BY <2>1, <2>2, StaysOnce DEF Saving, InFlight
<1>3. CASE Pausing
  <2>1. /\ pc \in {"search", "serve"} /\ pc' = "wait" /\ budget'.unsaved = budget.unsaved
        /\ UNCHANGED <<last, skip, nvs, fired, pending>>
    BY <1>0, <1>3, PausingStep, Slept DEF ram
  <2> QED
    BY <2>1, StaysOnce DEF Saving, InFlight
<1>4. CASE Dropping
  <2>1. /\ pc \in {"serve", "give_up", "rung"} /\ pc' = "wait" /\ pending' = Nothing
        /\ UNCHANGED <<budget, last, skip, nvs, fired>>
    BY <1>4, DroppingStep, Slept DEF world, past
  <2> QED
    BY <2>1, StaysOnce DEF Saving
<1>5. CASE Going
  <2>1. /\ pc \in Serving /\ pc' \in Serving
        /\ pc' \in {"rung", "accepted", "posted"} <=> pc \in {"rung", "accepted", "posted"}
        /\ UNCHANGED <<budget, last, skip, nvs, fired, pending>>
    BY <1>0, <1>5, GoingStep DEF world, ram, past
  <2> QED
    BY <2>1, StaysOnce DEF Saving, Serving, InFlight
<1>6. CASE ServeRepeat
  <2>1. /\ pc = "serve" /\ Taken /\ pending.rings < MaxRings /\ pending' = Ringing
        /\ pending.offered
    BY <1>0, <1>6, SoundingStep DEF ServeRepeat, Unanswered, Offered, Sounding
  <2>2. /\ pc' = "wait" /\ UNCHANGED <<budget, last, skip, nvs, fired>>
    BY <1>6, Slept, Numbers DEF ServeRepeat, world, past
  <2>3. PICK i, a : \E f, r, l : pending = [valid |-> TRUE, id |-> i, at |-> a,
                                            offered |-> f, rings |-> r, lastRing |-> l]
    BY <2>1 DEF Taken
  <2>4. /\ pending'.valid = pending.valid /\ pending'.id = pending.id
        /\ pending'.at = pending.at /\ pending'.offered = pending.offered
    BY <2>1, <2>3 DEF Ringing
  <2>5. InFlight' = InFlight
    BY <2>4 DEF InFlight
  <2> QED
    BY <2>1, <2>2, <2>4, <2>5, StaysOnce DEF Saving
<1>7. CASE Ring
  <2>1. /\ pc = "serve" /\ Taken /\ pending' = Ringing /\ pc' = "rung"
        /\ fired' = fired \cup {InFlight}
        /\ UNCHANGED <<budget, last, skip, nvs>>
    BY <1>0, <1>7, SoundingStep DEF Ring, Sounding, Goto, world
  <2>2. SUFFICES ASSUME budget.unsaved = MaxUnsaved
                 PROVE  Synced' /\ Searching' /\ Marked' /\ InHand' /\ Fresh'
    BY <2>1 DEF OnceInv
  <2>3. Synced /\ Marked /\ InHand
    BY <2>2 DEF OnceInv
  <2>4. PICK i, a : \E f, r, l : pending = [valid |-> TRUE, id |-> i, at |-> a,
                                            offered |-> f, rings |-> r, lastRing |-> l]
    BY <2>1 DEF Taken
  <2>5. /\ pending'.valid = pending.valid /\ pending'.id = pending.id
        /\ pending'.at = pending.at
    BY <2>1, <2>4 DEF Ringing
  <2>6. InFlight' = InFlight
    BY <2>5 DEF InFlight
  <2>7. savedLast = last /\ savedSkip = skip
    BY <2>1, <2>3 DEF Synced, Saving
  <2>8. pending.valid /\ pending.at = last /\ Known(InFlight, skip)
    BY <2>1, <2>3 DEF InHand, Taken
  <2>9. InFlight \in Occurrences /\ InFlight.at = last /\ last <= last
    BY <1>0, <2>1, <2>8, Numbers DEF Taken, InFlight, Occurrence, Types
  <2>10. Marked'
    <3>1. SUFFICES ASSUME NEW o \in fired \cup {InFlight}
                   PROVE  /\ o \in Occurrences /\ o.at <= savedLast
                          /\ o.at = savedLast => Known(o, savedSkip)
                          /\ o.at = last => Known(o, skip)
      BY <2>1 DEF Marked, Known, nvs
    <3>2. CASE o \in fired
      BY <2>3, <3>2 DEF Marked
    <3>3. CASE o = InFlight
      BY <2>7, <2>8, <2>9, <3>3
    <3> QED
      BY <3>1, <3>2, <3>3
  <2>11. Synced' /\ Searching' /\ Fresh'
    BY <2>1, <2>3 DEF Synced, Searching, Fresh, AboutToRing, Saving, nvs
  <2>12. InHand'
    BY <2>1, <2>5, <2>6, <2>8 DEF InHand, Known
  <2> QED
    BY <2>10, <2>11, <2>12
<1>8. CASE RaiseOffer
  <2>1. /\ pc = "posted" /\ Taken /\ pending' = [pending EXCEPT !.offered = TRUE]
        /\ pc' = "wait" /\ UNCHANGED <<budget, last, skip, nvs, fired>>
    BY <1>0, <1>8, Slept, Numbers DEF RaiseOffer, PendingOk, Serving, world, past
  <2>2. PICK i, a, f, r, l : pending = [valid |-> TRUE, id |-> i, at |-> a,
                                        offered |-> f, rings |-> r, lastRing |-> l]
    BY <2>1 DEF Taken
  <2>3. pending' = [valid |-> TRUE, id |-> i, at |-> a, offered |-> TRUE, rings |-> r,
                    lastRing |-> l]
    BY <2>1, <2>2
  <2>4. /\ pending'.valid = pending.valid /\ pending'.id = pending.id
        /\ pending'.at = pending.at /\ pending'.offered
    BY <2>2, <2>3
  <2>5. InFlight' = InFlight
    BY <2>4 DEF InFlight
  <2> QED
    BY <2>1, <2>4, <2>5, StaysOnce DEF Saving
<1>9. CASE Tapping \/ Tick
  <2>1. /\ UNCHANGED <<budget, last, skip, nvs, pending, pc, now, floor, fired>>
    BY <1>0, <1>9, TappingStep DEF Tick, world, ram, past
  <2> QED
    BY <2>1
       DEF OnceInv, Synced, Searching, Marked, InHand, Fresh, AboutToRing, InFlight, Known, nvs
<1>10. CASE Intruding
  <2>1. UNCHANGED <<last, skip, nvs, pending, pc, now, floor, fired>>
    BY <1>0, <1>10, IntrudingStep DEF ram, past
  <2>2. budget'.unsaved = budget.unsaved
    BY <1>0, <1>10, IntruderSpends
  <2> QED
    BY <2>1, <2>2
       DEF OnceInv, Synced, Searching, Marked, InHand, Fresh, AboutToRing, InFlight, Known, nvs
<1>11. CASE Reboot
  <2>1. /\ last' = savedLast /\ skip' = savedSkip /\ pending' = Nothing
        /\ pc' = "wait" /\ UNCHANGED <<nvs, fired>>
    BY <1>11 DEF Reboot, past
  <2>2. budget'.unsaved = budget.unsaved
    BY <1>0, <1>11, CutSpends DEF Reboot
  <2>3. SUFFICES ASSUME budget.unsaved = MaxUnsaved
                 PROVE  Synced' /\ Searching' /\ Marked' /\ InHand' /\ Fresh'
    BY <2>2 DEF OnceInv
  <2>4. Marked
    BY <2>3 DEF OnceInv
  <2>5. Synced' /\ Searching' /\ Marked'
    BY <2>1, <2>4 DEF Synced, Searching, Marked, Known, Saving, nvs
  <2>6. InHand' /\ Fresh'
    BY <2>1, NothingIsNotValid DEF InHand, Fresh, AboutToRing, Saving
  <2> QED
    BY <2>5, <2>6
<1> QED
  BY StepKinds, <1>1, <1>2, <1>3, <1>4, <1>5, <1>6, <1>7, <1>8, <1>9, <1>10, <1>11 DEF Sounding

(* Until a save fails, an occurrence whose id the list has room for rings  *)
(* as a new fire once, whatever the clock, the cache and the power do.     *)
THEOREM FiresOnce == Spec => FiredAtMostOnce
<1> DEFINE Rings == pc = "serve" /\ pc' = "rung" /\ budget.unsaved = MaxUnsaved
                      /\ pending.id \in Range(skip) => InFlight \notin fired
<1>1. Init => OnceInv
  BY NothingIsNotValid
     DEF Init, OnceInv, Synced, Searching, Marked, InHand, Fresh, AboutToRing, Saving
<1>2. ASSUME IInv, OnceInv, [Next]_vars PROVE OnceInv'
  <2>1. CASE SavingStep
    BY <1>2, <2>1, FindDueOnce, SavesOnce DEF SavingStep
  <2>2. CASE Next /\ ~SavingStep
    BY <1>2, <2>2, OthersOnce
  <2>3. CASE UNCHANGED vars
    BY <1>2, <2>3 DEF OnceInv, Synced, Searching, Marked, InHand, Fresh, AboutToRing, InFlight,
                      Known, vars, world, ram, nvs, task, past
  <2> QED
    BY <1>2, <2>1, <2>2, <2>3
<1>3. Spec => []OnceInv
  BY <1>1, <1>2, Invariance, PTL DEF Spec
<1>4. ASSUME IInv, OnceInv, [Next]_vars PROVE [Rings]_vars
  <2>1. SUFFICES ASSUME pc = "serve", pc' = "rung", budget.unsaved = MaxUnsaved,
                        pending.id \in Range(skip), ~(UNCHANGED vars)
                 PROVE  InFlight \notin fired
    OBVIOUS
  <2>2. Taken /\ Fresh
    BY <1>4, <2>1 DEF IInv, OnceInv, PendingOk, Serving
  <2>3. ~pending.offered
    <3>1. Next
      BY <1>4, <2>1
    <3>2. CASE Ring
      BY <3>2 DEF Ring, NotOffered
    <3>3. CASE ~Ring
      BY <2>1, <3>1, <3>3, OnlyRingRings
    <3> QED
      BY <3>2, <3>3
  <2> QED
    BY <2>1, <2>2, <2>3 DEF Fresh, AboutToRing, Taken
<1>5. IInv /\ OnceInv /\ [Next]_vars => [Rings]_vars
  BY <1>4
<1>6. Spec => [][Rings]_vars
  BY <1>3, <1>5, Invariance, PTL DEF Spec
<1> QED
  BY <1>6 DEF FiredAtMostOnce

-----------------------------------------------------------------------------
(***************************************************************************)
(* Sleeping.  A search leaves nothing due behind that is not marked, or it *)
(* marked an occurrence in every turn, or the list of the minute is full;  *)
(* and as long as nobody notifies the task, the time and the schedule it   *)
(* slept on are those it goes on sleeping on.                              *)
(***************************************************************************)
Since(t) == {o \in consumed : o.at + Minute + Lookback + ResyncCap > t}

Searched == {o \in Since(now + ResyncCap) : IsMarked(o)}

Finite == IsFiniteSet(consumed) /\ consumed \subseteq Occurrences

(* Each turn of the search has marked one more of the last look-back.      *)
Counted ==
  pc = "search" \/ pc \in Saving =>
    \/ notified
    \/ /\ now = clock
       /\ Cardinality(Searched) >= SearchGuard - turns \/ MinuteOverfull

(* It starts at the floor of FloorAt and goes on from the last mark.       *)
Turning ==
  /\ pc = "search" => floor = last \/ (floor = FloorAt(now) /\ turns = SearchGuard)
  /\ pc \in Saving \/ (pc = "search" /\ floor = last) => last + Minute + Lookback > now

Rested ==
  IF pending.valid
  THEN pending.offered \/ Busy
  ELSE left > Repeat => \/ \A o \in Due(FloorAt(clock)) : o.at >= clock + left \/ IsMarked(o)
                        \/ Cardinality(Since(clock + left)) >= SearchGuard
                        \/ MinuteOverfull
                        \/ blind

Resting == pc = "wait" /\ left > 0 /\ ~notified /\ clockSet => Rested

AwakeInv == Finite /\ Counted /\ Turning /\ Resting

(* Minutes begin in order.                                                 *)
LEMMA MinuteGrows ==
  ASSUME NEW f \in Nat, NEW g \in Nat, f <= g
  PROVE  /\ MinuteOf(f) \in Nat /\ MinuteOf(g) \in Nat /\ MinuteOf(f) <= MinuteOf(g)
         /\ MinuteOf(f) <= f /\ f < MinuteOf(f) + Minute
<1> DEFINE qf == f \div Minute
           qg == g \div Minute
           rf == f % Minute
           rg == g % Minute
<1>0. Minute \in Nat \ {0}
  BY SchedulerAssumption DEF SchedulerAssumption
<1>1. f = Minute * qf + rf /\ qf \in Nat /\ rf \in 0..(Minute-1)
  BY <1>0
<1>2. g = Minute * qg + rg /\ qg \in Nat /\ rg \in 0..(Minute-1)
  BY <1>0
<1>2a. MinuteOf(f) = f - rf /\ MinuteOf(g) = g - rg
  BY DEF MinuteOf
<1> HIDE DEF qf, qg, rf, rg
<1>3. qf <= qg
  <2>1. SUFFICES ASSUME qg < qf PROVE FALSE
    BY <1>1, <1>2
  <2>2. qg + 1 <= qf
    BY <2>1, <1>1, <1>2
  <2>3. Minute * (qg + 1) <= Minute * qf
    BY <2>2, <1>0, <1>1, <1>2
  <2>4. Minute * (qg + 1) = Minute * qg + Minute
    BY <1>0, <1>2
  <2> QED
    BY <2>3, <2>4, <1>0, <1>1, <1>2
<1>4. Minute * qf <= Minute * qg
  BY <1>0, <1>1, <1>2, <1>3
<1>5. MinuteOf(f) = Minute * qf /\ MinuteOf(g) = Minute * qg
  <2>1. Minute * qf \in Nat /\ Minute * qg \in Nat
    BY <1>0, <1>1, <1>2
  <2> QED
    BY <1>2a, <1>0, <1>1, <1>2, <2>1
<1>6. MinuteOf(f) \in Nat /\ MinuteOf(g) \in Nat
  BY <1>0, <1>1, <1>2, <1>5
<1> QED
  BY <1>0, <1>1, <1>4, <1>5, <1>6

LEMMA FloorType ==
  ASSUME Types, NEW t \in Nat
  PROVE  /\ FloorAt(t) \in Nat /\ last <= FloorAt(t) /\ t <= FloorAt(t) + Lookback
         /\ FloorAt(t) = last \/ FloorAt(t) = t - Lookback
BY Numbers DEF FloorAt, Max2, Types

LEMMA MarkIsMinute ==
  ASSUME Types, Marks
  PROVE  last \in Nat /\ MinuteOf(last) = last
BY Numbers DEF Types, Marks, MinuteOf

(* What an earlier floor hides of what a later one finds is marked.        *)
LEMMA FloorGrows ==
  ASSUME Types, Marks, NEW f \in Nat, NEW g \in Nat, last <= f, f <= g,
         NEW o \in Due(g), ~IsMarked(o)
  PROVE  o \in Due(f)
<1>1. o \in Scheduled /\ o.at >= MinuteOf(g)
  BY DEF Due, Candidates
<1>2. o.at \in Nat
  BY <1>1, ScheduledIsOccurrence, OccurrenceShape DEF Types
<1>3. o.at >= MinuteOf(f)
  BY <1>1, <1>2, MinuteGrows
<1>4. ~(o.at = MinuteOf(f) /\ o.id \in SkippedAt(f))
  <2>1. SUFFICES ASSUME o.at = MinuteOf(f), o.id \in SkippedAt(f) PROVE FALSE
    OBVIOUS
  <2>2. ~(f > last) /\ o.id \in Range(skip)
    BY <2>1 DEF SkippedAt
  <2>3. f = last
    BY <2>2, MarkIsMinute
  <2>4. o.at = last
    BY <2>1, <2>3, MarkIsMinute
  <2> QED
    BY <2>2, <2>4 DEF IsMarked
<1> QED
  BY <1>1, <1>3, <1>4 DEF Due, Candidates

LEMMA MoreCounted ==
  ASSUME NEW S, NEW T, NEW e, NEW n \in Int, IsFiniteSet(T), S \subseteq T, e \in T \ S,
         Cardinality(S) >= n
  PROVE  Cardinality(T) >= n + 1
<1>1. IsFiniteSet(S) /\ Cardinality(S) \in Nat
  BY FS_Subset, FS_CardinalityType
<1>2. S \cup {e} \subseteq T /\ IsFiniteSet(S \cup {e}) /\ Cardinality(S \cup {e}) = Cardinality(S) + 1
  BY <1>1, FS_AddElement
<1>3. Cardinality(S \cup {e}) <= Cardinality(T) /\ Cardinality(T) \in Nat
  BY <1>2, FS_Subset, FS_CardinalityType
<1> QED
  BY <1>1, <1>2, <1>3

LEMMA AsManyCounted ==
  ASSUME NEW S, NEW T, NEW n \in Int, IsFiniteSet(T), S \subseteq T, Cardinality(S) >= n
  PROVE  Cardinality(T) >= n
<1>1. Cardinality(S) \in Nat /\ Cardinality(T) \in Nat /\ Cardinality(S) <= Cardinality(T)
  BY FS_Subset, FS_CardinalityType
<1> QED
  BY <1>1

LEMMA OneCounted ==
  ASSUME NEW T, NEW e \in T, IsFiniteSet(T)
  PROVE  Cardinality(T) >= 1
<1>1. Cardinality({}) = 0
  BY FS_EmptySet
<1> QED
  BY <1>1, MoreCounted

(* What marking an occurrence makes of the list of its minute.             *)
LEMMA ListAfter ==
  ASSUME Types, NEW e, e.id \in Routines, e.at \in Nat, last <= e.at
  PROVE  /\ \/ e.id \in Range(HandledIds(e))
            \/ e.at = last /\ Len(skip) = MaxSkip /\ HandledIds(e) = skip
         /\ e.at = last => \A id \in Range(skip) : id \in Range(HandledIds(e))
         /\ e.at = last /\ Len(skip) = MaxSkip => HandledIds(e) = skip
<1> DEFINE ids == IF e.at > last THEN <<>> ELSE skip
<1>1. HandledIds(e) = IF Len(ids) < MaxSkip THEN Append(ids, e.id) ELSE ids
  BY DEF HandledIds
<1>2. skip \in Seq(Routines) /\ Len(skip) \in Nat /\ Len(skip) <= MaxSkip /\ last \in Nat
  BY Numbers DEF Types
<1>3. ids \in Seq(Routines) /\ Len(ids) \in Nat
  BY <1>2
<1>4. e.at = last => ids = skip
  BY <1>2
<1>5. e.at # last => ids = <<>>
  BY <1>2
<1>6. Len(ids) < MaxSkip \/ (e.at = last /\ ids = skip /\ Len(skip) = MaxSkip)
  <2>1. CASE e.at = last
    BY <1>2, <1>4, <2>1, Numbers
  <2>2. CASE e.at # last
    <3>1. Len(ids) = 0
      BY <1>5, <2>2
    <3> QED
      BY <3>1, Numbers
  <2> QED
    BY <2>1, <2>2
<1> HIDE DEF ids
<1>7. Append(ids, e.id)[Len(ids) + 1] = e.id /\ Len(ids) + 1 \in DOMAIN Append(ids, e.id)
  BY <1>3
<1>8. \A i \in DOMAIN ids : i \in DOMAIN Append(ids, e.id) /\ Append(ids, e.id)[i] = ids[i]
  BY <1>3
<1>9. e.id \in Range(Append(ids, e.id)) /\ \A id \in Range(ids) : id \in Range(Append(ids, e.id))
  BY <1>7, <1>8 DEF Range
<1>10. CASE Len(ids) < MaxSkip
  <2>1. HandledIds(e) = Append(ids, e.id)
    BY <1>1, <1>10
  <2>2. ~(e.at = last /\ Len(skip) = MaxSkip)
    BY <1>4, <1>10, <1>2, Numbers
  <2>3. e.id \in Range(HandledIds(e)) /\ \A id \in Range(ids) : id \in Range(HandledIds(e))
    BY <1>9, <2>1
  <2>4. e.at = last => \A id \in Range(skip) : id \in Range(HandledIds(e))
    BY <1>4, <2>3
  <2> QED
    BY <2>2, <2>3, <2>4
<1>11. CASE ~(Len(ids) < MaxSkip)
  BY <1>1, <1>6, <1>11
<1> QED
  BY <1>10, <1>11

(* The turn that marks one more occurrence.                                *)
LEMMA FindDueAwake ==
  ASSUME IInv, AwakeInv, FindDue
  PROVE  AwakeInv'
<1>0. Types /\ Marks
  BY DEF IInv
<1>1. PICK e \in Due(floor) :
           /\ e \in Scheduled /\ e \in Occurrences
           /\ \A p \in Due(floor) : e.at <= p.at
           /\ last <= e.at /\ e.at <= now
           /\ last' = e.at /\ skip' = HandledIds(e)
           /\ consumed' = consumed \cup {e}
  BY <1>0, Found
<1>2. /\ pc = "search" /\ pc' = "save_last" /\ turns' = turns - 1 /\ turns > 0
      /\ UNCHANGED <<clock, cache, floor, now, notified>>
  BY DEF FindDue, Goto, Finds, world
<1>3. e.id \in Routines /\ e.at \in Nat /\ e = Occurrence(e.id, e.at)
  BY <1>1, OccurrenceShape
<1>4. /\ last \in Nat /\ MinuteOf(last) = last /\ now \in Nat /\ floor \in Nat /\ last <= floor
      /\ Minute \in Nat \ {0} /\ turns \in Nat /\ turns <= SearchGuard
      /\ Lookback \in Nat /\ ResyncCap \in Nat /\ SearchGuard \in Nat
  BY <1>0, <1>2, MarkIsMinute, Numbers, SchedulerAssumption
     DEF Types, Marks, SchedulerAssumption
<1>5. floor = last \/ (floor = FloorAt(now) /\ turns = SearchGuard)
  BY <1>2 DEF AwakeInv, Turning
<1>6. e.at + Minute + Lookback > now
  <2>1. CASE floor = last
    BY <1>1, <1>2, <1>3, <1>4, <2>1 DEF AwakeInv, Turning
  <2>2. CASE floor # last
    <3>1. now <= floor + Lookback
      BY <1>0, <1>4, <1>5, <2>2, FloorType
    <3>2. MinuteOf(floor) \in Nat /\ floor < MinuteOf(floor) + Minute
      BY <1>4, MinuteGrows
    <3>3. e.at >= MinuteOf(floor)
      BY DEF Due, Candidates
    <3> QED
      BY <1>3, <1>4, <3>1, <3>2, <3>3
  <2> QED
    BY <2>1, <2>2
<1>7. /\ e.id \in Range(skip') \/ (e.at = last /\ Len(skip) = MaxSkip /\ skip' = skip)
      /\ e.at = last => \A id \in Range(skip) : id \in Range(skip')
      /\ e.at = last /\ Len(skip) = MaxSkip => skip' = skip
  BY <1>0, <1>1, <1>3, ListAfter
<1>8. Finite'
  BY <1>1, FS_AddElement DEF AwakeInv, Finite
<1>9. Turning'
  BY <1>1, <1>2, <1>6 DEF Turning, Saving
<1>10. Resting'
  BY <1>2 DEF Resting
<1>11. Counted'
  <2>1. SUFFICES ASSUME ~notified
                 PROVE  Cardinality(Searched)' >= SearchGuard - turns' \/ MinuteOverfull'
    BY <1>2 DEF Counted, AwakeInv
  <2>2. Cardinality(Searched) >= SearchGuard - turns \/ MinuteOverfull
    BY <1>2, <2>1 DEF AwakeInv, Counted
  <2>3. Scheduled' = Scheduled
    BY <1>2 DEF Scheduled
  <2>4. CASE e.id \notin Range(skip')
    BY <1>1, <1>7, <2>3, <2>4 DEF MinuteOverfull
  <2>5. CASE e.id \in Range(skip') /\ floor = last /\ MinuteOverfull
    <3>1. PICK p \in Scheduled : p.at = last /\ p.id \notin Range(skip)
      BY <2>5 DEF MinuteOverfull
    <3>2. p \in Due(floor)
      BY <1>4, <2>5, <3>1 DEF Due, Candidates, SkippedAt
    <3>3. e.at = last
      BY <1>1, <1>3, <1>4, <3>1, <3>2
    <3>4. skip' = skip
      BY <1>7, <2>5, <3>3 DEF MinuteOverfull
    <3> QED
      BY <1>1, <2>3, <2>5, <3>1, <3>3, <3>4 DEF MinuteOverfull
  <2>6. CASE e.id \in Range(skip') /\ ~(floor = last /\ MinuteOverfull)
    <3> DEFINE S == Searched
               T == Searched'
    <3>1. S \subseteq T
      <4>1. SUFFICES ASSUME NEW o \in S PROVE o \in T
        OBVIOUS
      <4>2. /\ o \in consumed /\ IsMarked(o)
            /\ o.at + Minute + Lookback + ResyncCap > now + ResyncCap
        BY DEF Searched, Since
      <4>3. o.at \in Nat
        BY <4>2, OccurrenceShape DEF AwakeInv, Finite
      <4>4. IsMarked(o)'
        BY <1>1, <1>3, <1>4, <1>7, <4>2, <4>3 DEF IsMarked
      <4> QED
        BY <1>1, <1>2, <4>2, <4>4 DEF Searched, Since
    <3>2. e \in T
      <4>1. IsMarked(e)'
        BY <1>1, <2>6 DEF IsMarked
      <4>2. e.at + Minute + Lookback + ResyncCap > now + ResyncCap
        BY <1>3, <1>4, <1>6
      <4> QED
        BY <1>1, <1>2, <4>1, <4>2 DEF Searched, Since
    <3>3. IsFiniteSet(T)
      BY <1>8, FS_Subset DEF Finite, Searched, Since
    <3>4. Cardinality(S) >= SearchGuard - turns
      <4>1. CASE floor = last
        BY <2>2, <2>6, <4>1
      <4>2. CASE floor # last
        <5>1. Cardinality(S) \in Nat
          BY <3>1, <3>3, FS_Subset, FS_CardinalityType
        <5> QED
          BY <1>4, <1>5, <4>2, <5>1
      <4> QED
        BY <4>1, <4>2
    <3>5. CASE e \notin S
      <4> HIDE DEF S, T
      <4>1. SearchGuard - turns \in Int
        BY <1>4
      <4>2. Cardinality(T) >= SearchGuard - turns + 1
        BY <3>1, <3>2, <3>3, <3>4, <3>5, <4>1, MoreCounted
      <4>3. Cardinality(T) >= SearchGuard - turns'
        BY <1>2, <1>4, <4>2, <3>3, FS_CardinalityType
      <4> QED
        BY <4>3 DEF T
    <3>6. CASE e \in S
      <4>1. e.at = last /\ e.id \in Range(skip)
        BY <1>1, <1>3, <1>4, <3>6 DEF Searched, IsMarked
      <4>2. floor # last
        BY <1>4, <4>1 DEF Due, Candidates, SkippedAt
      <4>3. turns = SearchGuard
        BY <1>5, <4>2
      <4> HIDE DEF S, T
      <4>4. Cardinality(T) >= 1
        BY <3>2, <3>3, OneCounted
      <4>5. SearchGuard - turns' = 1
        BY <1>2, <1>4, <4>3
      <4> QED
        BY <4>4, <4>5 DEF T
    <3> QED
      BY <3>5, <3>6
  <2> QED
    BY <2>4, <2>5, <2>6
<1> QED
  BY <1>8, <1>9, <1>10, <1>11 DEF AwakeInv

(* What the search leaves behind when the task goes to sleep on it.        *)
LEMMA SearchRests ==
  ASSUME IInv, AwakeInv, FindGaveUp \/ FindNothing \/ FindUnread \/ FindFuture, ~notified
  PROVE  Rested'
<1>0. Types /\ Marks /\ PendingOk
  BY DEF IInv
<1>1. /\ pc = "search" /\ pending = Nothing /\ pc' = "wait"
      /\ UNCHANGED <<clock, cache, last, skip, pending, consumed>>
  BY <1>0 DEF FindGaveUp, FindNothing, FindUnread, FindFuture, Finds, Sleep, PendingOk, world,
     ram, past
<1>2. /\ now = clock
      /\ Cardinality(Searched) >= SearchGuard - turns \/ MinuteOverfull
  BY <1>1 DEF AwakeInv, Counted
<1>3. /\ now \in Nat /\ clock \in Nat /\ floor \in Nat /\ last \in Nat /\ last <= floor
      /\ Lookback \in Nat /\ ResyncCap \in Nat /\ SearchGuard \in Nat
      /\ Minute \in Nat
  BY <1>0, <1>1, Numbers, SchedulerAssumption DEF Types, Marks, SchedulerAssumption
<1>4. ~pending'.valid
  BY <1>1, NothingIsNotValid
<1>5. /\ Scheduled' = Scheduled
      /\ \A o : IsMarked(o)' = IsMarked(o)
      /\ \A f : Due(f)' = Due(f)
      /\ FloorAt(clock)' = FloorAt(now)
      /\ MinuteOverfull' = MinuteOverfull
  BY <1>1, <1>2 DEF Scheduled, IsMarked, Due, Candidates, SkippedAt, FloorAt, MinuteOverfull
<1>6. left' \in Nat /\ left' <= ResyncCap
  <2>1. left' \in 0..ResyncCap
    BY <1>0, PausingStep, Slept DEF Pausing, IInv
  <2> QED
    BY <1>3, <2>1
<1>7. CASE FindGaveUp
  <2>1. CASE Cardinality(Searched) >= SearchGuard - turns
    <3>1. turns = 0
      BY <1>7 DEF FindGaveUp
    <3> DEFINE S == Searched
               T == Since(clock + left)'
    <3>2. S \subseteq T
      <4>1. SUFFICES ASSUME NEW o \in S PROVE o \in T
        OBVIOUS
      <4>2. o \in consumed /\ o.at + Minute + Lookback + ResyncCap > now + ResyncCap
        BY DEF Searched, Since
      <4>3. o.at \in Nat
        BY <4>2, OccurrenceShape DEF AwakeInv, Finite
      <4>4. o.at + Minute + Lookback + ResyncCap > clock + left'
        BY <1>2, <1>3, <1>6, <4>2, <4>3
      <4> QED
        BY <1>1, <4>2, <4>4 DEF Since
    <3>3. IsFiniteSet(T)
      BY <1>1, FS_Subset DEF AwakeInv, Finite, Since
    <3>4. Cardinality(S) >= SearchGuard
      BY <1>3, <2>1, <3>1
    <3> HIDE DEF S, T
    <3>5. Cardinality(T) >= SearchGuard
      BY <1>3, <3>2, <3>3, <3>4, AsManyCounted
    <3> QED
      BY <1>4, <3>5 DEF Rested, T
  <2>2. CASE MinuteOverfull
    BY <1>4, <1>5, <2>2 DEF Rested
  <2> QED
    BY <1>2, <2>1, <2>2
<1>8. CASE FindNothing \/ FindFuture
  <2>1. ASSUME NEW o \in Due(FloorAt(now)), ~IsMarked(o)
        PROVE  o \in Due(floor)
    <3>1. floor = last \/ floor = FloorAt(now)
      BY <1>1 DEF AwakeInv, Turning
    <3>2. FloorAt(now) \in Nat /\ last <= FloorAt(now)
      BY <1>0, <1>3, FloorType
    <3>3. floor <= FloorAt(now)
      BY <1>3, <3>1, <3>2
    <3> QED
      BY <1>0, <1>3, <2>1, <3>2, <3>3, FloorGrows
  <2>2. \A o \in Due(FloorAt(now)) : o.at >= clock + left' \/ IsMarked(o)
    <3>1. CASE FindNothing
      BY <2>1, <3>1 DEF FindNothing
    <3>2. CASE FindFuture
      <4> DEFINE e == Earliest(Due(floor))
      <4>1. e \in Due(floor) /\ \A p \in Due(floor) : e.at <= p.at
        BY <1>0, <3>2, EarliestIsFirst DEF FindFuture, Due, Candidates, Types
      <4>2. \A p \in Due(floor) : p.at \in Nat
        BY <1>0, ScheduledIsOccurrence, OccurrenceShape DEF Due, Candidates, Types
      <4>3. e.at > now /\ left' = Min2(Max2(e.at - now, 1), ResyncCap)
        BY <3>2 DEF FindFuture, Sleep
      <4> HIDE DEF e
      <4>4. e.at >= clock + left'
        BY <1>2, <1>3, <4>1, <4>2, <4>3 DEF Min2, Max2
      <4>5. ASSUME NEW o \in Due(FloorAt(now)), ~IsMarked(o) PROVE o.at >= clock + left'
        <5>1. e.at <= o.at /\ e.at \in Nat /\ o.at \in Nat
          BY <2>1, <4>1, <4>2, <4>5
        <5> QED
          BY <1>3, <1>6, <4>4, <5>1
      <4> QED
        BY <4>5
    <3> QED
      BY <1>8, <3>1, <3>2
  <2>3. \A o \in Due(FloorAt(clock))' : o.at >= clock' + left' \/ IsMarked(o)'
    BY <1>1, <1>2, <1>5, <2>2
  <2> QED
    BY <1>4, <2>3 DEF Rested
<1>9. CASE FindUnread
  BY <1>4, <1>9 DEF FindUnread, Rested
<1> QED
  BY <1>7, <1>8, <1>9

(* A rest goes on while time passes.                                       *)
LEMMA TickRests ==
  ASSUME IInv, AwakeInv, Tick, clockSet
  PROVE  Rested'
<1>0. Types /\ Marks
  BY DEF IInv
<1>1. /\ pc = "wait" /\ left > 0 /\ ~notified
      /\ clock' = Min2(clock + 1, MaxTime) /\ left' = left - 1
      /\ UNCHANGED <<clockSet, cache, last, skip, pending, active, consumed, blind>>
  BY DEF Tick, ram, watch, past
<1>2. clock \in Nat /\ left \in Nat /\ clock' + left' <= clock + left /\ clock' \in Nat
      /\ left' < left /\ left' \in Nat /\ clock <= clock'
  BY <1>0, <1>1, Numbers DEF Types, Min2
<1> DEFINE m == clock' + left'
           n == clock + left
<1>2a. m \in Int /\ n \in Int /\ m <= n
  <2>1. m \in Int
    BY <1>2
  <2>2. n \in Int
    BY <1>2
  <2>3. m <= n
    BY <1>2
  <2> QED
    BY <2>1, <2>2, <2>3
<1> HIDE DEF m, n
<1>2b. \A k \in Int : (k >= n => k >= m) /\ (k > n => k > m)
  BY <1>2a
<1>3. Rested
  BY <1>1 DEF AwakeInv, Resting
<1>4. CASE pending.valid
  BY <1>1, <1>3, <1>4 DEF Rested, Busy
<1>5. CASE ~pending.valid
  <2>1. SUFFICES ASSUME left' > Repeat
                 PROVE  \/ \A o \in Due(FloorAt(clock))' : o.at >= clock' + left' \/ IsMarked(o)'
                        \/ Cardinality(Since(clock + left)') >= SearchGuard
                        \/ MinuteOverfull'
                        \/ blind'
    BY <1>1, <1>5 DEF Rested
  <2>2. left > Repeat
    BY <1>2, <2>1, Numbers
  <2>3. \/ \A o \in Due(FloorAt(clock)) : o.at >= clock + left \/ IsMarked(o)
        \/ Cardinality(Since(clock + left)) >= SearchGuard
        \/ MinuteOverfull
        \/ blind
    BY <1>3, <1>5, <2>2 DEF Rested
  <2>4. /\ \A o : IsMarked(o)' = IsMarked(o)
        /\ \A f : Due(f)' = Due(f)
        /\ FloorAt(clock)' = FloorAt(clock')
        /\ MinuteOverfull' = MinuteOverfull
    BY <1>1 DEF Scheduled, IsMarked, Due, Candidates, SkippedAt, FloorAt, MinuteOverfull
  <2>5. ASSUME Cardinality(Since(clock + left)) >= SearchGuard
        PROVE  Cardinality(Since(clock + left)') >= SearchGuard
    <3> DEFINE S == Since(clock + left)
               T == Since(clock + left)'
    <3>1. S \subseteq T
      <4>1. SUFFICES ASSUME NEW o \in S PROVE o \in T
        OBVIOUS
      <4>2. o \in consumed /\ o.at + Minute + Lookback + ResyncCap > clock + left
        BY DEF Since
      <4>3. o.at \in Nat /\ Minute \in Nat /\ Lookback \in Nat /\ ResyncCap \in Nat
        BY <4>2, OccurrenceShape, Numbers, SchedulerAssumption
           DEF AwakeInv, Finite, SchedulerAssumption
      <4>4. o.at + Minute + Lookback + ResyncCap \in Int
        BY <4>3
      <4>5. o.at + Minute + Lookback + ResyncCap > clock' + left'
        BY <1>2b, <4>2, <4>4 DEF m, n
      <4> QED
        BY <1>1, <4>2, <4>5 DEF Since
    <3>2. IsFiniteSet(T)
      BY <1>1, FS_Subset DEF AwakeInv, Finite, Since
    <3>3. SearchGuard \in Int /\ Cardinality(S) >= SearchGuard
      BY <2>5, Numbers
    <3> HIDE DEF S, T
    <3>4. Cardinality(T) >= SearchGuard
      BY <3>1, <3>2, <3>3, AsManyCounted
    <3> QED
      BY <3>4 DEF T
  <2>6. CASE \A o \in Due(FloorAt(clock)) : o.at >= clock + left \/ IsMarked(o)
    <3>1. /\ FloorAt(clock) \in Nat /\ FloorAt(clock') \in Nat /\ last <= FloorAt(clock)
          /\ FloorAt(clock) <= FloorAt(clock')
      BY <1>0, <1>1, <1>2, Numbers DEF FloorAt, Max2, Types
    <3>2. ASSUME NEW o \in Due(FloorAt(clock')), ~IsMarked(o) PROVE o.at >= clock' + left'
      <4>1. o \in Due(FloorAt(clock))
        BY <1>0, <3>1, <3>2, FloorGrows
      <4>2. o.at \in Nat
        BY <1>0, <4>1, ScheduledIsOccurrence, OccurrenceShape DEF Due, Candidates, Types
      <4>3. o.at >= clock + left
        BY <2>6, <3>2, <4>1
      <4> QED
        BY <1>2b, <4>2, <4>3 DEF m, n
    <3>3. Due(FloorAt(clock))' = Due(FloorAt(clock'))
      BY <1>1, <2>4 DEF Scheduled, Due, Candidates, SkippedAt, FloorAt
    <3> QED
      BY <2>4, <3>2, <3>3
  <2> QED
    BY <1>1, <2>3, <2>4, <2>5, <2>6
<1> QED
  BY <1>4, <1>5

(* A pass that ends without a search rests a repeat interval at the most,  *)
(* or leaves an offer up or a fire that waits for a routine to end.        *)
LEMMA PassRests ==
  ASSUME IInv, Next, pc \in Serving, pc' = "wait", ~Reboot
  PROVE  Rested'
<1>0. Types /\ PendingOk
  BY DEF IInv
<1>1. Taken /\ pending.valid
  BY <1>0 DEF PendingOk, Taken
<1>2. CASE Dropping
  <2>1. pending' = Nothing /\ (Sleep(1) \/ Sleep(Repeat))
    BY <1>2 DEF Dropping, ServeAnswered, GiveUp, ServeMissed, RequestRefused, Clear
  <2>2. left' \in Nat /\ left' <= Repeat
    BY <2>1, Numbers DEF Sleep, Min2, Max2
  <2>3. ~(left' > Repeat)
    BY <2>2, Numbers
  <2> QED
    BY <2>1, <2>3, NothingIsNotValid DEF Rested
<1>3. CASE Pausing
  BY <1>1, <1>3 DEF Pausing, FindGaveUp, FindNothing, FindUnread, FindFuture, Finds, Serving,
     ServeQuiet, ServeWaitToRepeat, ServeDeferred, Unanswered, Offered, Rested, Busy, ram, watch
<1>4. CASE ServeRepeat
  <2>1. pending.offered /\ pending' = Ringing
    BY <1>4 DEF ServeRepeat, Unanswered, Offered
  <2>2. PICK i, a, f, r, l : pending = [valid |-> TRUE, id |-> i, at |-> a,
                                        offered |-> f, rings |-> r, lastRing |-> l]
    BY <1>1 DEF Taken
  <2>3. pending'.valid = pending.valid /\ pending'.offered = pending.offered
    BY <2>1, <2>2 DEF Ringing
  <2> QED
    BY <1>1, <2>1, <2>3 DEF Rested
<1>5. CASE RaiseOffer
  <2>1. pending' = [pending EXCEPT !.offered = TRUE]
    BY <1>5 DEF RaiseOffer
  <2>2. PICK i, a, f, r, l : pending = [valid |-> TRUE, id |-> i, at |-> a,
                                        offered |-> f, rings |-> r, lastRing |-> l]
    BY <1>1 DEF Taken
  <2>3. pending'.valid /\ pending'.offered
    BY <2>1, <2>2
  <2> QED
    BY <2>3 DEF Rested
<1>6. CASE WakeWithoutClock \/ Wake \/ SavingStep \/ Going \/ Ring \/ Tick
  <2>1. pc' # "wait" \/ pc = "wait" \/ pc \notin Serving
    BY <1>0, <1>6, GoingStep DEF WakeWithoutClock, Wake, CanWake, SavingStep, FindDue, Finds,
       SaveLast, LastFails, SaveIds, SaveFails, Ring, Goto, Tick, Serving
  <2> QED
    BY <2>1 DEF Serving
<1>7. CASE Tapping \/ Intruding
  <2>1. pc' = pc
    BY <1>0, <1>7, TappingStep, IntrudingStep DEF IInv
  <2> QED
    BY <2>1 DEF Serving
<1> QED
  BY StepKinds, <1>2, <1>3, <1>4, <1>5, <1>6, <1>7 DEF Sounding

(* What others do leaves the search and the rest as they are, or notifies. *)
LEMMA AwakeFrame ==
  ASSUME AwakeInv, UNCHANGED <<consumed, blind, last, skip, pending, pc, now, floor, turns, left>>,
         notified' \/ (UNCHANGED <<clock, clockSet, cache, notified>> /\ (Busy => Busy'))
  PROVE  AwakeInv'
<1>1. Finite'
  BY DEF AwakeInv, Finite
<1>2. Turning'
  BY DEF AwakeInv, Turning, FloorAt
<1>3. CASE notified'
  BY <1>1, <1>2, <1>3 DEF AwakeInv, Counted, Resting
<1>4. CASE UNCHANGED <<clock, clockSet, cache, notified>> /\ (Busy => Busy')
  <2>1. MinuteOverfull' = MinuteOverfull /\ Searched' = Searched
        /\ Since(clock + left)' = Since(clock + left)
    BY <1>4 DEF MinuteOverfull, Scheduled, Searched, Since, IsMarked
  <2>2. Due(FloorAt(clock))' = Due(FloorAt(clock)) /\ \A o : IsMarked(o)' = IsMarked(o)
    BY <1>4 DEF Scheduled, IsMarked, Due, Candidates, SkippedAt, FloorAt
  <2>3. Counted'
    BY <1>4, <2>1 DEF AwakeInv, Counted
  <2>4. Rested => Rested'
    BY <1>4, <2>1, <2>2 DEF Rested
  <2>5. Resting'
    BY <1>4, <2>4 DEF AwakeInv, Resting
  <2> QED
    BY <1>1, <1>2, <2>3, <2>5 DEF AwakeInv
<1> QED
  BY <1>3, <1>4

LEMMA TapsNotify ==
  ASSUME Types, Tapping
  PROVE  notified' \/ (UNCHANGED <<clock, clockSet, cache, notified>> /\ (Busy => Busy'))
<1>1. \A i \in DOMAIN cache : cache[i].id \in Routines
  BY CacheShape DEF Types
<1>2. NoOne \notin Routines
  BY SchedulerAssumption DEF SchedulerAssumption
<1>3. CASE DeferredOffer
  BY <1>3 DEF DeferredOffer, Busy, world, task
<1>4. CASE TapStart
  BY <1>1, <1>2, <1>4 DEF TapStart, Report, Rearm, Busy, world
<1>5. CASE TapNotNow
  BY <1>5 DEF TapNotNow, Report, Rearm, Busy, world
<1>6. CASE Finish
  BY <1>6 DEF Finish, Rearm
<1> QED
  BY <1>3, <1>4, <1>5, <1>6 DEF Tapping

LEMMA IntrudersNotify ==
  ASSUME Intruding
  PROVE  notified' \/ (UNCHANGED <<clock, clockSet, cache, notified>> /\ (Busy => Busy'))
BY DEF Intruding, PhoneStart, SetClock, Push, Rearm, Busy, task

LEMMA SavesAwake ==
  ASSUME IInv, AwakeInv, SaveLast \/ LastFails \/ SaveIds \/ SaveFails
  PROVE  AwakeInv'
<1>0. Types /\ PendingOk
  BY DEF IInv
<1>1. /\ pc \in Saving
      /\ UNCHANGED <<clock, cache, consumed, last, skip, now, turns, notified>>
      /\ \/ pc' = "save_ids" /\ floor' = floor
         \/ pc' = "search" /\ floor' = last
         \/ pc' = "serve"
  <2>1. CASE SaveLast \/ LastFails
    BY <2>1 DEF SaveLast, LastFails, Goto, Saving, world, ram, past
  <2>2. CASE SaveIds \/ SaveFails
    <3>1. pc \in Saving /\ Take /\ UNCHANGED <<clock, cache, consumed, last, skip, turns>>
      BY <2>2 DEF SaveIds, SaveFails, Saving, world, past
    <3>2. Remembered
      BY <1>0, <3>1 DEF PendingOk
    <3>3. /\ UNCHANGED <<now, notified>>
          /\ \/ pc' = "serve"
             \/ pc' = "search" /\ floor' = last
      BY <1>0, <3>1, <3>2, TookIt
    <3> QED
      BY <3>1, <3>3
  <2> QED
    BY <2>1, <2>2
<1>2. Finite' /\ Resting'
  BY <1>1 DEF AwakeInv, Finite, Resting
<1>3. MinuteOverfull' = MinuteOverfull /\ Searched' = Searched
  BY <1>1 DEF MinuteOverfull, Scheduled, Searched, Since, IsMarked
<1>4. Counted'
  BY <1>1, <1>3 DEF AwakeInv, Counted
<1>5. Turning'
  BY <1>1 DEF AwakeInv, Turning, Saving
<1> QED
  BY <1>2, <1>4, <1>5 DEF AwakeInv

LEMMA WakeAwake ==
  ASSUME IInv, AwakeInv, Wake
  PROVE  AwakeInv'
<1>0. Types
  BY DEF IInv
<1>1. /\ now' = clock /\ pc' \in {"serve", "search"}
      /\ pc' = "search" => floor' = FloorAt(clock) /\ turns' = SearchGuard
      /\ UNCHANGED <<clock, cache, consumed, last, skip>>
  BY DEF Wake, world, ram, past
<1>2. clock \in Nat /\ SearchGuard \in Nat /\ Lookback \in Nat /\ Minute \in Nat \ {0}
      /\ last \in Nat
  BY <1>0, Numbers, SchedulerAssumption DEF Types, SchedulerAssumption
<1>3. Finite' /\ Resting'
  BY <1>1 DEF AwakeInv, Finite, Resting
<1>4. Counted'
  <2>1. IsFiniteSet(Searched')
    BY <1>3, FS_Subset DEF Finite, Searched, Since
  <2>2. Cardinality(Searched') \in Nat
    BY <2>1, FS_CardinalityType
  <2>3. pc' = "search" => Cardinality(Searched') >= SearchGuard - turns'
    <3> DEFINE T == Searched'
    <3>1. Cardinality(T) \in Nat
      BY <2>2
    <3> HIDE DEF T
    <3>2. pc' = "search" => Cardinality(T) >= SearchGuard - turns'
      BY <1>1, <1>2, <3>1
    <3> QED
      BY <3>2 DEF T
  <2> QED
    BY <1>1, <2>3 DEF Counted, Saving
<1>5. Turning'
  <2>1. FloorAt(clock)' = FloorAt(clock) /\ clock <= FloorAt(clock) + Lookback
        /\ FloorAt(clock) \in Nat
    BY <1>0, <1>1, <1>2, FloorType DEF FloorAt
  <2>2. pc' = "search" /\ floor' = last' => last' + Minute + Lookback > now'
    BY <1>1, <1>2, <2>1
  <2>3. FloorAt(now)' = FloorAt(clock)
    BY <1>1 DEF FloorAt
  <2> QED
    BY <1>1, <2>2, <2>3 DEF Turning, Saving
<1> QED
  BY <1>3, <1>4, <1>5 DEF AwakeInv

LEMMA AwakeKept ==
  ASSUME IInv, AwakeInv, [Next]_vars
  PROVE  AwakeInv'
<1>0. Types /\ PendingOk /\ BudgetOk
  BY DEF IInv
<1>1. CASE FindDue
  BY <1>1, FindDueAwake
<1>2. CASE SaveLast \/ LastFails \/ SaveIds \/ SaveFails
  BY <1>2, SavesAwake
<1>3. CASE WakeWithoutClock
  <2>1. pc = "wait" /\ ~clockSet' /\ UNCHANGED <<pc, consumed>>
    BY <1>3 DEF WakeWithoutClock, CanWake, world, past
  <2> QED
    BY <2>1 DEF AwakeInv, Finite, Counted, Turning, Resting, Saving
<1>4. CASE Wake
  BY <1>4, WakeAwake
<1>5. CASE FindGaveUp \/ FindNothing \/ FindUnread \/ FindFuture
  <2>1. pc' = "wait" /\ UNCHANGED <<consumed, notified>>
    BY <1>5 DEF FindGaveUp, FindNothing, FindUnread, FindFuture, Sleep, past
  <2>2. ~notified => Rested'
    BY <1>5, SearchRests
  <2> QED
    BY <2>1, <2>2 DEF AwakeInv, Finite, Counted, Turning, Resting, Saving
<1>6. CASE Next /\ pc \in Serving /\ ~Tapping /\ ~Intruding /\ ~Reboot
  <2>1. pc' \in Serving \cup {"wait"} /\ consumed' = consumed
    BY <1>0, <1>6, StepKinds, PausingStep, DroppingStep, GoingStep, SoundingStep, Slept, Numbers
       DEF WakeWithoutClock, Wake, CanWake, SavingStep, FindDue, Finds, SaveLast, LastFails,
           SaveIds, SaveFails, RaiseOffer, Tick, Serving, past
  <2>2. pc' = "wait" => Rested'
    BY <1>6, PassRests
  <2> QED
    BY <2>1, <2>2 DEF AwakeInv, Finite, Counted, Turning, Resting, Saving, Serving
<1>7. CASE Tapping
  BY <1>0, <1>7, TappingStep, TapsNotify, AwakeFrame DEF past
<1>8. CASE Intruding
  BY <1>0, <1>8, IntrudingStep, IntrudersNotify, AwakeFrame DEF past, ram
<1>9. CASE Tick
  <2>1. pc = "wait" /\ UNCHANGED <<pc, consumed, clockSet>>
    BY <1>9 DEF Tick, past
  <2>2. clockSet => Rested'
    BY <1>9, TickRests
  <2> QED
    BY <2>1, <2>2 DEF AwakeInv, Finite, Counted, Turning, Resting, Saving
<1>10. CASE Reboot
  <2>1. pc' = "wait" /\ left' = 0 /\ consumed' = consumed
    BY <1>10 DEF Reboot, past
  <2> QED
    BY <2>1 DEF AwakeInv, Finite, Counted, Turning, Resting, Saving
<1>11. CASE UNCHANGED vars
  <2>1. UNCHANGED <<consumed, blind, last, skip, pending, pc, now, floor, turns, left, clock,
                    clockSet, cache, notified, active>>
    BY <1>11 DEF vars, world, ram, task, watch, past
  <2> QED
    BY <2>1, AwakeFrame DEF Busy
<1>12. CASE Next /\ pc \notin Serving
  <2>1. ~(Dropping \/ Going \/ Sounding \/ RaiseOffer \/ ServeQuiet \/ ServeWaitToRepeat
            \/ ServeDeferred)
    BY <1>12 DEF Dropping, Going, Sounding, RaiseOffer, ServeAnswered, GiveUp, ServeMissed,
       RequestRefused, ServeExpired, Withdraw, RequestAccepted, PostOffer, Ring, ServeRepeat, ServeQuiet,
       ServeWaitToRepeat, ServeDeferred, Unanswered, Offered, NotOffered, Serving
  <2> QED
    BY <1>12, <2>1, StepKinds, <1>1, <1>2, <1>3, <1>4, <1>5, <1>7, <1>8, <1>9, <1>10
       DEF SavingStep, Pausing
<1> QED
  BY <1>6, <1>7, <1>8, <1>10, <1>11, <1>12

(* sched_task never sleeps through what is due: whatever is pushed, set,   *)
(* tapped, cut or lost in between, it has been notified, or waits no       *)
(* longer than a repeat interval, or has nothing to do that is not marked, *)
(* or its search had to leave it or could not read the cache.              *)
THEOREM NeverSleepsThrough == Spec => []NeverOversleeps
<1>1. Init => AwakeInv
  <2> SUFFICES ASSUME Init PROVE AwakeInv
    OBVIOUS
  <2>1. Finite
    BY FS_EmptySet DEF Init, Finite
  <2>2. pc = "wait" /\ left = 0
    BY DEF Init
  <2> QED
    BY <2>1, <2>2 DEF AwakeInv, Counted, Turning, Resting, Saving
<1>2. ASSUME IInv, AwakeInv PROVE NeverOversleeps
  <2>1. SUFFICES ASSUME pc = "wait", left > 0, ~notified, clockSet, ~pending.valid, left > Repeat
                 PROVE  \/ \A o \in Due(FloorAt(clock)) : o.at > clock \/ IsMarked(o)
                        \/ Cardinality(HandledLately) >= SearchGuard
                        \/ MinuteOverfull
                        \/ blind
    BY <1>2 DEF AwakeInv, Resting, Rested, NeverOversleeps
  <2>2. \/ \A o \in Due(FloorAt(clock)) : o.at >= clock + left \/ IsMarked(o)
        \/ Cardinality(Since(clock + left)) >= SearchGuard
        \/ MinuteOverfull
        \/ blind
    BY <1>2, <2>1 DEF AwakeInv, Resting, Rested
  <2>3. clock \in Nat /\ left \in Nat /\ SearchGuard \in Nat
    BY <1>2, Numbers DEF IInv, Types
  <2>4. \A o \in Due(FloorAt(clock)) : o.at \in Nat
    BY <1>2, ScheduledIsOccurrence, OccurrenceShape DEF IInv, Types, Due, Candidates
  <2>5. CASE Cardinality(Since(clock + left)) >= SearchGuard
    <3> DEFINE S == Since(clock + left)
               T == HandledLately
    <3>1. S \subseteq T
      <4>1. SUFFICES ASSUME NEW o \in S PROVE o \in T
        OBVIOUS
      <4>2. o \in consumed /\ o.at + Minute + Lookback + ResyncCap > clock + left
        BY DEF Since
      <4>3. o.at \in Nat /\ Minute \in Nat /\ Lookback \in Nat /\ ResyncCap \in Nat
        BY <1>2, <4>2, OccurrenceShape, Numbers, SchedulerAssumption
           DEF AwakeInv, Finite, SchedulerAssumption
      <4>4. o.at + Minute + Lookback + ResyncCap > clock
        BY <2>3, <4>2, <4>3
      <4> QED
        BY <4>2, <4>4 DEF HandledLately
    <3>2. IsFiniteSet(T)
      BY <1>2, FS_Subset DEF AwakeInv, Finite, HandledLately
    <3> HIDE DEF S, T
    <3>3. Cardinality(T) >= SearchGuard
      BY <2>3, <2>5, <3>1, <3>2, AsManyCounted DEF S
    <3> QED
      BY <3>3 DEF T
  <2> QED
    BY <2>1, <2>2, <2>3, <2>4, <2>5
<1>3. Spec => []AwakeInv
  BY <1>1, AwakeKept, Invariance, PTL DEF Spec
<1> QED
  BY <1>2, <1>3, Invariance, PTL
=============================================================================
