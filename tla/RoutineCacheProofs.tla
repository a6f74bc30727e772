------------------------- MODULE RoutineCacheProofs -------------------------
(***************************************************************************)
(* The routine cache for any set of documents, any number of chunks to a   *)
(* push, and any number of pushes, failures, stray connections and power   *)
(* cuts: the two files come from one whole push, the scheduler never goes  *)
(* on sleeping on a cache that was replaced, the record of a run holds one *)
(* routine and all of its steps, and the search finds the nearest minute   *)
(* at which a routine rings.                                               *)
(***************************************************************************)
EXTENDS RoutineCache, WellFoundedInduction, TLAPS

-----------------------------------------------------------------------------
(* Constants, records and readers.                                         *)

LEMMA ConstantType ==
  /\ Chunks \in Nat /\ Chunks > 0 /\ NoSize \in Nat /\ NoSize > 0
  /\ NoFile \notin Nat /\ Spliced \notin Nat /\ Overlaid \notin Nat /\ Unread \notin Nat
  /\ NoFile # Spliced /\ NoFile # Overlaid /\ Spliced # Overlaid
  /\ MaxFailures \in Nat /\ MaxStrays \in Nat /\ MaxCuts \in Nat /\ MaxSteps \in Nat
BY CacheAssumption DEF CacheAssumption

LEMMA DocType ==
  ASSUME NEW d \in Docs
  PROVE  /\ d.child \in BOOLEAN /\ d.array \in BOOLEAN
         /\ d.size \in 0..NoSize
         /\ \A i \in DOMAIN d.routines :
              d.routines[i].id \in Ids /\ d.routines[i].steps \in Seq(STRING) \ {<<>>}
<1>1. d.size \in 1..(NoSize - 1)
  BY CacheAssumption DEF CacheAssumption
<1>2. d.size \in 0..NoSize
  BY <1>1, ConstantType
<1>3. \A i \in DOMAIN d.routines : IsRoutine(d.routines[i])
  BY CacheAssumption DEF CacheAssumption
<1>4. d.child \in BOOLEAN /\ d.array \in BOOLEAN
  BY CacheAssumption DEF CacheAssumption
<1> QED
  BY <1>2, <1>3, <1>4 DEF IsRoutine

LEMMA SentType ==
  ASSUME TypeOK
  PROVE  Len(sent) \in Nat /\ DOMAIN sent = 1..Len(sent) /\ \A n \in DOMAIN sent : sent[n] \in Docs
BY DEF TypeOK

LEMMA SizeType ==
  ASSUME TypeOK, NEW f
  PROVE  SizeOf(f) \in 0..NoSize
<1>1. CASE f \in DOMAIN sent
  BY <1>1, SentType, DocType DEF SizeOf
<1>2. CASE f \notin DOMAIN sent
  BY <1>2, ConstantType DEF SizeOf
<1> QED
  BY <1>1, <1>2

LEMMA ViewType ==
  ASSUME TypeOK, NEW size, NEW i \in DOMAIN View(size)
  PROVE  View(size)[i].id \in Ids /\ View(size)[i].steps \in Seq(STRING) \ {<<>>}
<1>1. CASE routines \in DOMAIN sent /\ SizeOf(routines) <= size
  <2>1. sent[routines] \in Docs /\ View(size) = sent[routines].routines
    BY <1>1, SentType DEF View
  <2> QED
    BY <2>1, DocType
<1>2. CASE ~(routines \in DOMAIN sent /\ SizeOf(routines) <= size)
  <2>1. View(size) = <<>>
    BY <1>2 DEF View
  <2> QED
    BY <2>1
<1> QED
  BY <1>1, <1>2

LEMMA MinType ==
  ASSUME NEW S, S \subseteq Nat, S # {}
  PROVE  Min(S) \in S /\ \A y \in S : Min(S) <= y
<1>1. PICK x \in S : \A y \in S : ~(<<y, x>> \in OpToRel(<, Nat))
  BY NatLessThanWellFounded, WFMin
<1>2. \A y \in S : ~(y < x)
  BY <1>1 DEF OpToRel
<1>3. \A y \in S : x <= y
  BY <1>2
<1> QED
  BY <1>3 DEF Min

LEMMA PlaceType ==
  ASSUME NEW view, NEW id
  PROVE  Place(view, id) \in Nat
<1> DEFINE I == {i \in 1..Len(view) : view[i].id = id}
<1>1. I \subseteq Nat
  OBVIOUS
<1>2. Place(view, id) = IF I # {} THEN Min(I) ELSE 0
  BY DEF Place, SelectInSeq
<1> HIDE DEF I
<1>3. I # {} => Min(I) \in I
  BY <1>1, MinType
<1>4. CASE I = {}
  BY <1>2, <1>4
<1>5. CASE I # {}
  <2>1. Min(I) \in Nat
    BY <1>1, <1>3, <1>5
  <2> QED
    BY <1>2, <1>5, <2>1
<1> QED
  BY <1>4, <1>5

LEMMA HostFields ==
  ASSUME TypeOK
  PROVE  /\ host.at \in Places /\ host.push \in Patched \cup 0..Len(sent)
         /\ host.doc \in 0..Len(sent)
BY DEF TypeOK, Hosts

LEMMA GoesType ==
  ASSUME TypeOK, NEW from, NEW to \in Places, HostGoes(from, to)
  PROVE  /\ host' \in Hosts(Len(sent))
         /\ host.at = from /\ host'.at = to
         /\ host'.push = host.push /\ host'.doc = host.doc
BY DEF TypeOK, Hosts, HostGoes

LEMMA SpendType ==
  ASSUME TypeOK, NEW what \in {"failures", "strays", "cuts"}, Spend(what)
  PROVE  budget' \in Budgets
<1>1. budget \in Budgets /\ budget' = [budget EXCEPT ![what] = @ - 1] /\ budget[what] > 0
  BY DEF TypeOK, Spend
<1>2. CASE what = "failures"
  BY <1>1, <1>2, ConstantType DEF Budgets
<1>3. CASE what = "strays"
  BY <1>1, <1>3, ConstantType DEF Budgets
<1>4. CASE what = "cuts"
  BY <1>1, <1>4, ConstantType DEF Budgets
<1> QED
  BY <1>2, <1>3, <1>4

(* A file operation that fails leaves the era alone. *)
LEMMA EraKept ==
  ASSUME TypeOK, Spend("failures") \/ Spend("cuts")
  PROVE  Era' = Era
BY DEF TypeOK, Budgets, Spend, Era

LEMMA MoreFiles ==
  ASSUME NEW n \in Nat, NEW m \in Nat, n <= m
  PROVE  /\ Files(n) \subseteq Files(m) /\ Hosts(n) \subseteq Hosts(m)
         /\ Scheds(n) \subseteq Scheds(m)
<1>1. 0..n \subseteq 0..m
  OBVIOUS
<1>2. Files(n) \subseteq Files(m)
  BY <1>1 DEF Files
<1>3. Hosts(n) \subseteq Hosts(m)
  BY <1>1 DEF Hosts
<1>4. Scheds(n) \subseteq Scheds(m)
  BY <1>2 DEF Scheds
<1> QED
  BY <1>2, <1>3, <1>4

LEMMA SchedType ==
  ASSUME NEW n, NEW at \in {"sleep", "search", "open"}, NEW size \in 0..NoSize,
         NEW armed \in {Unread} \cup Files(n)
  PROVE  [at |-> at, size |-> size, armed |-> armed] \in Scheds(n)
BY DEF Scheds

LEMMA ReplacedType ==
  ASSUME NEW S, NEW q \in Seq(S), NEW i \in DOMAIN q, NEW x \in S
  PROVE  [q EXCEPT ![i] = x] \in Seq(S) /\ Len([q EXCEPT ![i] = x]) = Len(q)
OBVIOUS

LEMMA NextType ==
  ASSUME TypeOK
  PROVE  /\ DOMAIN next = DOMAIN sent
         /\ \A push \in DOMAIN sent :
              /\ next[push] \in 0..Chunks
              /\ \A n \in 0..Chunks : /\ [next EXCEPT ![push] = n] \in Seq(0..Chunks)
                                      /\ Len([next EXCEPT ![push] = n]) = Len(sent)
<1> DEFINE C == 0..Chunks
<1>1. next \in Seq(C) /\ Len(next) = Len(sent) /\ sent \in Seq(Docs)
  BY DEF TypeOK
<1> HIDE DEF C
<1>2. DOMAIN next = DOMAIN sent /\ \A push \in DOMAIN sent : next[push] \in C
  BY <1>1
<1>3. ASSUME NEW push \in DOMAIN sent, NEW n \in C
      PROVE  [next EXCEPT ![push] = n] \in Seq(C) /\ Len([next EXCEPT ![push] = n]) = Len(sent)
  BY <1>1, <1>2, <1>3, ReplacedType
<1> QED
  BY <1>2, <1>3 DEF C

LEMMA RunFields ==
  ASSUME NEW r \in Runs
  PROVE  /\ r.idx \in Nat /\ r.size \in 0..NoSize /\ r.count \in Nat
         /\ r.taken \in Seq(STRING) /\ Len(r.taken) \in Nat
<1>1. r.idx \in Nat /\ r.count \in Nat
  BY DEF Runs
<1>2. r.size \in 0..NoSize
  BY DEF Runs
<1>3. r.taken \in Seq(STRING)
  BY DEF Runs
<1> QED
  BY <1>1, <1>2, <1>3

LEMMA NoRunType == NoRun \in Runs /\ Len(NoRun.taken) <= NoRun.count /\ NoRun.at = "idle"
<1>1. NoSize \in 0..NoSize /\ <<>> \in Seq(STRING)
  BY ConstantType
<1> QED
  BY <1>1 DEF NoRun, Runs

-----------------------------------------------------------------------------
(* Type correctness.  A run takes no more steps than rr_routine_start      *)
(* counted, however the cache changes under it.                            *)

GoodRun(r) ==
  /\ r \in Runs /\ Len(r.taken) <= r.count
  /\ r.at = "show" => Len(r.taken) < r.count
  /\ r.at \in {"find", "offer", "ready", "start"} => r.taken = <<>>

Typed == TypeOK /\ GoodRun(run)

LEMMA InitType == Init => Typed
<1> SUFFICES ASSUME Init PROVE Typed
  OBVIOUS
<1>1. sent \in Seq(Docs) /\ Len(sent) = 0 /\ rx \in Seq(Nat \X Nat \X Nat) /\ Len(rx) = 0
  BY DEF Init
<1>2. budget \in Budgets
  BY ConstantType DEF Init, Budgets
<1>3. host \in Hosts(Len(sent))
  BY <1>1 DEF Init, NoPut, Hosts, Places
<1>4. child \in Files(Len(sent)) /\ routines \in Files(Len(sent))
  BY DEF Init, Files
<1>5. sched \in Scheds(Len(sent))
  BY ConstantType, SchedType DEF Init, Files
<1>6. GoodRun(run)
  BY NoRunType DEF Init, GoodRun
<1>7. next \in Seq(0..Chunks) /\ Len(next) = Len(sent) /\ Len(rx) < Chunks
  BY <1>1, ConstantType DEF Init
<1> QED
  BY <1>1, <1>2, <1>3, <1>4, <1>5, <1>6, <1>7 DEF Init, Typed, TypeOK, GoodRun

LEMMA PushType == Typed /\ (\E d \in Docs : Push(d)) => Typed'
<1> SUFFICES ASSUME Typed, NEW d \in Docs, Push(d) PROVE Typed'
  OBVIOUS
<1>0. TypeOK /\ GoodRun(run)
  BY DEF Typed
<1>1. sent' \in Seq(Docs) /\ Len(sent') = Len(sent) + 1 /\ Len(sent) \in Nat
  BY <1>0 DEF Push, TypeOK
<1>2. Files(Len(sent)) \subseteq Files(Len(sent')) /\ Hosts(Len(sent)) \subseteq Hosts(Len(sent'))
      /\ Scheds(Len(sent)) \subseteq Scheds(Len(sent'))
  BY <1>1, MoreFiles
<1>3. next' \in Seq(0..Chunks) /\ Len(next') = Len(sent')
  <2>1. 1 \in 0..Chunks
    BY ConstantType
  <2> QED
    BY <1>0, <1>1, <2>1 DEF Push, TypeOK
<1> QED
  BY <1>0, <1>1, <1>2, <1>3 DEF Push, flash, waiting, Typed, TypeOK

AnyChunk == \E push \in DOMAIN sent, parses \in BOOLEAN : Chunk(push, parses)

AnyRefused == \E push \in DOMAIN sent : ChunkRefused(push)

AnyDisconnect == \E push \in DOMAIN sent : Disconnect(push)

LEMMA ChunkType == Typed /\ AnyChunk => Typed'
<1> SUFFICES ASSUME Typed, NEW push \in DOMAIN sent, NEW parses \in BOOLEAN, Chunk(push, parses)
             PROVE  Typed'
  BY DEF AnyChunk
<1> DEFINE got == Append(rx, <<push, next[push], Era>>)
           contents == PutTogether(got, push)
<1>0. TypeOK /\ GoodRun(run) /\ push \in 1..Len(sent) /\ push \in Nat /\ Era \in Nat
  BY SentType, ConstantType DEF Typed, TypeOK, Budgets, Era
<1>1. next' \in Seq(0..Chunks) /\ Len(next') = Len(sent)
  <2>1. next' = [next EXCEPT ![push] = IF next[push] = Chunks THEN 0 ELSE next[push] + 1]
    BY DEF Chunk
  <2>2. (IF next[push] = Chunks THEN 0 ELSE next[push] + 1) \in 0..Chunks
    BY <1>0, NextType, ConstantType
  <2> QED
    BY <1>0, <2>1, <2>2, NextType
<1>2. got \in Seq(Nat \X Nat \X Nat) /\ Len(got) \in Nat
  <2>1. next[push] \in Nat
    BY <1>0, NextType, ConstantType
  <2> QED
    BY <1>0, <2>1 DEF TypeOK
<1>3. rx' = <<>> \/ (rx' = got /\ Len(got) < Chunks)
  BY DEF Chunk
<1>4. contents \in Patched \cup 0..Len(sent)
  BY <1>0 DEF PutTogether, Patched
<1>5. \/ host' = host
      \/ host' = [at |-> IF sent[push].child THEN "child" ELSE "check",
                  push |-> contents, doc |-> push]
  BY DEF Chunk
<1> HIDE DEF got, contents
<1>6. rx' \in Seq(Nat \X Nat \X Nat) /\ Len(rx') < Chunks
  <2>1. <<>> \in Seq(Nat \X Nat \X Nat) /\ Len(<<>>) < Chunks
    BY ConstantType
  <2> QED
    BY <1>2, <1>3, <2>1
<1>7. host' \in Hosts(Len(sent))
  BY <1>0, <1>4, <1>5 DEF TypeOK, Hosts, Places
<1> QED
  BY <1>0, <1>1, <1>6, <1>7 DEF Chunk, flash, waiting, Typed, TypeOK

(* A buffer emptied. *)
LEMMA EmptiedType ==
  ASSUME Typed, rx' = <<>>, next' \in Seq(0..Chunks), Len(next') = Len(sent), budget' \in Budgets,
         UNCHANGED <<sent, host, flash, waiting, run, mixed, spoilt>>
  PROVE  Typed'
<1>1. rx' \in Seq(Nat \X Nat \X Nat) /\ Len(rx') < Chunks
  BY ConstantType
<1> QED
  BY <1>1 DEF flash, waiting, Typed, TypeOK

LEMMA OpenedType ==
  ASSUME NEW n \in Nat, NEW f \in Files(n)
  PROVE  Opened(f) \in Files(n)
BY DEF Opened, Files

(* What put_routines writes. *)
LEMMA PutType == Typed /\ Put => Typed'
<1> SUFFICES ASSUME Typed, Put PROVE Typed'
  OBVIOUS
<1>0. TypeOK /\ GoodRun(run)
  BY DEF Typed
<1>1. PICK from \in Places, to \in Places : HostGoes(from, to)
  BY DEF Put, OpenChild, NoChild, WriteChild, ChildShort, DropChild, ChildUnsynced, Refuse,
         OpenRoutines, NoRoutines, WriteRoutines, RoutinesShort, DropRoutines,
         RoutinesUnsynced, LogRoutines, LogFails, Rearm, Places
<1>2. host' \in Hosts(Len(sent))
  BY <1>0, <1>1, GoesType
<1>3. Len(sent) \in Nat /\ host.push \in Files(Len(sent)) /\ NoFile \in Files(Len(sent))
      /\ child \in Files(Len(sent)) /\ routines \in Files(Len(sent))
  BY <1>0, HostFields, SentType DEF Files, TypeOK
<1>4. Opened(child) \in Files(Len(sent)) /\ Opened(routines) \in Files(Len(sent))
  BY <1>3, OpenedType
<1>5. ASSUME Spend("failures") PROVE budget' \in Budgets
  BY <1>0, <1>5, SpendType
<1>6. budget' \in Budgets
  BY <1>0, <1>5
     DEF Put, OpenChild, NoChild, WriteChild, ChildShort, DropChild, ChildUnsynced, Refuse,
         OpenRoutines, NoRoutines, WriteRoutines, RoutinesShort, DropRoutines,
         RoutinesUnsynced, LogRoutines, LogFails, Rearm, phone, TypeOK
<1>7. child' \in Files(Len(sent)) /\ routines' \in Files(Len(sent))
  BY <1>3, <1>4
     DEF Put, OpenChild, NoChild, WriteChild, ChildShort, DropChild, ChildUnsynced, Refuse,
         OpenRoutines, NoRoutines, WriteRoutines, RoutinesShort, DropRoutines,
         RoutinesUnsynced, LogRoutines, LogFails, Rearm, flash, Replace
<1>8. UNCHANGED <<sent, next, rx, sched, run>>
  BY DEF Put, OpenChild, NoChild, WriteChild, ChildShort, DropChild, ChildUnsynced, Refuse,
         OpenRoutines, NoRoutines, WriteRoutines, RoutinesShort, DropRoutines,
         RoutinesUnsynced, LogRoutines, LogFails, Rearm, phone, waiting
<1>9. mixed' \in BOOLEAN /\ unsaid' \in BOOLEAN /\ told' \in BOOLEAN
  BY <1>0
     DEF Put, OpenChild, NoChild, WriteChild, ChildShort, DropChild, ChildUnsynced, Refuse,
         OpenRoutines, NoRoutines, WriteRoutines, RoutinesShort, DropRoutines,
         RoutinesUnsynced, LogRoutines, LogFails, Rearm, waiting, TypeOK
<1>10. spoilt' \in BOOLEAN
  BY <1>0
     DEF Put, OpenChild, NoChild, WriteChild, ChildShort, DropChild, ChildUnsynced, Refuse,
         OpenRoutines, NoRoutines, WriteRoutines, RoutinesShort, DropRoutines,
         RoutinesUnsynced, LogRoutines, LogFails, Rearm, Replace, TypeOK
<1> QED
  BY <1>0, <1>2, <1>6, <1>7, <1>8, <1>9, <1>10 DEF Typed, TypeOK

(* The scheduler's search. *)
LEMMA SearchType ==
  Typed /\ (SchedWakes \/ SchedStats \/ SchedReads \/ SchedReadFails) => Typed'
<1> SUFFICES ASSUME Typed, SchedWakes \/ SchedStats \/ SchedReads \/ SchedReadFails PROVE Typed'
  OBVIOUS
<1>0. TypeOK /\ GoodRun(run) /\ sched \in Scheds(Len(sent))
  BY DEF Typed, TypeOK
<1>1. NoFile \in Files(Len(sent)) /\ routines \in Files(Len(sent)) /\ NoSize \in 0..NoSize
  BY <1>0, ConstantType DEF TypeOK, Files
<1>2. ASSUME SchedWakes PROVE sched' \in Scheds(Len(sent))
  BY <1>0, <1>2 DEF SchedWakes, Scheds
<1>3. ASSUME SchedStats PROVE sched' \in Scheds(Len(sent))
  <2>1. SizeOf(routines) \in 0..NoSize
    BY <1>0, SizeType
  <2> QED
    BY <1>0, <1>3, <2>1 DEF SchedStats, Scheds
<1>4. ASSUME SchedReads PROVE sched' \in Scheds(Len(sent))
  BY <1>1, <1>4, SchedType DEF SchedReads
<1>5. ASSUME SchedReadFails PROVE sched' \in Scheds(Len(sent)) /\ budget' \in Budgets
  BY <1>0, <1>1, <1>5, SchedType, SpendType DEF SchedReadFails
<1>6. sched' \in Scheds(Len(sent)) /\ told' \in BOOLEAN /\ unsaid' \in BOOLEAN
  BY <1>0, <1>2, <1>3, <1>4, <1>5
     DEF SchedWakes, SchedStats, SchedReads, SchedReadFails, TypeOK
<1>7. budget' \in Budgets
  BY <1>0, <1>5 DEF SchedWakes, SchedStats, SchedReads, phone, TypeOK
<1>8. UNCHANGED <<sent, next, rx, host, child, routines, run, mixed, spoilt>>
  BY DEF SchedWakes, SchedStats, SchedReads, SchedReadFails, phone, flash
<1> QED
  BY <1>0, <1>6, <1>7, <1>8 DEF Typed, TypeOK

-----------------------------------------------------------------------------
(* Runs. *)

GoesOn == {"offer", "ready", "start", "show", "step", "queued"}

Same(c, r, at) == c.at = at /\ c.taken = r.taken /\ c.count = r.count

LEMMA ExceptType ==
  ASSUME NEW r \in Runs, NEW at \in GoesOn
  PROVE  /\ [r EXCEPT !.at = at] \in Runs
         /\ Same([r EXCEPT !.at = at], r, at)
         /\ [r EXCEPT !.at = at, !.size = NoSize] \in Runs
         /\ Same([r EXCEPT !.at = at, !.size = NoSize], r, at)
         /\ \A i \in Nat : LET c == [r EXCEPT !.at = at, !.size = NoSize, !.idx = i]
                           IN  c \in Runs /\ Same(c, r, at)
<1>1. NoSize \in 0..NoSize
  BY ConstantType
<1> QED
  BY <1>1 DEF Runs, Same, GoesOn

LEMMA StartType ==
  ASSUME NEW r \in Runs, NEW n \in Nat
  PROVE  LET c == [r EXCEPT !.at = "show", !.size = NoSize, !.count = n]
         IN  c \in Runs /\ c.taken = r.taken /\ c.count = n
<1>1. NoSize \in 0..NoSize
  BY ConstantType
<1> QED
  BY <1>1 DEF Runs

LEMMA AppendType ==
  ASSUME NEW S, NEW t \in Seq(S), NEW y \in S
  PROVE  Append(t, y) \in Seq(S) /\ Len(Append(t, y)) = Len(t) + 1
OBVIOUS

LEMMA NoSizeType == NoSize \in 0..NoSize
BY ConstantType

LEMMA TakeType ==
  ASSUME NEW r \in Runs, NEW x \in STRING, NEW id \in Ids \cup {""}
  PROVE  LET c == [r EXCEPT !.at = "step", !.size = NoSize,
                            !.taken = Append(@, x), !.id = id]
         IN  /\ c \in Runs /\ c.at = "step" /\ c.count = r.count
             /\ Len(c.taken) = Len(r.taken) + 1
<1>1. NoSize \in 0..NoSize
  BY NoSizeType
<1>7. r.taken \in Seq(STRING)
  BY RunFields
<1> DEFINE q == Append(r.taken, x)
<1>2. q \in Seq(STRING) /\ Len(q) = Len(r.taken) + 1
  BY <1>7, AppendType
<1> DEFINE c == [r EXCEPT !.at = "step", !.size = NoSize, !.taken = q, !.id = id]
<1> HIDE DEF q
<1>3. c \in Runs
  BY <1>1, <1>2 DEF Runs
<1>4. c.at = "step" /\ c.count = r.count /\ c.taken = q
  BY DEF Runs
<1>5. Len(c.taken) = Len(r.taken) + 1
  BY <1>2, <1>4
<1>6. c = [r EXCEPT !.at = "step", !.size = NoSize, !.taken = Append(@, x), !.id = id]
  BY DEF q
<1> QED
  BY <1>3, <1>4, <1>5, <1>6

LEMMA KeptType ==
  ASSUME NEW q \in Seq(STRING)
  PROVE  Kept(q) \in Seq(STRING) /\ Len(Kept(q)) \in Nat /\ Len(Kept(q)) <= Len(q)
<1>1. Len(q) \in Nat /\ MaxSteps \in Nat
  BY ConstantType
<1>2. CASE Len(q) <= MaxSteps
  BY <1>1, <1>2 DEF Kept
<1>3. CASE ~(Len(q) <= MaxSteps)
  <2>1. Kept(q) = SubSeq(q, 1, MaxSteps)
    BY <1>3 DEF Kept
  <2>2. SubSeq(q, 1, MaxSteps) \in Seq(STRING) /\ Len(SubSeq(q, 1, MaxSteps)) = MaxSteps
    BY <1>1, <1>3
  <2> QED
    BY <1>1, <1>3, <2>1, <2>2
<1> QED
  BY <1>2, <1>3

(* What finish_routine leaves. *)
LEMMA FinishType ==
  ASSUME GoodRun(run), Finish
  PROVE  GoodRun(run') /\ run'.at = "queued" /\ run'.id = run.id /\ run'.taken = Kept(run.taken)
<1>1. run \in Runs /\ run.taken \in Seq(STRING) /\ Len(run.taken) \in Nat /\ run.count \in Nat
      /\ Len(run.taken) <= run.count
  BY RunFields DEF GoodRun
<1> DEFINE q == Kept(run.taken)
<1>2. q \in Seq(STRING) /\ Len(q) \in Nat /\ Len(q) <= Len(run.taken)
  BY <1>1, KeptType
<1>3. run' = [run EXCEPT !.at = "queued", !.size = NoSize, !.taken = q]
  BY DEF Finish
<1> HIDE DEF q
<1>4. run' \in Runs
  BY <1>1, <1>2, <1>3, NoSizeType DEF Runs
<1>5. run'.at = "queued" /\ run'.count = run.count /\ run'.taken = q /\ run'.id = run.id
  BY <1>1, <1>3 DEF Runs
<1>6. Len(run'.taken) <= run'.count
  BY <1>1, <1>2, <1>5
<1> QED
  BY <1>4, <1>5, <1>6 DEF GoodRun, q

LEMMA StepsType ==
  ASSUME TypeOK, NEW size, NEW i, NEW n, HasStep(View(size), i, n)
  PROVE  /\ View(size)[i].id \in Ids
         /\ Len(View(size)[i].steps) \in Nat /\ Len(View(size)[i].steps) > 0
         /\ View(size)[i].steps[n] \in STRING
<1>1. i \in DOMAIN View(size) /\ n \in DOMAIN View(size)[i].steps
  BY DEF HasStep
<1>2. View(size)[i].id \in Ids /\ View(size)[i].steps \in Seq(STRING) \ {<<>>}
  BY <1>1, ViewType
<1> QED
  BY <1>1, <1>2

LEMMA RunStep ==
  ASSUME TypeOK, GoodRun(run),
         \/ \E id \in Ids : Ask(id)
         \/ RunStats \/ FindRoutine \/ DeferredOffer
         \/ \E started \in BOOLEAN : AnswerReady(started)
         \/ Start \/ ShowCurrentStep \/ Advance
  PROVE  GoodRun(run')
<1>0. /\ run \in Runs /\ run.count \in Nat /\ Len(run.taken) \in Nat
      /\ Len(run.taken) <= run.count
  BY RunFields DEF GoodRun
<1>n. GoodRun(NoRun)
  BY NoRunType DEF GoodRun
<1>e. ASSUME NEW at \in GoesOn \ {"show"}, NEW c \in Runs, Same(c, run, at),
             at \in {"offer", "ready", "start"} => run.taken = <<>>
      PROVE  GoodRun(c)
  <2>1. c.at = at /\ c.at # "show" /\ c.taken = run.taken /\ c.count = run.count
    BY <1>e DEF Same
  <2>2. Len(c.taken) <= c.count
    BY <1>0, <2>1
  <2>3. c.at \in {"find", "offer", "ready", "start"} => c.taken = <<>>
    BY <1>e, <2>1 DEF GoesOn
  <2> QED
    BY <2>1, <2>2, <2>3 DEF GoodRun
<1>1. ASSUME NEW id \in Ids, Ask(id) PROVE GoodRun(run')
  <2>1. run' = [NoRun EXCEPT !.at = "find", !.asked = id] /\ NoRun \in Runs
    BY <1>1, NoRunType DEF Ask
  <2>2. run' \in Runs
    BY <2>1 DEF Runs
  <2>3. run'.at = "find" /\ run'.taken = NoRun.taken /\ run'.count = NoRun.count
    BY <2>1 DEF Runs
  <2>4. NoRun.taken = <<>>
    BY DEF NoRun
  <2> QED
    BY <2>2, <2>3, <2>4, NoRunType DEF GoodRun
<1>2. CASE RunStats
  <2>1. run' = [run EXCEPT !.size = SizeOf(routines)] /\ SizeOf(routines) \in 0..NoSize
    BY <1>2, SizeType DEF RunStats
  <2>2. run' \in Runs
    BY <1>0, <2>1 DEF Runs
  <2>3. run'.at = run.at /\ run'.taken = run.taken /\ run'.count = run.count
    BY <1>0, <2>1 DEF Runs
  <2> QED
    BY <2>2, <2>3 DEF GoodRun
<1>3. CASE FindRoutine
  <2>1. \/ run' = NoRun
        \/ run' = [run EXCEPT !.at = "offer", !.size = NoSize, !.idx = Place(Read, run.asked)]
    BY <1>3 DEF FindRoutine
  <2>2. Place(Read, run.asked) \in Nat
    BY PlaceType
  <2>3. ASSUME run' # NoRun PROVE run' \in Runs /\ Same(run', run, "offer")
    <3> DEFINE i == Place(Read, run.asked)
    <3>1. i \in Nat /\ run' = [run EXCEPT !.at = "offer", !.size = NoSize, !.idx = i]
      BY <2>1, <2>2, <2>3
    <3> HIDE DEF i
    <3> QED
      BY <1>0, <3>1, ExceptType DEF GoesOn
  <2>4. run.taken = <<>>
    BY <1>3 DEF FindRoutine, Reading, GoodRun
  <2> QED
    BY <1>n, <1>e, <2>3, <2>4 DEF GoesOn
<1>4. CASE DeferredOffer
  <2>1. run' = NoRun \/ run' = [run EXCEPT !.at = "ready", !.size = NoSize]
    BY <1>4 DEF DeferredOffer
  <2>2. ASSUME run' # NoRun PROVE run' \in Runs /\ Same(run', run, "ready")
    BY <1>0, <2>1, <2>2, ExceptType DEF GoesOn
  <2>3. run.taken = <<>>
    BY <1>4 DEF DeferredOffer, Reading, GoodRun
  <2> QED
    BY <1>n, <1>e, <2>2, <2>3 DEF GoesOn
<1>5. ASSUME NEW started \in BOOLEAN, AnswerReady(started) PROVE GoodRun(run')
  <2>1. run' = NoRun \/ run' = [run EXCEPT !.at = "start"]
    BY <1>5 DEF AnswerReady
  <2>2. ASSUME run' # NoRun PROVE run' \in Runs /\ Same(run', run, "start")
    BY <1>0, <2>1, <2>2, ExceptType DEF GoesOn
  <2>3. run.taken = <<>>
    BY <1>5 DEF AnswerReady, GoodRun
  <2> QED
    BY <1>n, <1>e, <2>2, <2>3 DEF GoesOn
<1>6. CASE Start
  <2>1. CASE ~HasStep(Read, run.idx, 1)
    BY <1>6, <1>n, <2>1 DEF Start
  <2>2. CASE HasStep(Read, run.idx, 1)
    <3> DEFINE n == Len(Read[run.idx].steps)
    <3>1. n \in Nat /\ n > 0
      BY <2>2, StepsType DEF Read
    <3>2. run' = [run EXCEPT !.at = "show", !.size = NoSize, !.count = n]
      BY <1>6, <2>2 DEF Start
    <3>3. run.taken = <<>>
      BY <1>6 DEF Start, Reading, GoodRun
    <3> HIDE DEF n
    <3>4. run' \in Runs /\ run'.taken = <<>> /\ run'.count = n
      BY <1>0, <3>1, <3>2, <3>3, StartType
    <3>5. Len(run'.taken) < run'.count
      BY <3>1, <3>4
    <3> QED
      BY <3>1, <3>4, <3>5 DEF GoodRun
  <2> QED
    BY <2>1, <2>2
<1>7. CASE ShowCurrentStep
  <2>0. run.at = "show" /\ Len(run.taken) < run.count
    BY <1>7 DEF ShowCurrentStep, Reading, GoodRun
  <2>1. CASE ~HasStep(Read, run.idx, Step)
    <3>1. Finish
      BY <1>7, <2>1 DEF ShowCurrentStep
    <3> QED
      BY <3>1, FinishType
  <2>2. CASE HasStep(Read, run.idx, Step)
    <3> DEFINE x == Read[run.idx].steps[Step]
               id == IF run.id = "" THEN Read[run.idx].id ELSE run.id
    <3>1. x \in STRING /\ Read[run.idx].id \in Ids
      BY <2>2, StepsType DEF Read
    <3>2. id \in Ids \cup {""}
      BY <1>0, <3>1 DEF Runs
    <3>3. run' = [run EXCEPT !.at = "step", !.size = NoSize, !.taken = Append(@, x), !.id = id]
      BY <1>7, <2>2 DEF ShowCurrentStep
    <3> HIDE DEF x, id
    <3>4. run' \in Runs /\ run'.at = "step" /\ run'.count = run.count
          /\ Len(run'.taken) = Len(run.taken) + 1
      <4> DEFINE c == [run EXCEPT !.at = "step", !.size = NoSize, !.taken = Append(@, x), !.id = id]
      <4>1. run \in Runs /\ x \in STRING /\ id \in Ids \cup {""}
        BY <1>0, <3>1, <3>2
      <4>2. c \in Runs /\ c.at = "step" /\ c.count = run.count /\ Len(c.taken) = Len(run.taken) + 1
        BY <4>1, TakeType
      <4>3. run' = c
        BY <3>3
      <4> HIDE DEF c
      <4> QED
        BY <4>2, <4>3
    <3>5. Len(run'.taken) <= run'.count
      BY <1>0, <2>0, <3>4
    <3> QED
      BY <3>4, <3>5 DEF GoodRun
  <2> QED
    BY <2>1, <2>2
<1>8. CASE Advance
  <2>1. CASE Walked
    <3>1. Finish
      BY <1>8, <2>1 DEF Advance
    <3> QED
      BY <3>1, FinishType
  <2>2. CASE ~Walked
    <3>1. run' = [run EXCEPT !.at = "show"]
      BY <1>8, <2>2 DEF Advance
    <3>2. run' \in Runs /\ Same(run', run, "show")
      BY <1>0, <3>1, ExceptType DEF GoesOn
    <3>3. Len(run.taken) < run.count
      BY <1>0, <2>2 DEF Walked
    <3> QED
      BY <3>2, <3>3 DEF GoodRun, Same
  <2> QED
    BY <2>1, <2>2
<1> QED
  BY <1>1, <1>2, <1>3, <1>4, <1>5, <1>6, <1>7, <1>8

RunActions ==
  \/ \E id \in Ids : Ask(id)
  \/ RunStats \/ FindRoutine \/ DeferredOffer
  \/ \E started \in BOOLEAN : AnswerReady(started)
  \/ Start \/ ShowCurrentStep \/ Advance

LEMMA RunFrame ==
  ASSUME RunActions
  PROVE  UNCHANGED <<phone, rx, host, flash, waiting, mixed>> /\ (spoilt' = spoilt \/ spoilt' = FALSE)
BY DEF RunActions, Ask, RunStats, FindRoutine, DeferredOffer, AnswerReady, Start,
       ShowCurrentStep, Advance

LEMMA RunType == Typed /\ RunActions => Typed'
<1> SUFFICES ASSUME Typed, RunActions PROVE Typed'
  OBVIOUS
<1>1. GoodRun(run')
  BY RunStep DEF RunActions, Typed
<1>2. UNCHANGED <<phone, rx, host, flash, waiting, mixed>> /\ (spoilt' = spoilt \/ spoilt' = FALSE)
  BY RunFrame
<1> QED
  BY <1>1, <1>2 DEF phone, flash, waiting, Typed, TypeOK, GoodRun

LEMMA RunFailsType == Typed /\ RunReadFails => Typed'
<1> SUFFICES ASSUME Typed, RunReadFails PROVE Typed'
  OBVIOUS
<1>0. TypeOK /\ GoodRun(run)
  BY DEF Typed
<1>1. budget' \in Budgets
  BY <1>0, SpendType DEF RunReadFails
<1>2. GoodRun(run')
  <2>1. CASE run.at = "show"
    <3>1. Finish
      BY <2>1 DEF RunReadFails
    <3> QED
      BY <1>0, <3>1, FinishType
  <2>2. CASE run.at # "show"
    <3>1. run' = NoRun
      BY <2>2 DEF RunReadFails
    <3> QED
      BY <3>1, NoRunType DEF GoodRun
  <2> QED
    BY <2>1, <2>2
<1>3. spoilt' \in BOOLEAN /\ UNCHANGED <<sent, next, rx, host, flash, waiting, mixed>>
  BY DEF RunReadFails
<1> QED
  BY <1>0, <1>1, <1>2, <1>3 DEF flash, waiting, Typed, TypeOK, GoodRun

LEMMA CutType == Typed /\ PowerCut => Typed'
<1> SUFFICES ASSUME Typed, PowerCut PROVE Typed'
  OBVIOUS
<1>0. TypeOK
  BY DEF Typed
<1>1. budget' \in Budgets
  BY <1>0, SpendType DEF PowerCut
<1>2. host' \in Hosts(Len(sent))
  BY <1>0, SentType DEF PowerCut, NoPut, Hosts, Places
<1>3. sched' \in Scheds(Len(sent))
  <2>1. NoFile \in Files(Len(sent))
    BY DEF Files
  <2> QED
    BY <2>1, NoSizeType, SchedType DEF PowerCut
<1>4. GoodRun(run')
  BY NoRunType DEF PowerCut, GoodRun
<1>5. rx' \in Seq(Nat \X Nat \X Nat) /\ Len(rx') < Chunks
  BY ConstantType DEF PowerCut
<1>7. next' \in Seq(0..Chunks) /\ Len(next') = Len(sent)
  <2>1. next \in Seq(0..Chunks) /\ Len(next) = Len(sent) /\ 0 \in 0..Chunks /\ Len(sent) \in Nat
    BY <1>0, ConstantType DEF TypeOK
  <2>2. next' = [push \in 1..Len(sent) |-> 0]
    BY <2>1 DEF PowerCut
  <2> QED
    BY <2>1, <2>2
<1>6. mixed' \in BOOLEAN
  BY DEF PowerCut
<1> QED
  BY <1>0, <1>1, <1>2, <1>3, <1>4, <1>5, <1>6, <1>7 DEF PowerCut, flash, Typed, TypeOK, GoodRun

LEMMA NextCases ==
  Next <=> \/ \E d \in Docs : Push(d)
           \/ AnyChunk \/ AnyRefused \/ AnyDisconnect
           \/ Put
           \/ SchedWakes \/ SchedStats \/ SchedReads \/ SchedReadFails
           \/ RunActions \/ RunReadFails
           \/ PowerCut
BY DEF Next, RunActions, AnyChunk, AnyRefused, AnyDisconnect

LEMMA StepType == Typed /\ [Next]_vars => Typed'
<1> SUFFICES ASSUME Typed, [Next]_vars PROVE Typed'
  OBVIOUS
<1>0. TypeOK
  BY DEF Typed
<1>1. ASSUME NEW push \in DOMAIN sent, ChunkRefused(push) PROVE Typed'
  <2>1. budget' \in Budgets
    BY <1>0, <1>1, SpendType DEF ChunkRefused
  <2>2. rx' = <<>> /\ next' \in Seq(0..Chunks) /\ Len(next') = Len(sent)
    BY <1>0, <1>1, ConstantType, NextType DEF ChunkRefused
  <2> QED
    BY <1>1, <2>1, <2>2, EmptiedType DEF ChunkRefused
<1>2. ASSUME NEW push \in DOMAIN sent, Disconnect(push) PROVE Typed'
  <2>1. budget' \in Budgets
    BY <1>0, <1>2, SpendType DEF Disconnect
  <2>2. rx' = <<>> /\ next' \in Seq(0..Chunks) /\ Len(next') = Len(sent)
    <3>1. next' \in {next, [next EXCEPT ![push] = 0]} /\ rx' = <<>>
      BY <1>2 DEF Disconnect, Reset
    <3>2. next \in Seq(0..Chunks) /\ Len(next) = Len(sent)
      BY <1>0 DEF TypeOK
    <3>3. [next EXCEPT ![push] = 0] \in Seq(0..Chunks) /\ Len([next EXCEPT ![push] = 0]) = Len(sent)
      BY <1>0, ConstantType, NextType
    <3> QED
      BY <3>1, <3>2, <3>3
  <2> QED
    BY <1>2, <2>1, <2>2, EmptiedType DEF Disconnect
<1>3. CASE UNCHANGED vars
  BY <1>3 DEF vars, phone, flash, waiting, Typed, TypeOK, GoodRun
<1> QED
  BY <1>1, <1>2, <1>3, NextCases, PushType, ChunkType, PutType, SearchType, RunType, RunFailsType,
     CutType DEF AnyRefused, AnyDisconnect

\* Every variable of the cache keeps its type, a run never takes more steps
\* than it counted when it began, and the reassembly buffer never holds a whole
\* push between two writes.
THEOREM CacheTypeCorrect == Spec => []TypeOK
<1>1. Typed => TypeOK
  BY DEF Typed
<1> QED
  BY <1>1, InitType, StepType, PTL DEF Spec

-----------------------------------------------------------------------------
(* One push.  What is in the buffer was written since a connection last    *)
(* came or went, so what is stored is a whole push, or pushes that overlap *)
(* on connections that stay.  Until a put fails, the files agree before    *)
(* child.json is written and after routines.json is; in between,           *)
(* child.json is that of the push in hand.                                 *)

OneEra == \A i \in DOMAIN rx : rx[i][3] = Era

InHand ==
  /\ host.at # "idle" => /\ host.push \in DOMAIN sent \cup {Overlaid}
                         /\ host.doc \in DOMAIN sent
                         /\ host.push \in DOMAIN sent => host.push = host.doc
  /\ host.at \in {"child", "writeChild", "dropChild"} => sent[host.doc].child

Agree == routines \in DOMAIN sent /\ sent[routines].child => child = routines

Between == {"check", "write", "drop"}

Paired ==
  /\ Spliced \notin {child, routines}
  /\ ~mixed => IF host.at \in Between /\ sent[host.doc].child THEN child = host.push
               ELSE Agree

OneInv == Typed /\ OneEra /\ InHand /\ Paired

LEMMA OneInit == Init => OneInv
<1> SUFFICES ASSUME Init PROVE OneInv
  OBVIOUS
<1>1. Spliced \notin {child, routines} /\ routines \notin DOMAIN sent
  BY ConstantType DEF Init
<1>2. host.at = "idle"
  BY DEF Init, NoPut
<1>3. rx = <<>>
  BY DEF Init
<1> QED
  BY <1>1, <1>2, <1>3, InitType DEF OneInv, OneEra, InHand, Agree, Between, Paired

(* A step that leaves what the invariant is about alone. *)
LEMMA OneFrame ==
  ASSUME OneInv, Typed', UNCHANGED <<sent, rx, host, flash, mixed>>, Era' = Era
  PROVE  OneInv'
BY DEF OneInv, OneEra, InHand, Agree, Between, Paired, flash

(* A push that is begun is in no file. *)
LEMMA PushKeeps ==
  ASSUME TypeOK, NEW d \in Docs, Push(d)
  PROVE  /\ routines \in DOMAIN sent' <=> routines \in DOMAIN sent
         /\ routines \in DOMAIN sent => sent'[routines] = sent[routines]
<1>1. sent' = Append(sent, d) /\ sent \in Seq(Docs) /\ routines \in Files(Len(sent))
  BY DEF Push, TypeOK
<1>2. routines # Len(sent) + 1
  BY <1>1, ConstantType DEF Files, Patched
<1> QED
  BY <1>1, <1>2

LEMMA OnePushed ==
  ASSUME OneInv, Typed', NEW d \in Docs, Push(d)
  PROVE  OneInv'
<1>0. TypeOK /\ host.at = "idle" /\ host' = host /\ rx' = rx /\ Era' = Era
  BY DEF OneInv, Typed, Push, Era
<1>2. OneEra'
  BY <1>0 DEF OneInv, OneEra
<1>3. InHand'
  BY <1>0 DEF InHand
<1>4. UNCHANGED <<child, routines, mixed>>
  BY DEF Push, flash
<1>5. Agree => Agree'
  <2>1. routines \in DOMAIN sent' => routines \in DOMAIN sent /\ sent'[routines] = sent[routines]
    BY <1>0, PushKeeps
  <2> QED
    BY <1>4, <2>1 DEF Agree
<1>6. Paired'
  BY <1>0, <1>4, <1>5 DEF OneInv, Paired, Between
<1> QED
  BY <1>2, <1>3, <1>6 DEF OneInv

LEMMA OneChunk ==
  ASSUME OneInv, Typed', AnyChunk
  PROVE  OneInv'
<1> PICK push \in DOMAIN sent, parses \in BOOLEAN : Chunk(push, parses)
  BY DEF AnyChunk
<1> DEFINE got == Append(rx, <<push, next[push], Era>>)
           contents == PutTogether(got, push)
<1>0. /\ TypeOK /\ OneEra /\ host.at = "idle" /\ sent' = sent /\ Era' = Era
      /\ UNCHANGED <<child, routines, mixed>>
  BY DEF OneInv, Typed, Chunk, flash, Era
<1>1. \A i \in DOMAIN got : got[i][3] = Era
  <2>1. rx \in Seq(Nat \X Nat \X Nat)
    BY <1>0 DEF TypeOK
  <2> QED
    BY <1>0, <2>1 DEF OneEra
<1>2. contents \in {push, Overlaid}
  BY <1>1 DEF PutTogether
<1>3. rx' \in {<<>>, got}
  BY DEF Chunk
<1>4. \/ host' = host
      \/ host' = [at |-> IF sent[push].child THEN "child" ELSE "check",
                  push |-> contents, doc |-> push]
  BY DEF Chunk
<1>d. /\ contents \in DOMAIN sent => contents = push
      /\ push \in DOMAIN sent
  BY <1>0, <1>2, SentType, ConstantType
<1> HIDE DEF got, contents
<1>5. OneEra'
  BY <1>0, <1>1, <1>3 DEF OneEra
<1>6. CASE host' = host
  <2>1. InHand' /\ Paired'
    BY <1>0, <1>6 DEF OneInv, InHand, Paired, Between, Agree
  <2> QED
    BY <1>5, <2>1 DEF OneInv
<1>7. CASE host' = [at |-> IF sent[push].child THEN "child" ELSE "check",
                    push |-> contents, doc |-> push]
  <2>1. host'.push = contents /\ host'.doc = push /\ host'.at = IF sent[push].child THEN "child" ELSE "check"
    BY <1>7
  <2>2. InHand'
    BY <1>0, <1>2, <1>d, <2>1 DEF InHand
  <2>3. Paired'
    BY <1>0, <2>1 DEF OneInv, Paired, Between, Agree
  <2> QED
    BY <1>5, <2>2, <2>3 DEF OneInv
<1> QED
  BY <1>4, <1>6, <1>7

LEMMA OneEmptied ==
  ASSUME OneInv, Typed', AnyRefused \/ AnyDisconnect
  PROVE  OneInv'
<1>1. rx' = <<>> /\ UNCHANGED <<sent, host, child, routines, mixed>>
  BY DEF AnyRefused, AnyDisconnect, ChunkRefused, Disconnect, Reset, flash
<1> QED
  BY <1>1 DEF OneInv, OneEra, InHand, Agree, Between, Paired

(* The steps of put_routines. *)
LEMMA OnePut ==
  ASSUME OneInv, Typed', Put
  PROVE  OneInv'
<1>0. /\ TypeOK /\ OneEra /\ InHand /\ Paired /\ UNCHANGED <<sent, rx>>
      /\ host.at # "idle" /\ host'.push = host.push /\ host'.doc = host.doc
  BY GoesType DEF OneInv, Typed, Put, OpenChild, NoChild, WriteChild, ChildShort, DropChild,
     ChildUnsynced, Refuse, OpenRoutines, NoRoutines, WriteRoutines, RoutinesShort, DropRoutines,
     RoutinesUnsynced, LogRoutines, LogFails, Rearm, phone, Places
<1>1. /\ host.push \in DOMAIN sent \cup {Overlaid} /\ host.push # Spliced
      /\ host.doc \in DOMAIN sent /\ (host.push \in DOMAIN sent => host.push = host.doc)
      /\ Document = sent[host.doc]
  BY <1>0, SentType, ConstantType DEF InHand, Document
<1>2. /\ DOMAIN sent \subseteq Nat \ {0} /\ NoFile \notin DOMAIN sent /\ Overlaid \notin DOMAIN sent
      /\ 0 # Spliced /\ NoFile # Spliced /\ sent[host.doc].child \in BOOLEAN
  BY <1>0, <1>1, SentType, DocType, ConstantType
<1>e. ASSUME Spend("failures") PROVE Era' = Era
  BY <1>0, <1>e, EraKept
<1>3. OneEra'
  <2>1. Era' = Era
    BY <1>e
       DEF Put, OpenChild, NoChild, WriteChild, ChildShort, DropChild, ChildUnsynced, Refuse,
           OpenRoutines, NoRoutines, WriteRoutines, RoutinesShort, DropRoutines,
           RoutinesUnsynced, LogRoutines, LogFails, Rearm, phone, Era
  <2> QED
    BY <1>0, <2>1 DEF OneEra
<1>4. ASSUME NEW from \in Places, NEW to \in Places, HostGoes(from, to)
      PROVE  host.at = from /\ host'.at = to
  BY <1>0, <1>4, GoesType
<1>5. ASSUME OpenChild PROVE OneInv'
  <2>1. host.at = "child" /\ host'.at = "writeChild"
    BY <1>4, <1>5 DEF OpenChild, Places
  <2>2. child' = Opened(child) /\ routines' = routines /\ mixed' = mixed
    BY <1>5 DEF OpenChild
  <2>3. Agree => Agree'
    BY <1>0, <1>2, <2>2 DEF Agree, Opened
  <2> QED
    BY <1>0, <1>1, <1>2, <1>3, <2>1, <2>2, <2>3 DEF OneInv, InHand, Paired, Between, Opened
<1>6. ASSUME WriteChild PROVE OneInv'
  <2>1. host.at = "writeChild" /\ host'.at = "check"
    BY <1>4, <1>6 DEF WriteChild, Places
  <2>2. child' = host.push /\ routines' = routines
    BY <1>6 DEF WriteChild
  <2> QED
    BY <1>0, <1>1, <1>2, <1>3, <2>1, <2>2 DEF OneInv, InHand, Paired, Between
<1>7. ASSUME NoChild \/ DropChild \/ ChildUnsynced PROVE OneInv'
  <2>1. host'.at = "check" /\ mixed'
    BY <1>4, <1>7 DEF NoChild, DropChild, ChildUnsynced, Places
  <2>2. child' \in {child, NoFile} /\ routines' = routines
    BY <1>7 DEF NoChild, DropChild, ChildUnsynced, flash
  <2> QED
    BY <1>0, <1>1, <1>2, <1>3, <2>1, <2>2 DEF OneInv, InHand, Paired
<1>8. ASSUME ChildShort PROVE OneInv'
  <2>1. host.at = "writeChild" /\ host'.at = "dropChild"
    BY <1>4, <1>8 DEF ChildShort, Places
  <2>2. UNCHANGED <<child, routines, mixed>>
    BY <1>8 DEF ChildShort, flash
  <2> QED
    BY <1>0, <1>1, <1>3, <2>1, <2>2 DEF OneInv, InHand, Paired, Between, Agree
<1>9. ASSUME Refuse PROVE OneInv'
  <2>1. host.at = "check" /\ host'.at = "idle"
    BY <1>4, <1>9 DEF Refuse, Places
  <2>2. UNCHANGED <<child, routines>> /\ mixed' = (mixed \/ Document.child)
    BY <1>9 DEF Refuse, flash
  <2> QED
    BY <1>0, <1>1, <1>3, <2>1, <2>2 DEF OneInv, InHand, Paired, Between, Agree
<1>10. ASSUME OpenRoutines PROVE OneInv'
  <2>1. host.at = "check" /\ host'.at = "write"
    BY <1>4, <1>10 DEF OpenRoutines, Places
  <2>2. child' = child /\ routines' = Opened(routines) /\ mixed' = mixed
    BY <1>10 DEF OpenRoutines, Replace
  <2>3. Agree => Agree'
    BY <1>0, <1>2, <2>2 DEF Agree, Opened
  <2> QED
    BY <1>0, <1>1, <1>2, <1>3, <2>1, <2>2, <2>3 DEF OneInv, InHand, Paired, Between, Opened
<1>11. ASSUME WriteRoutines PROVE OneInv'
  <2>1. host.at = "write" /\ host'.at = "log"
    BY <1>4, <1>11 DEF WriteRoutines, Places
  <2>2. /\ child' = child /\ routines' = host.push
        /\ mixed' = (mixed /\ ~(sent[host.doc].child /\ child = host.push))
    BY <1>1, <1>11 DEF WriteRoutines, Replace
  <2>3. ~mixed' => Agree'
    BY <1>0, <1>1, <2>1, <2>2 DEF Paired, Between, Agree
  <2> QED
    BY <1>0, <1>1, <1>3, <2>1, <2>2, <2>3 DEF OneInv, InHand, Paired, Between
<1>12. ASSUME RoutinesShort PROVE OneInv'
  <2>1. host.at = "write" /\ host'.at = "drop"
    BY <1>4, <1>12 DEF RoutinesShort, Places
  <2>2. UNCHANGED <<child, routines, mixed>>
    BY <1>12 DEF RoutinesShort, flash
  <2> QED
    BY <1>0, <1>1, <1>3, <2>1, <2>2 DEF OneInv, InHand, Paired, Between, Agree
<1>13. ASSUME NoRoutines \/ DropRoutines \/ RoutinesUnsynced PROVE OneInv'
  <2>1. host'.at \in {"idle", "log"} /\ mixed'
    BY <1>4, <1>13 DEF NoRoutines, DropRoutines, RoutinesUnsynced, Places
  <2>2. routines' \in {routines, NoFile} /\ child' = child
    BY <1>13 DEF NoRoutines, DropRoutines, RoutinesUnsynced, flash, Replace
  <2> QED
    BY <1>0, <1>1, <1>2, <1>3, <2>1, <2>2 DEF OneInv, InHand, Paired
<1>14. ASSUME LogRoutines \/ LogFails PROVE OneInv'
  <2>1. host.at = "log" /\ host'.at = "tell"
    BY <1>4, <1>14 DEF LogRoutines, LogFails, Places
  <2>2. routines' \in {routines, NoFile} /\ child' = child /\ mixed' = mixed
    BY <1>14 DEF LogRoutines, LogFails, Replace
  <2> QED
    BY <1>0, <1>1, <1>2, <1>3, <2>1, <2>2 DEF OneInv, InHand, Paired, Between, Agree
<1>15. ASSUME Rearm PROVE OneInv'
  <2>1. host.at = "tell" /\ host'.at = "idle"
    BY <1>4, <1>15 DEF Rearm, Places
  <2>2. UNCHANGED <<child, routines, mixed>>
    BY <1>15 DEF Rearm, flash
  <2> QED
    BY <1>0, <1>1, <1>3, <2>1, <2>2 DEF OneInv, InHand, Paired, Between, Agree
<1> QED
  BY <1>5, <1>6, <1>7, <1>8, <1>9, <1>10, <1>11, <1>12, <1>13, <1>14, <1>15 DEF Put

LEMMA OneCut ==
  ASSUME OneInv, Typed', PowerCut
  PROVE  OneInv'
<1>1. /\ rx' = <<>> /\ host'.at = "idle"
      /\ UNCHANGED <<sent, child, routines>>
      /\ mixed' = (mixed \/ host.at \notin {"idle", "child", "log", "tell"})
  BY DEF PowerCut, NoPut, flash
<1>2. ~mixed' => Agree
  BY <1>1 DEF OneInv, Paired, Between
<1> QED
  BY <1>1, <1>2 DEF OneInv, OneEra, InHand, Agree, Paired, Between

LEMMA OneStep == OneInv /\ [Next]_vars => OneInv'
<1> SUFFICES ASSUME OneInv, [Next]_vars PROVE OneInv'
  OBVIOUS
<1>0. Typed' /\ TypeOK
  BY StepType DEF OneInv, Typed
<1>1. ASSUME SchedWakes \/ SchedStats \/ SchedReads PROVE OneInv'
  <2>1. UNCHANGED <<sent, rx, host, flash, mixed>> /\ Era' = Era
    BY <1>1 DEF SchedWakes, SchedStats, SchedReads, phone, Era
  <2> QED
    BY <1>0, <2>1, OneFrame
<1>2. ASSUME RunActions PROVE OneInv'
  <2>1. UNCHANGED <<sent, rx, host, flash, mixed>> /\ Era' = Era
    BY <1>2, RunFrame DEF phone, Era
  <2> QED
    BY <1>0, <2>1, OneFrame
<1>3. ASSUME UNCHANGED vars PROVE OneInv'
  <2>1. UNCHANGED <<sent, rx, host, flash, mixed>> /\ Era' = Era
    BY <1>3 DEF vars, phone, Era
  <2> QED
    BY <1>0, <2>1, OneFrame
<1>4. ASSUME NEW d \in Docs, Push(d) PROVE OneInv'
  BY <1>0, <1>4, OnePushed
<1>5. ASSUME AnyChunk PROVE OneInv'
  BY <1>0, <1>5, OneChunk
<1>6. ASSUME AnyRefused \/ AnyDisconnect PROVE OneInv'
  BY <1>0, <1>6, OneEmptied
<1>7. ASSUME Put PROVE OneInv'
  BY <1>0, <1>7, OnePut
<1>8. ASSUME PowerCut PROVE OneInv'
  BY <1>0, <1>8, OneCut
<1>9. ASSUME SchedReadFails \/ RunReadFails PROVE OneInv'
  <2>1. UNCHANGED <<sent, rx, host, flash, mixed>> /\ Era' = Era
    BY <1>0, <1>9, EraKept DEF SchedReadFails, RunReadFails
  <2> QED
    BY <1>0, <2>1, OneFrame
<1> QED
  BY <1>1, <1>2, <1>3, <1>4, <1>5, <1>6, <1>7, <1>8, <1>9, NextCases

\* Whatever connections come and go between the chunks, whatever pushes
\* overlap, and wherever a put fails or power does, the files never hold chunks
\* of two connections of which one ended before the other was made, and both
\* hold the same push unless a put was refused, failed or lost power half way
\* through.  What the parser lets through of pushes that overlap on connections
\* that stay may be stored; that it is rarely anything is not proved.
THEOREM FilesAreOfOnePush == Spec => []OnePush
<1>1. OneInv => OnePush
  BY DEF OneInv, Paired, Between, Agree, OnePush
<1> QED
  BY <1>1, OneInit, OneStep, PTL DEF Spec

-----------------------------------------------------------------------------
(* The scheduler.  A search that began before a push was stored ends in a  *)
(* sleep on the wrong cache only while the notification is still to be     *)
(* taken, or to be sent.                                                   *)

Telling == told \/ host.at \in {"log", "tell"}

Cached == IF routines = 0 THEN NoFile ELSE routines

ArmInv ==
  /\ OneInv
  /\ sched.at = "sleep" => Telling \/ unsaid \/ sched.armed \in {Unread, Cached}
  /\ sched.at = "open" => Telling \/ SizeOf(routines) <= sched.size

(* Steps that replace nothing, and leave the scheduler alone. *)
LEMMA ArmFrame ==
  ASSUME ArmInv, OneInv', UNCHANGED <<sched, told, unsaid, routines, sent>>,
         host.at \in {"log", "tell"} => host'.at \in {"log", "tell"}
  PROVE  ArmInv'
BY DEF ArmInv, Telling, Cached, SizeOf

LEMMA ArmPushed ==
  ASSUME ArmInv, OneInv', NEW d \in Docs, Push(d)
  PROVE  ArmInv'
<1>0. TypeOK
  BY DEF ArmInv, OneInv, Typed
<1>1. UNCHANGED <<sched, told, unsaid, routines, host>>
  BY DEF Push, flash, waiting
<1>2. routines \in DOMAIN sent' => routines \in DOMAIN sent
  BY <1>0, PushKeeps
<1>3. routines \in DOMAIN sent => routines \in DOMAIN sent' /\ sent'[routines] = sent[routines]
  BY <1>0, PushKeeps
<1>4. SizeOf(routines)' = SizeOf(routines)
  BY <1>1, <1>2, <1>3 DEF SizeOf
<1> QED
  BY <1>1, <1>4 DEF ArmInv, Telling, Cached

LEMMA ArmPut ==
  ASSUME ArmInv, OneInv', Put
  PROVE  ArmInv'
<1>0. /\ TypeOK /\ UNCHANGED <<sent, sched>>
  BY DEF ArmInv, OneInv, Typed, Put, OpenChild, NoChild, WriteChild, ChildShort, DropChild,
     ChildUnsynced, Refuse, OpenRoutines, NoRoutines, WriteRoutines, RoutinesShort, DropRoutines,
     RoutinesUnsynced, LogRoutines, LogFails, Rearm, phone, waiting
<1>1. ASSUME NEW from \in Places, NEW to \in Places, HostGoes(from, to)
      PROVE  host.at = from /\ host'.at = to
  BY <1>0, <1>1, GoesType
<1>2. 0 \notin DOMAIN sent \cup Patched /\ NoFile \notin DOMAIN sent \cup Patched
  BY <1>0, SentType, ConstantType DEF Patched
<1>3. SizeOf(0) = 0 /\ SizeOf(NoFile) = 0
  BY <1>2 DEF SizeOf
<1>4. sched.size \in Nat
  BY <1>0, ConstantType DEF TypeOK, Scheds
<1>5. ASSUME \/ OpenChild \/ NoChild \/ WriteChild \/ ChildShort \/ DropChild \/ ChildUnsynced
             \/ Refuse \/ NoRoutines \/ RoutinesShort \/ RoutinesUnsynced
      PROVE  ArmInv'
  <2>1. host.at \notin {"log", "tell"}
    BY <1>1, <1>5 DEF OpenChild, NoChild, WriteChild, ChildShort, DropChild, ChildUnsynced,
       Refuse, NoRoutines, RoutinesShort, RoutinesUnsynced, Places
  <2>2. UNCHANGED <<told, unsaid, routines>>
    BY <1>5 DEF OpenChild, NoChild, WriteChild, ChildShort, DropChild, ChildUnsynced,
       Refuse, NoRoutines, RoutinesShort, RoutinesUnsynced, flash, waiting
  <2> QED
    BY <1>0, <2>1, <2>2, ArmFrame
<1>6. ASSUME OpenRoutines PROVE ArmInv'
  <2>1. host.at = "check" /\ host'.at = "write"
    BY <1>1, <1>6 DEF OpenRoutines, Places
  <2>2. routines' = Opened(routines) /\ UNCHANGED <<told, unsaid>>
    BY <1>6 DEF OpenRoutines, Replace, waiting
  <2>3. Cached' = Cached
    BY <2>2, ConstantType DEF Cached, Opened
  <2>4. SizeOf(routines)' = SizeOf(routines)
    BY <1>0, <1>2, <2>2 DEF SizeOf, Opened
  <2> QED
    BY <1>0, <2>1, <2>2, <2>3, <2>4 DEF ArmInv, Telling
<1>7. ASSUME WriteRoutines PROVE ArmInv'
  <2>1. host'.at = "log"
    BY <1>1, <1>7 DEF WriteRoutines, Places
  <2> QED
    BY <2>1 DEF ArmInv, Telling
<1>8. ASSUME DropRoutines PROVE ArmInv'
  <2>1. host.at = "drop" /\ host'.at = "idle"
    BY <1>1, <1>8 DEF DropRoutines, Places
  <2>2. routines' = NoFile /\ unsaid' /\ told' = told
    BY <1>8 DEF DropRoutines, Replace
  <2>3. SizeOf(routines)' = 0
    BY <1>0, <1>2, <2>2 DEF SizeOf
  <2> QED
    BY <1>0, <1>4, <2>1, <2>2, <2>3 DEF ArmInv, Telling
<1>9. ASSUME LogRoutines \/ LogFails PROVE ArmInv'
  <2>1. host'.at = "tell"
    BY <1>1, <1>9 DEF LogRoutines, LogFails, Places
  <2> QED
    BY <2>1 DEF ArmInv, Telling
<1>10. ASSUME Rearm PROVE ArmInv'
  BY <1>10 DEF Rearm, ArmInv, Telling
<1> QED
  BY <1>5, <1>6, <1>7, <1>8, <1>9, <1>10 DEF Put

LEMMA ArmSearch ==
  ASSUME ArmInv, OneInv', SchedWakes \/ SchedStats \/ SchedReads \/ SchedReadFails
  PROVE  ArmInv'
<1>0. TypeOK /\ sched \in Scheds(Len(sent)) /\ routines # Spliced
  BY DEF ArmInv, OneInv, Typed, TypeOK, Paired
<1>1. ASSUME SchedWakes PROVE ArmInv'
  <2>1. sched'.at = "search"
    BY <1>0, <1>1 DEF SchedWakes, Scheds
  <2> QED
    BY <2>1 DEF ArmInv
<1>2. ASSUME SchedStats PROVE ArmInv'
  <2>1. sched'.at = "open" /\ sched'.size = SizeOf(routines) /\ UNCHANGED <<sent, routines>>
    BY <1>0, <1>2 DEF SchedStats, Scheds, phone, flash
  <2>2. SizeOf(routines)' = SizeOf(routines) /\ SizeOf(routines) \in Nat
    BY <1>0, <2>1, SizeType, ConstantType DEF SizeOf
  <2> QED
    BY <2>1, <2>2 DEF ArmInv
<1>3. ASSUME SchedReads PROVE ArmInv'
  <2>1. /\ sched.at = "open" /\ sched'.at = "sleep"
        /\ sched'.armed = IF Readable(sched.size) THEN routines ELSE NoFile
        /\ UNCHANGED <<routines, told, host>>
    BY <1>3 DEF SchedReads, flash
  <2>2. Telling \/ sched'.armed = Cached
    <3>1. CASE Telling
      BY <3>1
    <3>2. CASE ~Telling
      <4>1. Readable(sched.size) <=> routines \in DOMAIN sent \cup Patched
        BY <2>1, <3>2 DEF ArmInv, Readable
      <4>2. routines \in DOMAIN sent \cup Patched => routines # 0
        BY <1>0, SentType, ConstantType DEF Patched
      <4>3. routines \notin DOMAIN sent \cup Patched => routines = 0 \/ routines = NoFile
        BY <1>0, SentType DEF TypeOK, Files
      <4> QED
        BY <2>1, <4>1, <4>2, <4>3 DEF Cached
    <3> QED
      BY <3>1, <3>2
  <2> QED
    BY <2>1, <2>2 DEF ArmInv, Telling, Cached
<1>4. ASSUME SchedReadFails PROVE ArmInv'
  <2>1. sched'.at = "sleep" /\ sched'.armed = Unread
    BY <1>4 DEF SchedReadFails
  <2> QED
    BY <2>1 DEF ArmInv
<1> QED
  BY <1>1, <1>2, <1>3, <1>4

LEMMA ArmStep == ArmInv /\ [Next]_vars => ArmInv'
<1> SUFFICES ASSUME ArmInv, [Next]_vars PROVE ArmInv'
  OBVIOUS
<1>0. OneInv'
  BY OneStep DEF ArmInv
<1>1. ASSUME AnyChunk PROVE ArmInv'
  <2>1. host.at = "idle" /\ UNCHANGED <<sched, told, unsaid, routines, sent>>
    BY <1>1 DEF AnyChunk, Chunk, flash, waiting
  <2> QED
    BY <1>0, <2>1, ArmFrame
<1>2. ASSUME AnyRefused \/ AnyDisconnect \/ RunReadFails PROVE ArmInv'
  <2>1. UNCHANGED <<host, sched, told, unsaid, routines, sent>>
    BY <1>2 DEF AnyRefused, AnyDisconnect, ChunkRefused, Disconnect, RunReadFails, flash, waiting
  <2> QED
    BY <1>0, <2>1, ArmFrame
<1>3. ASSUME RunActions PROVE ArmInv'
  <2>1. UNCHANGED <<host, sched, told, unsaid, routines, sent>>
    BY <1>3, RunFrame DEF phone, flash, waiting
  <2> QED
    BY <1>0, <2>1, ArmFrame
<1>4. ASSUME UNCHANGED vars PROVE ArmInv'
  <2>1. UNCHANGED <<host, sched, told, unsaid, routines, sent>>
    BY <1>4 DEF vars, phone, flash, waiting
  <2> QED
    BY <1>0, <2>1, ArmFrame
<1>5. ASSUME PowerCut PROVE ArmInv'
  <2>1. sched'.at = "search"
    BY <1>5 DEF PowerCut
  <2> QED
    BY <1>0, <2>1 DEF ArmInv
<1>6. ASSUME NEW d \in Docs, Push(d) PROVE ArmInv'
  BY <1>0, <1>6, ArmPushed
<1>7. ASSUME Put PROVE ArmInv'
  BY <1>0, <1>7, ArmPut
<1>8. ASSUME SchedWakes \/ SchedStats \/ SchedReads \/ SchedReadFails PROVE ArmInv'
  BY <1>0, <1>8, ArmSearch
<1> QED
  BY <1>1, <1>2, <1>3, <1>4, <1>5, <1>6, <1>7, <1>8, NextCases

\* However the search of the scheduler and the storing of a push are
\* interleaved, once the push is handled and its notification taken the sleep
\* is computed from the cache on flash, unless that search could not read it,
\* or a put failed after its cache was deleted, which nobody is told.
THEOREM SleepsOnTheCache == Spec => []ArmedOnTheCache
<1>1. Init => ArmInv
  <2>1. Init => sched.at = "search"
    BY DEF Init
  <2> QED
    BY <2>1, OneInit DEF ArmInv
<1>2. ArmInv => ArmedOnTheCache
  BY DEF ArmInv, ArmedOnTheCache, Telling, Cached
<1> QED
  BY <1>1, <1>2, ArmStep, PTL DEF Spec

-----------------------------------------------------------------------------
(* The run.  Until a push moves its routine, changes its steps or outgrows *)
(* the size a reader has taken, every read finds the routine that was      *)
(* asked for where the first one found it.                                 *)

Contents(f) == IF f \in DOMAIN sent THEN sent[f].routines ELSE <<>>

Known(r, v) == r.idx = Place(v, r.asked) /\ r.idx # 0

Taking(r, v) ==
  /\ r.count = Len(v[r.idx].steps)
  /\ \A i \in 1..Len(r.taken) : r.taken[i] = v[r.idx].steps[i]
  /\ r.id \in {"", r.asked}
  /\ r.taken # <<>> => r.id = r.asked

Follows(r, v, size) ==
  /\ r.at \in {"offer", "ready", "start", "show", "step"} => Known(r, v)
  /\ r.at \in {"find", "offer", "ready", "start"} => r.id = ""
  /\ r.at \in {"show", "step"} => Taking(r, v)
  /\ r.at = "step" => r.taken # <<>>
  /\ r.at \notin {"idle", "queued"} /\ r.size # NoSize => size <= r.size

RecInv ==
  /\ Typed
  /\ spoilt \/ Follows(run, Contents(routines), SizeOf(routines))

LEMMA PlaceIs ==
  ASSUME NEW view, NEW id, Place(view, id) # 0
  PROVE  Place(view, id) \in 1..Len(view) /\ view[Place(view, id)].id = id
<1> DEFINE I == {i \in 1..Len(view) : view[i].id = id}
<1>1. I \subseteq Nat
  OBVIOUS
<1>2. Place(view, id) = IF I # {} THEN Min(I) ELSE 0
  BY DEF Place, SelectInSeq
<1> HIDE DEF I
<1>3. I # {} /\ Place(view, id) = Min(I)
  BY <1>2
<1>4. Place(view, id) \in I
  BY <1>1, <1>3, MinType
<1> QED
  BY <1>4 DEF I

LEMMA ContentsType ==
  ASSUME TypeOK, NEW f, NEW i \in 1..Len(Contents(f))
  PROVE  /\ i \in DOMAIN Contents(f)
         /\ Contents(f)[i].id \in Ids /\ Contents(f)[i].steps \in Seq(STRING) \ {<<>>}
         /\ Len(Contents(f)[i].steps) \in Nat /\ Len(Contents(f)[i].steps) > 0
         /\ DOMAIN Contents(f)[i].steps = 1..Len(Contents(f)[i].steps)
<1>1. f \in DOMAIN sent
  <2>1. CASE f \notin DOMAIN sent
    <3>1. Contents(f) = <<>>
      BY <2>1 DEF Contents
    <3> QED
      BY <3>1
  <2> QED
    BY <2>1
<1>2. sent[f] \in Docs /\ Contents(f) = sent[f].routines
  BY <1>1, SentType DEF Contents
<1>3. DOMAIN sent[f].routines = 1..Len(sent[f].routines)
  BY <1>2, CacheAssumption DEF CacheAssumption
<1>4. i \in DOMAIN Contents(f)
  BY <1>2, <1>3
<1>5. Contents(f)[i].id \in Ids /\ Contents(f)[i].steps \in Seq(STRING) \ {<<>>}
  BY <1>2, <1>4, DocType
<1> DEFINE s == Contents(f)[i].steps
<1>6. Len(s) \in Nat /\ Len(s) > 0 /\ DOMAIN s = 1..Len(s)
  <2>1. s \in Seq(STRING) \ {<<>>}
    BY <1>5
  <2> HIDE DEF s
  <2> QED
    BY <2>1
<1> QED
  BY <1>4, <1>5, <1>6

(* What a reader reads whose size is not outgrown.                         *)
LEMMA ReadIs ==
  ASSUME TypeOK, NEW size, SizeOf(routines) <= size
  PROVE  View(size) = Contents(routines)
BY DEF View, Contents

LEMMA ViewIs ==
  ASSUME TypeOK
  PROVE  View(NoSize) = Contents(routines)
<1>1. SizeOf(routines) <= NoSize
  BY SizeType, ConstantType
<1> QED
  BY <1>1, ReadIs

LEMMA RecReplace ==
  ASSUME RecInv, Typed', NEW f, Replace(f), UNCHANGED <<sent, run>>
  PROVE  RecInv'
<1>1. SUFFICES ASSUME ~spoilt' PROVE Follows(run, Contents(f), SizeOf(f))
  <2>1. Contents(routines)' = Contents(f) /\ SizeOf(routines)' = SizeOf(f)
    BY DEF Replace, Contents, SizeOf
  <2> QED
    BY <1>1, <2>1 DEF RecInv, Follows, Known, Taking
<1>2. CASE run.at \in {"idle", "queued"}
  BY <1>2 DEF Follows
<1>3. CASE run.at \notin {"idle", "queued"}
  <2> DEFINE v == Contents(routines)
             w == Contents(f)
  <2>1. ~spoilt /\ ~Spoils(f)
    BY <1>1, <1>3 DEF Replace
  <2>2. Follows(run, v, SizeOf(routines))
    BY <2>1 DEF RecInv
  <2>3. View(NoSize) = v
    BY ViewIs DEF RecInv, Typed
  <2>4. /\ Place(v, run.asked) = Place(w, run.asked)
        /\ Place(v, run.asked) # 0 =>
             w[Place(v, run.asked)].steps = v[Place(v, run.asked)].steps
        /\ run.size # NoSize => ~(SizeOf(f) > run.size)
    BY <2>1, <2>3 DEF Spoils, Contents
  <2> HIDE DEF v, w
  <2>5. run.size # NoSize => SizeOf(f) <= run.size
    <3>1. SizeOf(f) \in Nat /\ run.size \in Nat
      BY SizeType, RunFields, ConstantType DEF RecInv, Typed, GoodRun
    <3> QED
      BY <3>1, <2>4
  <2>6. Known(run, v) => Known(run, w)
    BY <2>4 DEF Known
  <2>7. Known(run, v) /\ Taking(run, v) => Taking(run, w)
    BY <2>4 DEF Known, Taking
  <2> QED
    BY <2>2, <2>5, <2>6, <2>7 DEF Follows, w
<1> QED
  BY <1>2, <1>3

(* Steps that leave the routines and the run alone.                        *)
LEMMA RecFrame ==
  ASSUME RecInv, Typed', UNCHANGED <<sent, routines, run, spoilt>>
  PROVE  RecInv'
<1>1. Contents(routines)' = Contents(routines) /\ SizeOf(routines)' = SizeOf(routines)
  BY DEF Contents, SizeOf
<1> QED
  BY <1>1 DEF RecInv, Follows, Known, Taking

LEMMA RecPushed ==
  ASSUME RecInv, Typed', NEW d \in Docs, Push(d)
  PROVE  RecInv'
<1>0. TypeOK /\ UNCHANGED <<routines, run, spoilt>>
  BY DEF RecInv, Typed, Push, flash
<1>1. routines \in DOMAIN sent' <=> routines \in DOMAIN sent
  BY <1>0, PushKeeps
<1>2. routines \in DOMAIN sent => sent'[routines] = sent[routines]
  BY <1>0, PushKeeps
<1>3. Contents(routines)' = Contents(routines) /\ SizeOf(routines)' = SizeOf(routines)
  BY <1>0, <1>1, <1>2 DEF Contents, SizeOf
<1> QED
  BY <1>0, <1>3 DEF RecInv, Follows, Known, Taking

LEMMA RecPut ==
  ASSUME RecInv, Typed', Put
  PROVE  RecInv'
<1>1. UNCHANGED <<sent, run>>
  BY DEF Put, OpenChild, NoChild, WriteChild, ChildShort, DropChild, ChildUnsynced, Refuse,
     OpenRoutines, NoRoutines, WriteRoutines, RoutinesShort, DropRoutines,
     RoutinesUnsynced, LogRoutines, LogFails, Rearm, phone
<1>2. UNCHANGED <<routines, spoilt>> \/ \E f : Replace(f)
  BY DEF Put, OpenChild, NoChild, WriteChild, ChildShort, DropChild, ChildUnsynced, Refuse,
     OpenRoutines, NoRoutines, WriteRoutines, RoutinesShort, DropRoutines,
     RoutinesUnsynced, LogRoutines, LogFails, Rearm, flash
<1> QED
  BY <1>1, <1>2, RecFrame, RecReplace

(* What the readers of a run that was not spoilt read.                     *)
LEMMA ReadFollows ==
  ASSUME RecInv, ~spoilt, run.at \notin {"idle", "queued"}, run.size # NoSize
  PROVE  Read = Contents(routines)
<1>1. SizeOf(routines) <= run.size
  BY DEF RecInv, Follows
<1> QED
  BY <1>1, ReadIs DEF RecInv, Typed, Read

LEMMA RecTakes ==
  ASSUME RecInv, ~spoilt, ShowCurrentStep
  PROVE  run'.at = "step" /\ Follows(run', Contents(routines), SizeOf(routines))
<1> DEFINE v == Contents(routines)
           p == v[run.idx].steps
<1>1. /\ run.at = "show" /\ run.size # NoSize /\ run \in Runs
      /\ Len(run.taken) < run.count /\ run.taken \in Seq(STRING) /\ Len(run.taken) \in Nat
  BY RunFields DEF ShowCurrentStep, Reading, RecInv, Typed, GoodRun
<1>2. Read = v
  BY <1>1, ReadFollows
<1>3. Known(run, v) /\ Taking(run, v)
  BY <1>1 DEF RecInv, Follows
<1>4. run.idx \in 1..Len(v) /\ v[run.idx].id = run.asked
  BY <1>3, PlaceIs DEF Known
<1>5. /\ run.idx \in DOMAIN v /\ v[run.idx].id \in Ids
      /\ p \in Seq(STRING) /\ Len(p) \in Nat /\ DOMAIN p = 1..Len(p)
  BY <1>4, ContentsType DEF RecInv, Typed
<1>6. run.count = Len(p) /\ \A i \in 1..Len(run.taken) : run.taken[i] = p[i]
  BY <1>3 DEF Taking
<1>7. Step \in 1..Len(p) /\ Step = Len(run.taken) + 1
  BY <1>1, <1>5, <1>6 DEF Step
<1>8. HasStep(Read, run.idx, Step)
  BY <1>2, <1>5, <1>7 DEF HasStep
<1> DEFINE t == Append(run.taken, p[Step])
           id == IF run.id = "" THEN v[run.idx].id ELSE run.id
<1>9. run' = [run EXCEPT !.at = "step", !.size = NoSize, !.taken = t, !.id = id]
  BY <1>2, <1>8 DEF ShowCurrentStep
<1>10. p[Step] \in STRING
  BY <1>5, <1>7
<1>11. id = run.asked /\ id \in Ids \cup {""}
  BY <1>3, <1>4, <1>5 DEF Taking
<1> HIDE DEF p, v
<1>12. /\ t \in Seq(STRING) /\ Len(t) = Len(run.taken) + 1 /\ t # <<>>
       /\ \A i \in 1..Len(t) : t[i] = p[i]
  BY <1>1, <1>6, <1>7, <1>10
<1> HIDE DEF t, id
<1>13. /\ run'.at = "step" /\ run'.size = NoSize /\ run'.idx = run.idx
       /\ run'.asked = run.asked /\ run'.id = id /\ run'.taken = t /\ run'.count = run.count
  BY <1>1, <1>9, <1>11, <1>12 DEF Runs
<1>14. Known(run', v)
  BY <1>3, <1>13 DEF Known
<1>15. Taking(run', v)
  BY <1>6, <1>11, <1>12, <1>13 DEF Taking, p
<1> QED
  BY <1>12, <1>13, <1>14, <1>15 DEF Follows, v

LEMMA RecRun ==
  ASSUME RecInv, Typed', RunActions
  PROVE  RecInv'
<1>1. /\ Contents(routines)' = Contents(routines) /\ SizeOf(routines)' = SizeOf(routines)
      /\ TypeOK /\ run \in Runs
  BY RunFrame DEF phone, flash, Contents, SizeOf, RecInv, Typed, GoodRun
<1> DEFINE v == Contents(routines)
           s == SizeOf(routines)
           ok == Follows(run', v, s)
<1>2. SUFFICES ASSUME ~spoilt' PROVE ok
  BY <1>1, <1>2 DEF RecInv, Follows, Known, Taking
<1>3. NoRun.at = "idle" /\ NoRun.size = NoSize /\ NoRun.id = ""
  BY DEF NoRun
<1>4. ASSUME run' = NoRun PROVE ok
  BY <1>3, <1>4 DEF Follows
<1>5. ASSUME run'.at = "queued" PROVE ok
  BY <1>5 DEF Follows
<1>6. ASSUME NEW id \in Ids, Ask(id) PROVE ok
  <2>1. run' = [NoRun EXCEPT !.at = "find", !.asked = id] /\ NoRun \in Runs
    BY <1>6, NoRunType DEF Ask
  <2>2. run'.at = "find" /\ run'.size = NoRun.size /\ run'.id = NoRun.id
    BY <2>1 DEF Runs
  <2> QED
    BY <1>3, <2>2 DEF Follows
<1>7. ASSUME ~(\E id \in Ids : Ask(id)) PROVE ~spoilt /\ Follows(run, v, s)
  BY <1>2, <1>7 DEF RunActions, RunStats, FindRoutine, DeferredOffer, AnswerReady, Start,
     ShowCurrentStep, Advance, RecInv
<1> HIDE DEF v, s
<1>8. ASSUME RunStats, ~spoilt, Follows(run, v, s) PROVE ok
  <2>1. s \in 0..NoSize /\ run' = [run EXCEPT !.size = s]
    BY <1>1, <1>8, SizeType DEF RunStats, s
  <2>2. /\ run'.at = run.at /\ run'.size = s /\ run'.idx = run.idx /\ run'.asked = run.asked
        /\ run'.id = run.id /\ run'.taken = run.taken /\ run'.count = run.count
    BY <1>1, <2>1 DEF Runs
  <2>3. s <= s
    BY <2>1
  <2> QED
    BY <1>8, <2>2, <2>3 DEF Follows, Known, Taking
<1>9. ASSUME FindRoutine, ~spoilt, Follows(run, v, s) PROVE ok
  <2>1. run.at = "find" /\ run.size # NoSize /\ run.id = ""
    BY <1>9 DEF FindRoutine, Reading, Follows
  <2>2. Read = v
    BY <1>9, <2>1, ReadFollows DEF v
  <2> DEFINE i == Place(v, run.asked)
  <2>3. run' = NoRun \/ (i # 0 /\ run' = [run EXCEPT !.at = "offer", !.size = NoSize, !.idx = i])
    BY <1>9, <2>2 DEF FindRoutine
  <2>4. i \in Nat
    BY PlaceType
  <2>5. CASE run' # NoRun
    <3>1. i # 0 /\ i = Place(v, run.asked)
      BY <2>3, <2>5
    <3> HIDE DEF i
    <3>2. /\ run'.at = "offer" /\ run'.size = NoSize /\ run'.idx = i
          /\ run'.asked = run.asked /\ run'.id = run.id
      BY <1>1, <2>3, <2>4, <2>5 DEF Runs
    <3> QED
      BY <2>1, <3>1, <3>2 DEF Follows, Known
  <2> QED
    BY <1>4, <2>5
<1>10. ASSUME DeferredOffer, ~spoilt, Follows(run, v, s) PROVE ok
  <2>1. run.at = "offer" /\ (run' = NoRun \/ run' = [run EXCEPT !.at = "ready", !.size = NoSize])
    BY <1>10 DEF DeferredOffer, Reading
  <2>2. CASE run' # NoRun
    <3>1. /\ run'.at = "ready" /\ run'.size = NoSize /\ run'.idx = run.idx
          /\ run'.asked = run.asked /\ run'.id = run.id
      BY <1>1, <2>1, <2>2 DEF Runs
    <3> QED
      BY <1>10, <2>1, <3>1 DEF Follows, Known
  <2> QED
    BY <1>4, <2>2
<1>11. ASSUME NEW started \in BOOLEAN, AnswerReady(started), ~spoilt, Follows(run, v, s) PROVE ok
  <2>1. run.at = "ready" /\ (run' = NoRun \/ run' = [run EXCEPT !.at = "start"])
    BY <1>11 DEF AnswerReady
  <2>2. CASE run' # NoRun
    <3>1. /\ run'.at = "start" /\ run'.size = run.size /\ run'.idx = run.idx
          /\ run'.asked = run.asked /\ run'.id = run.id
      BY <1>1, <2>1, <2>2 DEF Runs
    <3> QED
      BY <1>11, <2>1, <3>1 DEF Follows, Known
  <2> QED
    BY <1>4, <2>2
<1>12. ASSUME Start, ~spoilt, Follows(run, v, s) PROVE ok
  <2>1. run.at = "start" /\ run.size # NoSize /\ run.taken = <<>> /\ run.id = ""
    BY <1>12 DEF Start, Reading, Follows, RecInv, Typed, GoodRun
  <2>2. Read = v /\ Known(run, v)
    BY <1>12, <2>1, ReadFollows DEF v, Follows
  <2>3. CASE run' # NoRun
    <3> DEFINE n == Len(v[run.idx].steps)
    <3>1. HasStep(v, run.idx, 1) /\ run' = [run EXCEPT !.at = "show", !.size = NoSize, !.count = n]
      BY <1>12, <2>2, <2>3 DEF Start
    <3>2. n \in Nat
      <4>1. run.idx \in 1..Len(v)
        BY <2>2, PlaceIs DEF Known
      <4> QED
        BY <1>1, <4>1, ContentsType DEF v
    <3> HIDE DEF n
    <3>3. /\ run'.at = "show" /\ run'.size = NoSize /\ run'.idx = run.idx /\ run'.count = n
          /\ run'.asked = run.asked /\ run'.id = run.id /\ run'.taken = run.taken
      BY <1>1, <3>1, <3>2 DEF Runs
    <3>4. Known(run', v)
      BY <2>2, <3>3 DEF Known
    <3>5. /\ run'.taken = <<>> /\ Len(run'.taken) = 0 /\ run'.id = ""
          /\ run'.count = Len(v[run'.idx].steps)
      <4>1. run'.taken = <<>> /\ run'.id = ""
        BY <2>1, <3>3
      <4>2. Len(run'.taken) = 0
        <5> DEFINE t == run'.taken
        <5>1. t = <<>>
          BY <4>1
        <5> HIDE DEF t
        <5>2. Len(t) = 0
          BY <5>1
        <5> QED
          BY <5>2 DEF t
      <4> QED
        BY <3>3, <4>1, <4>2 DEF n
    <3>6. Taking(run', v)
      <4>1. 1..0 = {}
        OBVIOUS
      <4> QED
        BY <3>5, <4>1 DEF Taking
    <3> QED
      BY <3>3, <3>4, <3>6 DEF Follows
  <2> QED
    BY <1>4, <2>3
<1>13. ASSUME ShowCurrentStep, ~spoilt PROVE ok
  BY <1>13, RecTakes DEF v, s
<1>14. ASSUME Advance, ~spoilt, Follows(run, v, s) PROVE ok
  <2>1. run.at = "step"
    BY <1>14 DEF Advance
  <2>2. CASE Walked
    <3>1. Finish /\ GoodRun(run)
      BY <1>14, <2>2 DEF Advance, RecInv, Typed
    <3> QED
      BY <1>5, <3>1, FinishType
  <2>3. CASE ~Walked
    <3>1. run' = [run EXCEPT !.at = "show"]
      BY <1>14, <2>3 DEF Advance
    <3>2. /\ run'.at = "show" /\ run'.size = run.size /\ run'.idx = run.idx
          /\ run'.asked = run.asked /\ run'.id = run.id
          /\ run'.taken = run.taken /\ run'.count = run.count
      BY <1>1, <3>1 DEF Runs
    <3> QED
      BY <1>14, <2>1, <3>2 DEF Follows, Known, Taking
  <2> QED
    BY <2>2, <2>3
<1> QED
  BY <1>6, <1>7, <1>8, <1>9, <1>10, <1>11, <1>12, <1>13, <1>14 DEF RunActions

LEMMA RecStep == RecInv /\ [Next]_vars => RecInv'
<1> SUFFICES ASSUME RecInv, [Next]_vars PROVE RecInv'
  OBVIOUS
<1>0. Typed'
  BY StepType DEF RecInv
<1>1. ASSUME NEW d \in Docs, Push(d) PROVE RecInv'
  BY <1>0, <1>1, RecPushed
<1>2. ASSUME \/ AnyChunk \/ AnyRefused \/ AnyDisconnect
             \/ SchedWakes \/ SchedStats \/ SchedReads \/ SchedReadFails
      PROVE  RecInv'
  <2>1. UNCHANGED <<sent, routines, run, spoilt>>
    BY <1>2 DEF AnyChunk, AnyRefused, AnyDisconnect, Chunk, ChunkRefused, Disconnect,
       SchedWakes, SchedStats, SchedReads, SchedReadFails, phone, flash
  <2> QED
    BY <1>0, <2>1, RecFrame
<1>3. ASSUME Put PROVE RecInv'
  BY <1>0, <1>3, RecPut
<1>4. ASSUME RunActions PROVE RecInv'
  BY <1>0, <1>4, RecRun
<1>5. ASSUME PowerCut PROVE RecInv'
  <2>1. run'.at = "idle" /\ run'.size = NoSize
    BY <1>5 DEF PowerCut, NoRun
  <2> QED
    BY <1>0, <2>1 DEF RecInv, Follows
<1>6. ASSUME UNCHANGED vars PROVE RecInv'
  <2>1. UNCHANGED <<sent, routines, run, spoilt>>
    BY <1>6 DEF vars, phone, flash
  <2> QED
    BY <1>0, <2>1, RecFrame
<1>7. ASSUME RunReadFails PROVE RecInv'
  <2>1. CASE run.at = "show"
    BY <1>0, <1>7, <2>1 DEF RunReadFails, RecInv
  <2>2. CASE run.at # "show"
    <3>1. run' = NoRun
      BY <1>7, <2>2 DEF RunReadFails
    <3>2. run'.at = "idle" /\ run'.size = NoSize
      BY <3>1 DEF NoRun
    <3> QED
      BY <1>0, <3>2 DEF RecInv, Follows
  <2> QED
    BY <2>1, <2>2
<1> QED
  BY <1>1, <1>2, <1>3, <1>4, <1>5, <1>6, <1>7, NextCases

\* The record that a run queues holds the routine that was asked for and its
\* steps up to RR_MAX_STEPS, unless a push moved or changed it, or outgrew the
\* size a reader had taken, or a read failed, of which nobody is told either.
THEOREM RecordsAreWhole == Spec => RecordIsOneRoutine
<1> DEFINE Good == run.at # "queued" /\ run'.at = "queued" =>
                     \/ spoilt'
                     \/ LET view == View(NoSize)
                            at   == Place(view, run.asked)
                        IN at # 0 /\ run'.id = run.asked /\ run'.taken = Kept(view[at].steps)
<1>1. Init => RecInv
  <2> SUFFICES ASSUME Init PROVE RecInv
    OBVIOUS
  <2>1. run.at = "idle" /\ run.size = NoSize
    BY DEF Init, NoRun
  <2>2. Typed
    BY InitType
  <2>3. ~spoilt
    BY DEF Init
  <2> QED
    BY <2>1, <2>2, <2>3 DEF RecInv, Follows
<1>2. RecInv /\ [Next]_vars => Good
  <2> SUFFICES ASSUME RecInv, [Next]_vars, run.at # "queued", run'.at = "queued", ~spoilt'
               PROVE  LET view == View(NoSize)
                          at   == Place(view, run.asked)
                      IN at # 0 /\ run'.id = run.asked /\ run'.taken = Kept(view[at].steps)
    OBVIOUS
  <2> DEFINE v == Contents(routines)
             p == v[run.idx].steps
  <2>1. View(NoSize) = v /\ run \in Runs /\ run.taken \in Seq(STRING) /\ Len(run.taken) \in Nat
        /\ Len(run.taken) <= run.count /\ run.count \in Nat
    BY ViewIs, RunFields DEF RecInv, Typed, GoodRun
  <2>2. run' # run
    OBVIOUS
  <2>3. RunActions \/ RunReadFails \/ PowerCut
    BY <2>2, NextCases DEF vars, Push, AnyChunk, AnyRefused, AnyDisconnect, Chunk, ChunkRefused,
       Disconnect, SchedWakes, SchedStats, SchedReads, SchedReadFails, Put, OpenChild, NoChild,
       WriteChild, ChildShort, DropChild, ChildUnsynced, Refuse, OpenRoutines, NoRoutines,
       WriteRoutines, RoutinesShort, DropRoutines, RoutinesUnsynced, LogRoutines, LogFails, Rearm
  <2>4. ASSUME ShowCurrentStep PROVE FALSE
    <3>1. ~spoilt
      BY <2>4 DEF ShowCurrentStep
    <3> QED
      BY <2>4, <3>1, RecTakes
  <2>5. Advance /\ Walked
    <3>1. ASSUME NEW id \in Ids, Ask(id) PROVE FALSE
      BY <3>1, NoRunType DEF Ask, Runs
    <3>2. ASSUME RunStats PROVE FALSE
      BY <3>2, <2>1 DEF RunStats, Runs
    <3>3. ASSUME FindRoutine \/ DeferredOffer \/ Start \/ PowerCut PROVE FALSE
      BY <3>3, <2>1, NoRunType DEF FindRoutine, DeferredOffer, Start, PowerCut, Runs
    <3>4. ASSUME NEW started \in BOOLEAN, AnswerReady(started) PROVE FALSE
      BY <3>4, <2>1, NoRunType DEF AnswerReady, Runs
    <3>5. ASSUME Advance, ~Walked PROVE FALSE
      BY <3>5, <2>1 DEF Advance, Runs
    <3>6. ASSUME RunReadFails PROVE FALSE
      BY <3>6, NoRunType DEF RunReadFails
    <3> QED
      BY <2>3, <2>4, <3>1, <3>2, <3>3, <3>4, <3>5, <3>6 DEF RunActions
  <2>6. run.at = "step" /\ Follows(run, v, SizeOf(routines))
    BY <2>5 DEF Advance, RecInv
  <2>7. Known(run, v) /\ Taking(run, v) /\ run.taken # <<>>
    BY <2>6 DEF Follows
  <2>8. p \in Seq(STRING) /\ Len(p) \in Nat
    <3>1. run.idx \in 1..Len(v)
      BY <2>7, PlaceIs DEF Known
    <3> QED
      BY <3>1, ContentsType DEF RecInv, Typed
  <2>9. run.taken = p
    <3>1. /\ run.count = Len(v[run.idx].steps)
          /\ \A i \in 1..Len(run.taken) : run.taken[i] = v[run.idx].steps[i]
      BY <2>7 DEF Taking
    <3>2. ~(Len(run.taken) < run.count)
      BY <2>1, <2>5 DEF Walked
    <3>3. Len(run.taken) = Len(p)
      BY <2>1, <3>1, <3>2 DEF p
    <3> QED
      <4>1. \A i \in 1..Len(run.taken) : run.taken[i] = p[i]
        BY <3>1 DEF p
      <4> HIDE DEF p
      <4> QED
        BY <2>1, <2>8, <3>3, <4>1
  <2>10. run'.id = run.id /\ run'.taken = Kept(run.taken)
    BY <2>5, FinishType DEF Advance, RecInv, Typed
  <2> QED
    BY <2>1, <2>7, <2>9, <2>10 DEF Known, Taking
<1> QED
  BY <1>1, <1>2, RecStep, PTL DEF Spec, RecordIsOneRoutine
-----------------------------------------------------------------------------
(***************************************************************************)
(* The search.  A hit of the code is a day ahead and a minute of that day; *)
(* the meaning of a schedule counts minutes from now.  The two agree       *)
(* because a minute of the next seven days has one day and one time.       *)
(***************************************************************************)
LEMMA DayType == DayMinutes \in Nat /\ DayMinutes > 0 /\ \A t \in Minutes : t \in Nat /\ t < DayMinutes
BY CacheAssumption DEF CacheAssumption, Minutes

LEMMA OneQuotient ==
  ASSUME NEW D \in Nat, NEW q \in Nat, NEW d \in Nat, NEW r \in Nat, NEW t \in Nat,
         r < D, t < D, D * q + r = D * d + t
  PROVE  q = d /\ r = t
<1>1. ~(q < d)
  <2> SUFFICES ASSUME q < d PROVE FALSE
    OBVIOUS
  <2>1. PICK k \in Nat : d = q + 1 + k
    <3>1. d - q - 1 \in Nat /\ d = q + 1 + (d - q - 1)
      OBVIOUS
    <3> QED
      BY <3>1
  <2>2. D * d = D * q + D + D * k /\ D * k \in Nat /\ D * q \in Nat
    BY <2>1
  <2> QED
    BY <2>2
<1>2. ~(d < q)
  <2> SUFFICES ASSUME d < q PROVE FALSE
    OBVIOUS
  <2>1. PICK k \in Nat : q = d + 1 + k
    <3>1. q - d - 1 \in Nat /\ q = d + 1 + (q - d - 1)
      OBVIOUS
    <3> QED
      BY <3>1
  <2>2. D * q = D * d + D + D * k /\ D * k \in Nat /\ D * d \in Nat
    BY <2>1
  <2> QED
    BY <2>2
<1>3. q = d
  BY <1>1, <1>2
<1> QED
  BY <1>3

(* The minutes of day d, and the day and the time of a minute.             *)
LEMMA DayStart ==
  ASSUME NEW d \in Nat
  PROVE  /\ d * DayMinutes \in Nat
         /\ d = 0 => d * DayMinutes = 0
         /\ d >= 1 => d * DayMinutes >= DayMinutes
         /\ \A e \in Nat : e <= d => e * DayMinutes <= d * DayMinutes
<1> DEFINE D == DayMinutes
<1>1. D \in Nat
  BY DayType
<1> HIDE DEF D
<1>2. \A e \in Nat : e <= d => e * D <= d * D
  <2> SUFFICES ASSUME NEW e \in Nat, e <= d PROVE e * D <= d * D
    OBVIOUS
  <2>1. d - e \in Nat /\ d = e + (d - e)
    OBVIOUS
  <2>2. PICK k \in Nat : d = e + k
    BY <2>1
  <2>3. d * D = e * D + k * D /\ k * D \in Nat /\ e * D \in Nat
    BY <1>1, <2>2
  <2> QED
    BY <2>3
<1>3. d * D \in Nat /\ 0 * D = 0 /\ 1 * D = D
  BY <1>1
<1> QED
  BY <1>2, <1>3 DEF D

LEMMA DayAndTime ==
  ASSUME NEW d \in Nat, NEW t \in Minutes
  PROVE  (d * DayMinutes + t) % DayMinutes = t /\ (d * DayMinutes + t) \div DayMinutes = d
<1> DEFINE D == DayMinutes
           x == d * D + t
           q == x \div D
           r == x % D
<1>1. D \in Nat /\ D > 0 /\ t \in Nat /\ t < D
  BY DayType
<1> HIDE DEF D
<1>2. x \in Nat
  BY <1>1
<1>3. q \in Nat /\ r \in Nat /\ r < D /\ x = D * q + r
  BY <1>1, <1>2
<1>4. x = D * d + t
  BY <1>1
<1> HIDE DEF q, r, x
<1>5. q = d /\ r = t
  BY <1>1, <1>3, <1>4, OneQuotient
<1> QED
  BY <1>5 DEF q, r, x, D

LEMMA Division ==
  ASSUME NEW x \in Nat, NEW D \in Nat, D > 0
  PROVE  x \div D \in Nat /\ x % D \in 0..(D - 1) /\ x = (x \div D) * D + (x % D)
<1> DEFINE q == x \div D
           r == x % D
<1>1. q \in Nat /\ r \in 0..(D - 1) /\ x = D * q + r
  OBVIOUS
<1> HIDE DEF q, r
<1>2. D * q = q * D
  BY <1>1
<1>3. q \in Nat /\ r \in 0..(D - 1) /\ x = q * D + r
  BY <1>1, <1>2
<1> QED
  BY <1>3 DEF q, r

LEMMA DayOf ==
  ASSUME NEW x \in Nat
  PROVE  /\ x \div DayMinutes \in Nat /\ x % DayMinutes \in Minutes
         /\ x = (x \div DayMinutes) * DayMinutes + (x % DayMinutes)
<1>1. DayMinutes \in Nat /\ DayMinutes > 0 /\ Minutes = 0..(DayMinutes - 1)
  BY DayType DEF Minutes
<1> QED
  BY <1>1, Division

-----------------------------------------------------------------------------
(***************************************************************************)
(* A cache the search is given: its routines are numbered, and ring at     *)
(* minutes of a day.                                                       *)
(***************************************************************************)
WellFormed(view) ==
  /\ DOMAIN view \subseteq Nat
  /\ \A i \in DOMAIN view : \A s \in view[i].scheds : s.at \in Minutes

Ahead(d, t) == d * DayMinutes + t

LEMMA AheadType ==
  ASSUME NEW d \in 0..7, NEW t \in Minutes, NEW from \in Minutes
  PROVE  /\ Ahead(d, t) \in Nat /\ 7 * DayMinutes \in Nat
         /\ Ahead(d, t) < from <=> d = 0 /\ t < from
         /\ Ahead(d, t) = from <=> d = 0 /\ t = from
         /\ Ahead(d, t) <= 7 * DayMinutes + from <=> d < 7 \/ t <= from
<1> DEFINE D == DayMinutes
           x == d * D
           w == 7 * D
<1>1. D \in Nat /\ t \in Nat /\ from \in Nat /\ t < D /\ from < D /\ d \in Nat
  BY DayType
<1>2. x \in Nat /\ w \in Nat /\ (d = 0 => x = 0) /\ (d >= 1 => x >= D) /\ x <= w
  <2>1. x \in Nat /\ (d = 0 => x = 0) /\ (d >= 1 => x >= D)
    BY <1>1, DayStart
  <2>2. PICK n \in Nat : n = 7
    OBVIOUS
  <2>3. n * DayMinutes \in Nat /\ \A e \in Nat : e <= n => e * DayMinutes <= n * DayMinutes
    BY DayStart
  <2> QED
    BY <1>1, <2>1, <2>2, <2>3
<1>3. d < 7 => x + D <= w
  <2> SUFFICES ASSUME d < 7 PROVE x + D <= w
    OBVIOUS
  <2>1. 6 * D + D = w /\ 6 * D \in Nat
    BY <1>1
  <2>2. d <= 6
    BY <1>1
  <2>3. x <= 6 * D
    BY <1>1, <2>2, DayStart
  <2> QED
    BY <1>1, <1>2, <2>1, <2>3
<1>4. d = 7 => x = w
  OBVIOUS
<1>5. d = 7 \/ d < 7
  OBVIOUS
<1> HIDE DEF D, x, w
<1>6. Ahead(d, t) = x + t
  BY DEF Ahead, x, D
<1> QED
  BY <1>1, <1>2, <1>3, <1>4, <1>5, <1>6 DEF w, D

DueMinutes(view, wd, from, skip) ==
  {m \in 0..(7 * DayMinutes) : DueIn(view, wd, from, skip, m) # {}}

(* The weekday a schedule is looked for on is today's again after a week.  *)
LEMMA WeekLater ==
  ASSUME NEW wd \in 1..7
  PROVE  ((wd - 1 + 0) % 7) + 1 = wd /\ ((wd - 1 + 7) % 7) + 1 = wd
OBVIOUS

(* Every hit of the search is due, so many minutes from now.               *)
LEMMA HitIsDue ==
  ASSUME NEW view, WellFormed(view), NEW wd \in 1..7, NEW from \in Minutes, NEW skip,
         NEW h \in Hits(view, wd, from, skip)
  PROVE  /\ h.distance \in Nat
         /\ \E m \in 0..(7 * DayMinutes) :
              m + from = h.distance /\ h.i \in DueIn(view, wd, from, skip, m)
         /\ h = [distance |-> h.distance, i |-> h.i]
<1>1a. PICK i \in DOMAIN view :
        \E s \in view[i].scheds : \E d \in NearestDay(view[i], s, wd, from, skip) :
           h = [distance |-> d * DayMinutes + s.at, i |-> i]
  BY DEF Hits
<1>1b. PICK s \in view[i].scheds : \E d \in NearestDay(view[i], s, wd, from, skip) :
        h = [distance |-> d * DayMinutes + s.at, i |-> i]
  BY <1>1a
<1>1. PICK d \in NearestDay(view[i], s, wd, from, skip) :
        h = [distance |-> d * DayMinutes + s.at, i |-> i]
  BY <1>1b
<1> DEFINE days == {e \in DaysAhead : Comes(view[i], s, e, wd, from, skip)}
<1>2. d \in days /\ \A e \in days : d <= e
  <2>1. days # {} /\ d = Min(days)
    BY DEF NearestDay
  <2>2. days \subseteq Nat
    BY DEF DaysAhead
  <2> HIDE DEF days
  <2> QED
    BY <2>1, <2>2, MinType
<1>3. d \in 0..7 /\ Comes(view[i], s, d, wd, from, skip) /\ s.at \in Minutes
  BY <1>2 DEF DaysAhead, WellFormed
<1> DEFINE t == s.at
           x == Ahead(d, t)
<1>4. h.distance = x /\ h.i = i
  BY <1>1 DEF Ahead
<1>5. /\ x \in Nat /\ 7 * DayMinutes \in Nat
      /\ x < from <=> d = 0 /\ t < from
      /\ x = from <=> d = 0 /\ t = from
      /\ x <= 7 * DayMinutes + from <=> d < 7 \/ t <= from
  BY <1>3, AheadType
<1>6. t \in Nat /\ from \in Nat
  BY <1>3, DayType
<1>7. ~(x < from)
  BY <1>3, <1>5, <1>6 DEF Comes
<1>8. d = 7 => t <= from
  <2> SUFFICES ASSUME d = 7 PROVE t <= from
    OBVIOUS
  <2>1. ~Comes(view[i], s, 0, wd, from, skip)
    <3>1. 0 \in DaysAhead /\ ~(7 <= 0)
      BY DEF DaysAhead
    <3> QED
      BY <1>2, <3>1
  <2>2. DaysContain(s.days, ((wd - 1 + 0) % 7) + 1)
    BY <1>3, WeekLater DEF Comes
  <2> QED
    BY <1>6, <2>1, <2>2 DEF Comes
<1>9. x <= 7 * DayMinutes + from
  BY <1>3, <1>5, <1>8
<1>10. PICK m \in Nat : m + from = x
  <2>1. x - from \in Nat /\ x - from + from = x
    BY <1>5, <1>6, <1>7
  <2> QED
    BY <2>1
<1>11. m \in 0..(7 * DayMinutes)
  BY <1>5, <1>6, <1>9, <1>10
<1>12. x % DayMinutes = t /\ x \div DayMinutes = d /\ from + m = x
  BY <1>3, <1>6, <1>10, DayAndTime DEF Ahead
<1>13. RingsIn(view[i], wd, from, m)
  BY <1>3, <1>12 DEF RingsIn, Comes
<1>14. ~(m = 0 /\ view[i].id \in skip)
  <2>1. m = 0 => x = from
    BY <1>6, <1>10
  <2> QED
    BY <1>3, <1>5, <2>1 DEF Comes
<1>15. i \in DueIn(view, wd, from, skip, m)
  BY <1>13, <1>14 DEF DueIn
<1> HIDE DEF x
<1> QED
  BY <1>1, <1>4, <1>5, <1>10, <1>11, <1>15

(* Of every routine that is due there is a hit, as early or earlier.       *)
LEMMA DueIsHit ==
  ASSUME NEW view, WellFormed(view), NEW wd \in 1..7, NEW from \in Minutes, NEW skip,
         NEW m \in 0..(7 * DayMinutes), NEW i \in DueIn(view, wd, from, skip, m)
  PROVE  \E h \in Hits(view, wd, from, skip) : h.i = i /\ h.distance <= from + m
<1> DEFINE y == from + m
           e == y \div DayMinutes
           t == y % DayMinutes
<1>1. i \in DOMAIN view /\ RingsIn(view[i], wd, from, m) /\ ~(m = 0 /\ view[i].id \in skip)
  BY DEF DueIn
<1>2. PICK s \in view[i].scheds :
        s.at = t /\ DaysContain(s.days, ((wd - 1 + e) % 7) + 1)
  BY <1>1 DEF RingsIn
<1>3. m \in Nat /\ from \in Nat /\ from < DayMinutes /\ DayMinutes \in Nat /\ 7 * DayMinutes \in Nat
  BY DayType
<1>4. y \in Nat /\ y <= 7 * DayMinutes + from
  BY <1>3
<1>5. e \in Nat /\ t \in Minutes /\ y = Ahead(e, t)
  BY <1>4, DayOf DEF Ahead
<1> HIDE DEF e, t
<1>6. e \in 0..7
  <2>1. SUFFICES ASSUME e >= 8 PROVE FALSE
    BY <1>5
  <2>2. PICK n \in Nat : n = 8
    OBVIOUS
  <2>3. n * DayMinutes <= e * DayMinutes /\ e * DayMinutes \in Nat
    BY <1>5, <2>1, <2>2, DayStart
  <2>4. n * DayMinutes = 7 * DayMinutes + DayMinutes
    BY <1>3, <2>2
  <2>5. y >= e * DayMinutes
    BY <1>4, <1>5, <2>3, DayType DEF Ahead
  <2> QED
    BY <1>3, <1>4, <2>3, <2>4, <2>5
<1>7. Comes(view[i], s, e, wd, from, skip)
  <2>1. /\ y < from <=> e = 0 /\ t < from
        /\ y = from <=> e = 0 /\ t = from
    BY <1>5, <1>6, AheadType
  <2>2. ~(y < from) /\ (y = from => m = 0)
    BY <1>3
  <2>3. t \in Nat
    BY <1>5, DayType
  <2>4. e = 0 => s.at >= from /\ ~(s.at = from /\ view[i].id \in skip)
    <3> HIDE DEF y
    <3> QED
      BY <1>1, <1>2, <1>3, <2>1, <2>2, <2>3
  <2> QED
    BY <1>2, <2>4 DEF Comes
<1> DEFINE days == {d \in DaysAhead : Comes(view[i], s, d, wd, from, skip)}
<1>8. e \in days /\ days \subseteq Nat
  BY <1>6, <1>7 DEF DaysAhead
<1>9. NearestDay(view[i], s, wd, from, skip) = {Min(days)}
  BY <1>8 DEF NearestDay
<1> HIDE DEF days
<1>10. Min(days) \in Nat /\ Min(days) <= e
  BY <1>8, MinType
<1> DEFINE d == Min(days)
           h == [distance |-> d * DayMinutes + s.at, i |-> i]
<1>11. h \in Hits(view, wd, from, skip)
  BY <1>1, <1>9 DEF Hits
<1>12. d * DayMinutes <= e * DayMinutes /\ d * DayMinutes \in Nat /\ e * DayMinutes \in Nat
  <2> HIDE DEF d
  <2> QED
    BY <1>5, <1>10, DayStart DEF d
<1>13. d * DayMinutes + s.at <= y
  <2>1. t \in Nat /\ y = e * DayMinutes + t
    BY <1>5, DayType DEF Ahead
  <2> HIDE DEF d, y
  <2> QED
    BY <1>2, <1>12, <2>1
<1> QED
  BY <1>11, <1>13

(* The search against the meaning of a schedule, for any cache.            *)
LEMMA SearchIsNearest ==
  ASSUME NEW view, WellFormed(view), NEW wd \in 1..7, NEW from \in Minutes, NEW skip
  PROVE  LET due == DueMinutes(view, wd, from, skip)
         IN NextSchedule(view, wd, from, skip) =
              IF due = {} THEN {}
              ELSE {[distance |-> from + Min(due), i |-> Min(DueIn(view, wd, from, skip, Min(due)))]}
<1> DEFINE hits == Hits(view, wd, from, skip)
           due  == DueMinutes(view, wd, from, skip)
           In(m) == DueIn(view, wd, from, skip, m)
<1>1. /\ \A h \in hits : /\ h.distance \in Nat
                         /\ \E m \in due : m + from = h.distance /\ h.i \in In(m)
                         /\ h = [distance |-> h.distance, i |-> h.i]
  <2> SUFFICES ASSUME NEW h \in hits
               PROVE  /\ h.distance \in Nat
                      /\ \E m \in due : m + from = h.distance /\ h.i \in In(m)
                      /\ h = [distance |-> h.distance, i |-> h.i]
    OBVIOUS
  <2>1. h.distance \in Nat /\ h = [distance |-> h.distance, i |-> h.i]
    BY HitIsDue
  <2>2. PICK m \in 0..(7 * DayMinutes) : m + from = h.distance /\ h.i \in In(m)
    BY HitIsDue
  <2>3. m \in due
    BY <2>2 DEF DueMinutes
  <2> QED
    BY <2>1, <2>2, <2>3
<1>2. \A m \in due : \A i \in In(m) : \E h \in hits : h.i = i /\ h.distance <= from + m
  BY DueIsHit DEF DueMinutes
<1>3. due \subseteq Nat /\ \A m \in due : In(m) # {}
  BY DayType DEF DueMinutes
<1>4. \A m \in due : In(m) \subseteq Nat
  BY DEF DueIn, WellFormed
<1>5. NextSchedule(view, wd, from, skip) =
        {h \in hits : \A g \in hits : h.distance < g.distance
                                      \/ (h.distance = g.distance /\ h.i <= g.i)}
  BY DEF NextSchedule
<1>6. from \in Nat
  BY DayType
<1> HIDE DEF hits, due, In
<1>7. CASE due = {}
  BY <1>1, <1>5, <1>7 DEF due
<1>8. CASE due # {}
  <2> DEFINE M == Min(due)
             I == Min(In(M))
             x == [distance |-> from + M, i |-> I]
  <2>1. M \in due /\ M \in Nat /\ \A m \in due : M <= m
    BY <1>3, <1>8, MinType
  <2> HIDE DEF M
  <2>2. I \in In(M) /\ I \in Nat /\ \A i \in In(M) : I <= i
    <3>1. In(M) \subseteq Nat /\ In(M) # {}
      BY <1>3, <1>4, <2>1
    <3> QED
      BY <3>1, MinType
  <2> HIDE DEF I
  <2>3. \A h \in hits : /\ h.distance \in Nat /\ h.i \in Nat /\ from + M <= h.distance
                        /\ h.distance = from + M => I <= h.i
    <3> SUFFICES ASSUME NEW h \in hits
                 PROVE  /\ h.distance \in Nat /\ h.i \in Nat /\ from + M <= h.distance
                        /\ h.distance = from + M => I <= h.i
      OBVIOUS
    <3>1. PICK m \in due : m + from = h.distance /\ h.i \in In(m)
      BY <1>1
    <3>2. M <= m /\ m \in Nat /\ h.i \in Nat /\ h.distance \in Nat
      BY <1>1, <1>3, <1>4, <2>1, <3>1
    <3>3. h.distance = from + M => m = M
      BY <1>6, <2>1, <3>1, <3>2
    <3> QED
      BY <1>6, <2>1, <2>2, <3>1, <3>2, <3>3
  <2>4. x \in hits
    <3>1. PICK h \in hits : h.i = I /\ h.distance <= from + M
      BY <1>2, <2>1, <2>2
    <3>2. h.distance = from + M
      BY <1>6, <2>1, <2>3, <3>1
    <3>3. h = [distance |-> h.distance, i |-> h.i]
      BY <1>1
    <3> QED
      BY <3>1, <3>2, <3>3
  <2>5. x.distance = from + M /\ x.i = I
    OBVIOUS
  <2>6. x \in NextSchedule(view, wd, from, skip)
    <3> HIDE DEF x
    <3>1. \A g \in hits : x.distance < g.distance \/ (x.distance = g.distance /\ x.i <= g.i)
      BY <1>6, <2>1, <2>3, <2>5
    <3> QED
      BY <1>5, <2>4, <3>1
  <2>7. ASSUME NEW h \in NextSchedule(view, wd, from, skip) PROVE h = x
    <3>1. h \in hits /\ (h.distance < x.distance \/ (h.distance = x.distance /\ h.i <= x.i))
      BY <1>5, <2>4, <2>7
    <3> HIDE DEF x
    <3>2. h.distance = from + M /\ h.i = I
      BY <1>6, <2>1, <2>2, <2>3, <2>5, <3>1
    <3> QED
      BY <1>1, <3>1, <3>2 DEF x
  <2>8. NextSchedule(view, wd, from, skip) = {x}
    BY <2>6, <2>7
  <2> QED
    BY <1>8, <2>8 DEF x, I, M, In, due
<1> QED
  BY <1>7, <1>8 DEF due, In

LEMMA ViewWellFormed ==
  ASSUME TypeOK, NEW size
  PROVE  WellFormed(View(size))
<1>1. CASE routines \in DOMAIN sent /\ SizeOf(routines) <= size
  <2> DEFINE d == sent[routines]
  <2>1. d \in Docs /\ View(size) = d.routines
    BY <1>1, SentType DEF View
  <2> HIDE DEF d
  <2>2. /\ DOMAIN d.routines = 1..Len(d.routines)
        /\ \A i \in DOMAIN d.routines : IsRoutine(d.routines[i])
    BY <2>1, CacheAssumption DEF CacheAssumption
  <2> QED
    BY <2>1, <2>2 DEF WellFormed, IsRoutine
<1>2. CASE ~(routines \in DOMAIN sent /\ SizeOf(routines) <= size)
  <2>1. View(size) = <<>>
    BY <1>2 DEF View
  <2> QED
    BY <2>1 DEF WellFormed
<1> QED
  BY <1>1, <1>2

\* Whatever was pushed, the weekday, the minute and the routines rung in it,
\* rr_store_next_schedule returns the first minute of the coming week at which
\* a routine rings, and the first in the cache of those that ring in it.
THEOREM SearchFindsNearest == Spec => []NextIsNearest
<1>1. TypeOK => NextIsNearest
  <2> SUFFICES ASSUME TypeOK, NEW wd \in 1..7, NEW from \in Minutes, NEW skip \in SUBSET Ids
               PROVE  LET view == View(sched.size)
                          due  == DueMinutes(view, wd, from, skip)
                      IN NextSchedule(view, wd, from, skip) =
                           IF due = {} THEN {}
                           ELSE {[distance |-> from + Min(due),
                                  i |-> Min(DueIn(view, wd, from, skip, Min(due)))]}
    BY DEF NextIsNearest, DueMinutes
  <2> DEFINE view == View(sched.size)
  <2>1. WellFormed(view)
    BY ViewWellFormed
  <2> HIDE DEF view
  <2>2. LET due == DueMinutes(view, wd, from, skip)
        IN NextSchedule(view, wd, from, skip) =
             IF due = {} THEN {}
             ELSE {[distance |-> from + Min(due),
                    i |-> Min(DueIn(view, wd, from, skip, Min(due)))]}
    BY <2>1, SearchIsNearest
  <2> QED
    BY <2>2 DEF view
<1> QED
  BY <1>1, CacheTypeCorrect, PTL
=============================================================================
