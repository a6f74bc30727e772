---------------------------- MODULE RoutineCache ----------------------------
(***************************************************************************)
(* The routine cache: how a ROUTINE_PUSH is put together from its chunks   *)
(* (components/rr_ble/src/rr_ble.c), split into child.json and             *)
(* routines.json (rr_store_put_routines in components/rr_store), and read  *)
(* by the two tasks it is preempted over: the scheduler, which computes    *)
(* its sleep from it, and the routine runner of components/rr_routine,     *)
(* which reads it anew for every step of a run.                            *)
(*                                                                         *)
(* There is no lock.  A reader takes the size of the file with stat and    *)
(* then opens it and reads so many bytes; a writer truncates, writes and   *)
(* closes.  LittleFS (external) shows the new contents of a file when they *)
(* are synced, all at once, and keeps the old ones if a write failed.      *)
(* Every operation on a file may fail, those of the readers included.      *)
(*                                                                         *)
(* A file is known by the number of the push that wrote it.                *)
(***************************************************************************)
EXTENDS Naturals, Sequences, SequencesExt, FiniteSetsExt

CONSTANTS
  Docs,        \* the documents a phone pushes
  Ids,         \* assignment ids, in any of them
  NoFile,      \* a path without a file
  Spliced,     \* contents made of what two connections wrote, one after the other
  Overlaid,    \* contents made of pushes that overlap on connections that stay
  Unread,      \* what a read that failed gives
  NoSize,      \* stat has not been called: above every size
  Chunks,      \* writes to a push
  MaxSteps,    \* RR_MAX_STEPS
  DayMinutes,  \* minutes of a day, 1440 in the code
  MaxPushes,   \* bound: pushes
  MaxFailures, \* bound: file operations that fail
  MaxStrays,   \* bound: connections that come and go during a push
  MaxCuts      \* bound: power cuts

Minutes == 0 .. DayMinutes - 1

\* A document has a child record or none, an array of routines or none, and
\* a size.  Days are as the app writes them: 1 is Monday, 0 and 7 are Sunday.
IsRoutine(r) ==
  /\ r.id \in Ids /\ r.steps \in Seq(STRING) \ {<<>>}
  /\ \A s \in r.scheds : s.days \subseteq 0..7 /\ s.at \in Minutes

ASSUME CacheAssumption ==
  /\ \A d \in Docs : /\ {d.child, d.array} \subseteq BOOLEAN
                     /\ d.size \in 1..(NoSize - 1)
                     /\ Len(d.routines) \in Nat /\ DOMAIN d.routines = 1..Len(d.routines)
                     /\ \A i \in DOMAIN d.routines : IsRoutine(d.routines[i])
  /\ {Chunks, MaxSteps, DayMinutes, NoSize} \subseteq Nat \ {0}
  /\ {MaxPushes, MaxFailures, MaxStrays, MaxCuts} \subseteq Nat
  /\ {NoFile, Spliced, Overlaid, Unread} \cap Nat = {}
  /\ NoFile \notin {Spliced, Overlaid} /\ Spliced # Overlaid

VARIABLES
  \* the phone, and what the bounds still allow
  sent,      \* the documents pushed so far
  next,      \* for each, the chunk that is sent next, or 0
  budget,
  \* the NimBLE host task
  rx,        \* the reassembly buffer: <<push, chunk, era>> for each write in it,
             \* where a connection that comes or goes ends an era
  host,      \* where put_routines and its caller are, and the push in hand
  \* flash
  child,     \* child.json
  routines,  \* routines.json; 0 is the empty file that opening a new one makes
  \* the scheduler's task
  sched,     \* where its search is, the size stat gave, what it sleeps on
  told,      \* a rearm has been notified and not taken
  \* the routine on its way from a request to its record
  run,       \* it stays "queued" until the next request
  \* history
  mixed,     \* a put failed half way since the last whole one with a child
  unsaid,    \* the cache was deleted and the scheduler not told
  spoilt     \* the run in hand was moved, read across a push, or ended by a failed read

phone   == <<sent, next, budget>>
flash   == <<child, routines>>
waiting == <<sched, told, unsaid>>
vars == <<phone, rx, host, flash, waiting, run, mixed, spoilt>>

NoPut == [at |-> "idle", push |-> 0, doc |-> 0]

NoRun == [at |-> "idle", asked |-> "", idx |-> 0, size |-> NoSize, id |-> "",
          count |-> 0, taken |-> <<>>]

-----------------------------------------------------------------------------
(***************************************************************************)
(* Reading.  What a reader gets is the parsed file, or nothing: there is   *)
(* none, it is empty, or it has grown since its size was taken and is cut  *)
(* short.                                                                  *)
(***************************************************************************)
\* What a text made of several pushes says is left open: it is as large as
\* any, and names no routine.
Patched == {Spliced, Overlaid}

SizeOf(f) == IF f \in DOMAIN sent THEN sent[f].size ELSE IF f \in Patched THEN NoSize - 1 ELSE 0

Readable(size) == routines \in DOMAIN sent \cup Patched /\ SizeOf(routines) <= size

View(size) ==
  IF routines \in DOMAIN sent /\ SizeOf(routines) <= size THEN sent[routines].routines ELSE <<>>

HasStep(view, i, n) == i \in DOMAIN view /\ n \in DOMAIN view[i].steps

Place(view, id) == SelectInSeq(view, LAMBDA r : r.id = id)

(***************************************************************************)
(* rr_store_next_schedule, for an ISO weekday, a minute and the ids to     *)
(* skip at that minute: the nearest day of each schedule, the nearest of   *)
(* these, and among equals the routine that is first in the cache.         *)
(***************************************************************************)
DaysContain(days, wd) == wd \in {IF d = 0 THEN 7 ELSE d : d \in days}

\* Mutant: the same weekday of next week is not looked at.
DaysAheadOneWeek == 0..6

DaysAhead == 0..7

Comes(r, s, d, wd, from, skip) ==
  /\ DaysContain(s.days, ((wd - 1 + d) % 7) + 1)
  /\ d = 0 => s.at >= from /\ ~(s.at = from /\ r.id \in skip)

NearestDay(r, s, wd, from, skip) ==
  LET days == {d \in DaysAhead : Comes(r, s, d, wd, from, skip)}
  IN IF days = {} THEN {} ELSE {Min(days)}

Hits(view, wd, from, skip) ==
  UNION {UNION {{[distance |-> d * DayMinutes + s.at, i |-> i]
                   : d \in NearestDay(view[i], s, wd, from, skip)}
                   : s \in view[i].scheds}
                   : i \in DOMAIN view}

NextSchedule(view, wd, from, skip) ==
  {h \in Hits(view, wd, from, skip) :
     \A g \in Hits(view, wd, from, skip) :
        h.distance < g.distance \/ (h.distance = g.distance /\ h.i <= g.i)}

-----------------------------------------------------------------------------
Init ==
  /\ sent = <<>>
  /\ next = <<>>
  /\ budget = [failures |-> MaxFailures, strays |-> MaxStrays, cuts |-> MaxCuts]
  /\ rx = <<>>
  /\ host = NoPut
  /\ child = NoFile
  /\ routines = NoFile
  /\ sched = [at |-> "search", size |-> NoSize, armed |-> NoFile]
  /\ told = FALSE
  /\ run = NoRun
  /\ mixed = FALSE
  /\ unsaid = FALSE
  /\ spoilt = FALSE

Spend(what) == budget[what] > 0 /\ budget' = [budget EXCEPT ![what] = @ - 1]

HostGoes(from, to) == host.at = from /\ host' = [host EXCEPT !.at = to]

\* The cache is replaced under a run: that is of no consequence to it unless
\* its routine moves, or the file grows between the stat and the open.
Spoils(f) ==
  LET new == IF f \in DOMAIN sent THEN sent[f].routines ELSE <<>>
      old == View(NoSize)
      at  == Place(old, run.asked)
  IN \/ at # Place(new, run.asked)
     \/ at # 0 /\ new[at].steps # old[at].steps
     \/ run.size # NoSize /\ SizeOf(f) > run.size

Replace(f) ==
  /\ routines' = f
  /\ spoilt' = (run.at \notin {"idle", "queued"} /\ (spoilt \/ Spoils(f)))

-----------------------------------------------------------------------------
(***************************************************************************)
(* A phone writes a push chunk by chunk.  The buffer is the host task's,   *)
(* and is emptied whenever a connection is made or ends; not when a push   *)
(* is begun, be it a second one on the same connection or that of another  *)
(* connection that is authorised as well.                                  *)
(***************************************************************************)
Push(d) ==
  /\ host.at = "idle" /\ Len(sent) < MaxPushes
  /\ sent' = Append(sent, d)
  /\ next' = Append(next, 1)
  /\ UNCHANGED <<budget, rx, host, flash, waiting, run, mixed, spoilt>>

Era == budget.strays

Whole(buffer, push) == buffer = [i \in 1..Chunks |-> <<push, i, Era>>]

PutTogether(buffer, push) ==
  IF Whole(buffer, push) THEN push
  ELSE IF \A i \in DOMAIN buffer : buffer[i][3] = Era THEN Overlaid
  ELSE Spliced

\* The length prefix is in the first chunk: without it the buffer starts with
\* text, which read as a length is beyond the cap, and is dropped.  Of a
\* buffer that is not one push the parser may make something or nothing.
Chunk(push, parses) ==
  LET got == Append(rx, <<push, next[push], Era>>)
      contents == PutTogether(got, push)
  IN /\ host.at = "idle" /\ next[push] > 0
     /\ next' = [next EXCEPT ![push] = IF @ = Chunks THEN 0 ELSE @ + 1]
     /\ IF got[1][2] # 1
          THEN rx' = <<>> /\ UNCHANGED host
        ELSE IF Len(got) < Chunks
          THEN rx' = got /\ UNCHANGED host
        ELSE /\ rx' = <<>>
             /\ IF parses \/ contents = push
                  THEN host' = [at |-> IF sent[push].child THEN "child" ELSE "check",
                                push |-> contents, doc |-> push]
                  ELSE UNCHANGED host
     /\ UNCHANGED <<sent, budget, flash, waiting, run, mixed, spoilt>>

\* No memory to grow the buffer or to parse it.  The phone gives up.
ChunkRefused(push) ==
  /\ host.at = "idle" /\ next[push] > 0
  /\ Spend("failures")
  /\ rx' = <<>>
  /\ next' = [next EXCEPT ![push] = 0]
  /\ UNCHANGED <<sent, host, flash, waiting, run, mixed, spoilt>>

\* Mutant: the buffer survives the connection that filled it.
ResetKept == rx

Reset == <<>>

\* The link of a push drops, or another central comes or goes during it.
Disconnect(push) ==
  /\ host.at = "idle" /\ next[push] > 0
  /\ Spend("strays")
  /\ rx' = Reset
  /\ next' \in {next, [next EXCEPT ![push] = 0]}
  /\ UNCHANGED <<sent, host, flash, waiting, run, mixed, spoilt>>

(***************************************************************************)
(* rr_store_put_routines: child.json, the check for an array, then         *)
(* routines.json.  Opening a file that is not there makes an empty one.    *)
(***************************************************************************)
Opened(f) == IF f = NoFile THEN 0 ELSE f

OpenChild ==
  /\ HostGoes("child", "writeChild")
  /\ child' = Opened(child)
  /\ UNCHANGED <<phone, rx, routines, waiting, run, mixed, spoilt>>

\* Out of memory, or the open failed: the routines are cached all the same.
NoChild ==
  /\ HostGoes("child", "check")
  /\ Spend("failures")
  /\ mixed' = TRUE
  /\ UNCHANGED <<sent, next, rx, flash, waiting, run, spoilt>>

WriteChild ==
  /\ HostGoes("writeChild", "check")
  /\ child' = host.push
  /\ UNCHANGED <<phone, rx, routines, waiting, run, mixed, spoilt>>

\* A short write keeps the old contents until they are unlinked.
ChildShort ==
  /\ HostGoes("writeChild", "dropChild")
  /\ Spend("failures")
  /\ UNCHANGED <<sent, next, rx, flash, waiting, run, mixed, spoilt>>

DropChild ==
  /\ HostGoes("dropChild", "check")
  /\ child' = NoFile
  /\ mixed' = TRUE
  /\ UNCHANGED <<phone, rx, routines, waiting, run, spoilt>>

\* The sync failed, which nobody checks: the old contents stay.
ChildUnsynced ==
  /\ HostGoes("writeChild", "check")
  /\ Spend("failures")
  /\ mixed' = TRUE
  /\ UNCHANGED <<sent, next, rx, flash, waiting, run, spoilt>>

Document == sent[host.doc]

\* No routines array: refused, with the child of the refused push in place.
Refuse ==
  /\ HostGoes("check", "idle")
  /\ ~Document.array
  /\ mixed' = (mixed \/ Document.child)
  /\ UNCHANGED <<phone, rx, flash, waiting, run, spoilt>>

OpenRoutines ==
  /\ HostGoes("check", "write")
  /\ Document.array
  /\ Replace(Opened(routines))
  /\ UNCHANGED <<phone, rx, child, waiting, run, mixed>>

\* Out of memory, or the open failed: the old cache stays.
NoRoutines ==
  /\ HostGoes("check", "idle")
  /\ Document.array
  /\ Spend("failures")
  /\ mixed' = TRUE
  /\ UNCHANGED <<sent, next, rx, flash, waiting, run, spoilt>>

WriteRoutines ==
  /\ HostGoes("write", "log")
  /\ Replace(host.push)
  /\ mixed' = (mixed /\ ~(Document.child /\ child = host.push))
  /\ UNCHANGED <<phone, rx, child, waiting, run>>

RoutinesShort ==
  /\ HostGoes("write", "drop")
  /\ Spend("failures")
  /\ UNCHANGED <<sent, next, rx, flash, waiting, run, mixed, spoilt>>

\* The put fails here, so its caller neither logs nor tells the scheduler.
DropRoutines ==
  /\ HostGoes("drop", "idle")
  /\ Replace(NoFile)
  /\ mixed' = TRUE
  /\ unsaid' = TRUE
  /\ UNCHANGED <<phone, rx, child, sched, told, run>>

RoutinesUnsynced ==
  /\ HostGoes("write", "log")
  /\ Spend("failures")
  /\ mixed' = TRUE
  /\ UNCHANGED <<sent, next, rx, flash, waiting, run, spoilt>>

\* rr_store_log_routines reads the cache back and deletes what it cannot parse,
\* be it for want of memory.
LogRoutines ==
  /\ HostGoes("log", "tell")
  /\ IF routines = 0 THEN Replace(NoFile) ELSE UNCHANGED <<routines, spoilt>>
  /\ UNCHANGED <<phone, rx, child, waiting, run, mixed>>

LogFails ==
  /\ HostGoes("log", "tell")
  /\ Spend("failures")
  /\ Replace(NoFile) \/ UNCHANGED <<routines, spoilt>>
  /\ UNCHANGED <<sent, next, rx, child, waiting, run, mixed>>

\* Mutant: the notification is lost on a scheduler that is not asleep.
RearmASleeper ==
  /\ HostGoes("tell", "idle")
  /\ told' = (sched.at = "sleep")
  /\ UNCHANGED <<phone, rx, flash, sched, unsaid, run, mixed, spoilt>>

Rearm ==
  /\ HostGoes("tell", "idle")
  /\ told' = TRUE
  /\ UNCHANGED <<phone, rx, flash, sched, unsaid, run, mixed, spoilt>>

Put ==
  \/ OpenChild \/ NoChild \/ WriteChild \/ ChildShort \/ DropChild \/ ChildUnsynced
  \/ Refuse \/ OpenRoutines \/ NoRoutines \/ WriteRoutines \/ RoutinesShort
  \/ DropRoutines \/ RoutinesUnsynced \/ LogRoutines \/ LogFails \/ Rearm

-----------------------------------------------------------------------------
(***************************************************************************)
(* The scheduler's task: a notification or the end of its sleep starts a   *)
(* search, and the search ends in the next sleep.                          *)
(***************************************************************************)
SchedWakes ==
  /\ sched.at = "sleep"
  /\ sched' = [sched EXCEPT !.at = "search"]
  /\ told' = FALSE
  /\ UNCHANGED <<phone, rx, host, flash, unsaid, run, mixed, spoilt>>

SchedStats ==
  /\ sched.at = "search"
  /\ sched' = [sched EXCEPT !.at = "open", !.size = SizeOf(routines)]
  /\ UNCHANGED <<phone, rx, host, flash, told, unsaid, run, mixed, spoilt>>

SchedReads ==
  /\ sched.at = "open"
  /\ sched' = [at |-> "sleep", size |-> NoSize,
               armed |-> IF Readable(sched.size) THEN routines ELSE NoFile]
  /\ unsaid' = FALSE
  /\ UNCHANGED <<phone, rx, host, flash, told, run, mixed, spoilt>>

\* Out of memory, or the file cannot be opened: the scheduler sleeps as if
\* there were no cache.
SchedReadFails ==
  /\ sched.at \in {"search", "open"}
  /\ Spend("failures")
  /\ sched' = [at |-> "sleep", size |-> NoSize, armed |-> Unread]
  /\ unsaid' = FALSE
  /\ UNCHANGED <<sent, next, rx, host, flash, told, run, mixed, spoilt>>

(***************************************************************************)
(* A run: rr_routine_request_start finds the routine by its id, and from   *)
(* then on it is known by its index.  The offer, START and every step read *)
(* the cache again.  That a second request is refused or replaces the      *)
(* offer is in Glass and Scheduler.                                        *)
(***************************************************************************)
Ask(id) ==
  /\ run.at \in {"idle", "queued"}
  /\ run' = [NoRun EXCEPT !.at = "find", !.asked = id]
  /\ spoilt' = FALSE
  /\ UNCHANGED <<phone, rx, host, flash, waiting, mixed>>

RunStats ==
  /\ run.at \in {"find", "offer", "start", "show"} /\ run.size = NoSize
  /\ run' = [run EXCEPT !.size = SizeOf(routines)]
  /\ UNCHANGED <<phone, rx, host, flash, waiting, mixed, spoilt>>

Reading(at) == run.at = at /\ run.size # NoSize

Read == View(run.size)

FindRoutine ==
  /\ Reading("find")
  /\ run' = IF Place(Read, run.asked) = 0 THEN NoRun
            ELSE [run EXCEPT !.at = "offer", !.size = NoSize, !.idx = Place(Read, run.asked)]
  /\ UNCHANGED <<phone, rx, host, flash, waiting, mixed, spoilt>>

DeferredOffer ==
  /\ Reading("offer")
  /\ run' = IF HasStep(Read, run.idx, 1) THEN [run EXCEPT !.at = "ready", !.size = NoSize]
            ELSE NoRun
  /\ UNCHANGED <<phone, rx, host, flash, waiting, mixed, spoilt>>

AnswerReady(started) ==
  /\ run.at = "ready"
  /\ run' = IF started THEN [run EXCEPT !.at = "start"] ELSE NoRun
  /\ UNCHANGED <<phone, rx, host, flash, waiting, mixed, spoilt>>

\* rr_routine_start keeps the number of steps of what it has read.
Start ==
  /\ Reading("start")
  /\ run' = IF HasStep(Read, run.idx, 1)
              THEN [run EXCEPT !.at = "show", !.size = NoSize,
                               !.count = Len(Read[run.idx].steps)]
            ELSE NoRun
  /\ UNCHANGED <<phone, rx, host, flash, waiting, mixed, spoilt>>

Step == Len(run.taken) + 1

\* There is room for the first RR_MAX_STEPS steps.
Kept(steps) == IF Len(steps) <= MaxSteps THEN steps ELSE SubSeq(steps, 1, MaxSteps)

\* finish_routine queues the record; a step it has no outcome for is "missed".
Finish == run' = [run EXCEPT !.at = "queued", !.size = NoSize, !.taken = Kept(@)]

ShowCurrentStep ==
  /\ Reading("show")
  /\ IF HasStep(Read, run.idx, Step)
       THEN run' = [run EXCEPT !.at = "step", !.size = NoSize,
                               !.taken = Append(@, Read[run.idx].steps[Step]),
                               !.id = IF @ = "" THEN Read[run.idx].id ELSE @]
       ELSE Finish
  /\ UNCHANGED <<phone, rx, host, flash, waiting, mixed, spoilt>>

\* A run that has begun ends with the steps it has; nothing is said of others.
RunReadFails ==
  /\ run.at \in {"find", "offer", "start", "show"}
  /\ Spend("failures")
  /\ IF run.at = "show" THEN Finish ELSE run' = NoRun
  /\ spoilt' = (run.at = "show")
  /\ UNCHANGED <<sent, next, rx, host, flash, waiting, mixed>>

\* Mutant: the last step is taken for the end.
WalkedShort == Len(run.taken) >= run.count - 1

Walked == Len(run.taken) >= run.count

\* Done or Skip.
Advance ==
  /\ run.at = "step"
  /\ IF Walked THEN Finish
     ELSE run' = [run EXCEPT !.at = "show"]
  /\ UNCHANGED <<phone, rx, host, flash, waiting, mixed, spoilt>>

-----------------------------------------------------------------------------
\* Power fails, at any step of anything.  Only the files are left.
PowerCut ==
  /\ Spend("cuts")
  /\ next' = [push \in DOMAIN next |-> 0]
  /\ rx' = <<>>
  /\ host' = NoPut
  /\ sched' = [at |-> "search", size |-> NoSize, armed |-> NoFile]
  /\ told' = FALSE
  /\ run' = NoRun
  /\ mixed' = (mixed \/ host.at \notin {"idle", "child", "log", "tell"})
  /\ unsaid' = FALSE
  /\ spoilt' = FALSE
  /\ UNCHANGED <<sent, flash>>

Next ==
  \/ \E d \in Docs : Push(d)
  \/ \E push \in DOMAIN sent :
       \/ \E parses \in BOOLEAN : Chunk(push, parses)
       \/ ChunkRefused(push)
       \/ Disconnect(push)
  \/ Put
  \/ SchedWakes
  \/ SchedStats
  \/ SchedReads
  \/ SchedReadFails
  \/ \E id \in Ids : Ask(id)
  \/ RunStats
  \/ FindRoutine
  \/ DeferredOffer
  \/ \E started \in BOOLEAN : AnswerReady(started)
  \/ Start
  \/ ShowCurrentStep
  \/ RunReadFails
  \/ Advance
  \/ PowerCut

Spec == Init /\ [][Next]_vars

-----------------------------------------------------------------------------
Places == {"idle", "child", "writeChild", "dropChild", "check", "write", "drop", "log", "tell"}

\* Contents of a path, states of host and scheduler, once n pushes were begun.
Files(n)  == {NoFile} \cup Patched \cup 0..n
Hosts(n)  == [at : Places, push : Patched \cup 0..n, doc : 0..n]
Scheds(n) == [at : {"sleep", "search", "open"}, size : 0..NoSize, armed : {Unread} \cup Files(n)]

Runs ==
  [at : {"idle", "find", "offer", "ready", "start", "show", "step", "queued"},
   asked : Ids \cup {""}, idx : Nat, size : 0..NoSize, id : Ids \cup {""},
   count : Nat, taken : Seq(STRING)]

Budgets == [failures : 0..MaxFailures, strays : 0..MaxStrays, cuts : 0..MaxCuts]

\* The type invariant; a run takes no more steps than it counted when it began.
TypeOK ==
  /\ sent \in Seq(Docs)
  /\ next \in Seq(0..Chunks) /\ Len(next) = Len(sent)
  /\ budget \in Budgets
  /\ rx \in Seq(Nat \X Nat \X Nat) /\ Len(rx) < Chunks
  /\ host \in Hosts(Len(sent))
  /\ child \in Files(Len(sent)) /\ routines \in Files(Len(sent))
  /\ sched \in Scheds(Len(sent))
  /\ run \in Runs /\ Len(run.taken) <= run.count
  /\ told \in BOOLEAN /\ mixed \in BOOLEAN /\ unsaid \in BOOLEAN /\ spoilt \in BOOLEAN

\* The two files of the cache come from one push, and from all of its chunks:
\* never from the chunks of two connections, whatever connections came and went
\* while they were written, and never the child of one push with the routines
\* of another, unless a put was refused, failed or lost power half way through.
\* Pushes that overlap while nothing comes or goes are kept apart by the parser
\* alone: what it lets through is Overlaid.  (put_routines, the reassembly in
\* routine_push_access_cb.)
OnePush ==
  /\ Spliced \notin {child, routines}
  /\ host.at = "idle" /\ ~mixed /\ routines \in DOMAIN sent =>
       (sent[routines].child => child = routines)

\* Once a push has been handled, the scheduler sleeps on the cache that is on
\* flash, although it may have been searching the old one, or have read half
\* of the new one, while the push was stored.  The exceptions are the code's: a
\* short write deletes the cache and tells nobody, and a read that failed is
\* not tried again before the resync.  (rr_sched_rearm in
\* routine_push_access_cb.)
ArmedOnTheCache ==
  sched.at = "sleep" /\ ~told /\ host.at = "idle" /\ ~unsaid =>
    sched.armed \in {Unread, IF routines = 0 THEN NoFile ELSE routines}

\* The minute-by-minute meaning of a schedule, without days ahead: routine r
\* rings m minutes after the origin.
RingsIn(r, wd, from, m) ==
  \E s \in r.scheds :
    /\ s.at = (from + m) % DayMinutes
    /\ DaysContain(s.days, ((wd - 1 + (from + m) \div DayMinutes) % 7) + 1)

DueIn(view, wd, from, skip, m) ==
  {i \in DOMAIN view : RingsIn(view[i], wd, from, m) /\ ~(m = 0 /\ view[i].id \in skip)}

\* Whatever the cache, the weekday, the minute and the routines that were rung
\* in it, the search returns the first minute from then on at which a routine
\* rings, on this day, over the end of the week or on the same day of the next
\* one, and of several the first in the cache; nothing only if nothing is
\* scheduled.  (rr_store_next_schedule, days_contains.)
NextIsNearest ==
  sched.at = "open" /\ host.at = "idle" /\ run.at = "idle" =>
    \A wd \in 1..7, from \in Minutes, skip \in SUBSET Ids :
      LET view == View(sched.size)
          due  == {m \in 0..(7 * DayMinutes) : DueIn(view, wd, from, skip, m) # {}}
      IN NextSchedule(view, wd, from, skip) =
           IF due = {} THEN {}
           ELSE {[distance |-> from + Min(due), i |-> Min(DueIn(view, wd, from, skip, Min(due)))]}

\* A run that is queued names the routine that was asked for and the steps of
\* it in order, all of them up to RR_MAX_STEPS, over all the times the cache is
\* read and replaced in between; unless a push moved that routine or changed
\* its steps, or was stored between the stat and the open of a reader and is
\* larger than what it replaced, or a read failed and ended the run.
\* (rr_routine_request_start to queue_run_record; rr_store_get_step.)
RecordIsOneRoutine ==
  [][run.at # "queued" /\ run'.at = "queued" =>
       \/ spoilt'
       \/ LET view == View(NoSize)
              at   == Place(view, run.asked)
          IN at # 0 /\ run'.id = run.asked /\ run'.taken = Kept(view[at].steps)]_vars
=============================================================================
