# TLA+ models of the Routine Rush watch

The watch is an ESP32-C6, one core, with a touch screen (`src/main`, `src/components/rr_*`). A phone
pairs with it over BLE, sets its clock, pushes a child's routines and collects the record of every
routine the child completed. Between phone visits the watch is on its own: it rings its own alarms,
runs the routines and keeps the records until the phone has stored them.

The models are about what is hard to test there: FreeRTOS tasks of different priorities that preempt
each other, files that are written one after the other on a device whose battery runs out, a link
that drops in the middle of a page, and one screen that five components paint.

## The system

| Component | State it keeps | Operations | Talks to |
|---|---|---|---|
| Completion queue (`rr_store.c`, second half) | `runs.log`, `cursor.json` | append, ack, compaction, wipe, count | appended by the routine runner (LVGL task), drained by `rr_ble` (NimBLE host task) |
| Framed stream (`rr_store.c`, `rr_ble.c`) | `s_pull_offset` | framed size, read a page | the phone's reads |
| Queue drain (`rr_ble.c`) | offset, authorisation | `queue_seek`, QUEUE_PULL, RUN_ACK, QUEUE_STATUS | phone, queue |
| Routine cache (`rr_store.c`, first half) | `child.json`, `routines.json` | put, find, next schedule | written by ROUTINE_PUSH, read by scheduler, runner, face |
| Scheduler (`rr_sched.c`) | last handled minute and ids (RAM and NVS), occurrence in flight, answer | find next, serve, ring, give up, rearm | runner (offer, answer hook), clock, cache, audio |
| Routine runner (`rr_routine.c`) | READY offer, running routine | request, offer, answer, withdraw, step, complete | display, scheduler, queue |
| Display (`rr_ui.c`) | the LVGL screen, `s_last_screen`, the screen kept under READY | paint, dismiss, restore | everyone who paints |
| Idle and wake (`rr_idle.c`) | awake, gate state, promotion due | tick, sleep, wake, build the face | display, wiring |
| Reset button (`rr_reset_button.c`) | how long BOOT is held | arm, count down, release, reset | display, identity, store |
| Wiring (`main.c`) | none of its own | face gate, suspension, hooks, boot | all |
| Link (`rr_ble.c`) | connection, authorisation, advertising, back-off | GAP events, nonce authentication | identity, NimBLE's bonds |
| Identity (`rr_identity.c`) | paired flag, nonce, address generation, failure count | set, load, erase | link, wiring |
| Audio (`rr_audio.c`) | request queue, stop flag, clip in hand, volume policy (RAM and NVS) | play, stop, set policy | asked by runner, scheduler and steps, on their tasks |
| Steps (`rr_steps.c`) | streak, count of the day, target and its announcement, four NVS keys | sample, refresh, set target | clock, audio |
| Clock, IMU, power, logs, sync header, tools, assets | see PROJECT.json | | |

Tasks, by priority: the NimBLE host (21) runs every GATT and GAP callback; LVGL (4) runs touches,
timers and whatever was posted with `lv_async_call`; the audio player and the reset button (4) share
LVGL's turns; `rr_sched` (3) is the scheduler's own task; the step sampler (2) holds a lock of its
own. A task of higher priority can start in the middle of a lower one's handler, never the other way
round.

What makes these components hard, and what makes them correct:

- *queue*: two tasks, no lock, two files, power loss between any two writes. A record the watch
  accepted must reach the phone, and only its own acknowledgement may retire it.
- *stream and drain*: pages cut frames anywhere, including inside a length prefix; reads are
  repeated by the stack, acknowledgements move the base of the offsets, links drop. The phone must
  decode whole records only, and finish.
- *scheduler*: several routines may share a minute; cache, clock and power change under a sleeping
  task. Nothing due may be passed over, nothing may ring twice.
- *glass*: an offer must be visible while it waits, the screen must belong to what its buttons do, a
  running routine must never be blanked.
- *cache*: its two files are written one after the other and read without a lock, by tasks that keep
  indices and sizes. The files must be of one push, the scheduler must sleep on what is stored, a
  run's record must be of one routine.
- *audio*: three tasks share one queue and one flag. A stop must end what it was meant for and
  nothing else, and the alarm must sound.
- *steps*: a day's count, its target and the day itself are separate keys. The target is announced
  once a day, and no step counts for two days.
- *link*: a stale bond must heal without the child, an authorisation must not outlive its
  connection, the watch must never stay silent.

`PROJECT.json` lists the hazards one by one at the lines where they bite.

## The modules

| Module | Models | Checked by | Proofs |
|---|---|---|---|
| `RunQueue` | the queue's two files, both tasks, power loss | `queue`, `queue_power_loss` | `RunQueueProofs` |
| `AtLeastOnceQueue` | what the queue promises, without files | refined by `RunQueue` in `queue`, and by `QueueDrain` | in `RunQueueProofs`, `DrainProofs` |
| `FramedStream` | one page, one loop turn at a time | `framed_page` | `DrainProofs` |
| `QueueDrain` | queue, page and acknowledgement with the phone | `drain` | `DrainProofs` |
| `RoutineCache` | the cache's two files, their readers, the weekly search | `cache` | `RoutineCacheProofs` |
| `Scheduler` | the scheduler's task, the offer it raises, phone, child, time, power | `sched` | `SchedulerProofs` |
| `Glass` | every painter of the screen | `glass`, `glass_push` | `GlassProofs` |
| `Audio` | request queue, player, stop flag, volume policy | `audio` | `AudioProofs` |
| `Steps` | step gates, the day's count and target, NVS | `steps` | `StepsProofs` |
| `Link` | connections, keys, authorisation, address and advertising | `link`, `link_backoff` | `LinkProofs` |

`QueueDrain` composes the queue and the stream at the level each was checked to provide: the FIFO
with re-delivery of `RunQueue`, and the page that `FramedStream` shows to be the exact slice. The
names of `FramedStream` differ from those of `QueueDrain` (`ReadInit`, `ReadSpec`, `WireFrame`), so
that `DrainProofs` can extend both. `Scheduler`, `Glass` and `RoutineCache` share the READY offer:
the first asks when it is raised, the second what is painted while it waits, the third what is read
from the cache for it.

A definition under a comment "Mutant:" is not part of a model. It is a plausible bug in the
definition that follows it; with it in place, a property named in PROJECT.json fails in the run
named there.

### RunQueue

`log` is `runs.log` as a sequence of lines, each with the byte offset where it starts; `cursor` is
the number in `cursor.json`. The bytes matter: the code finds the head by seeking to the cursor, so
a cursor that survives its log points into the middle of a later line. Between `AppendOpen` and
`AppendSynced`, `writing` is the run whose append has the log open on the LVGL task; the host task's
ack, compaction and wipe may happen there. An open LittleFS file cannot be unlinked, and any
operation on a file may fail of itself (`Faults` says which faults a configuration has). The code
looks at few of the results: not at that of an `unlink`, so a compaction may rewind the cursor of a
log that is still there, and its runs are delivered again (`kept` tells a log the flash refused to
remove from one an append had open); not at that of the rewind either (`rr_store.c:480`, and 989-997
in the reset), so the old offset may stay behind an absent log (`stale`), and the runs appended next
are behind it (`hidden`). `host` says between which two writes of a handler power may fail (`acked`,
`compacting`, `wiping`).

`rr_queue_append` is `AppendOpen` and one of `AppendSynced`, `AppendShortWrite`, `AppendNotFlushed`;
`rr_queue_ack` is `AckHead`, `AckNotStored` or `AckIgnored`, then one of `CompactUnlink` and
`CompactRewind` or `CompactRewindFails`, or `CompactNotDrained`; `rr_store_factory_reset` is
`WipeLog` and `WipeCursor` or `WipeCursorFails`.

- **queue** (three runs of 2, 3 and 5 bytes; power loss between any two writes; every flush, unlink
  and rewind may fail): a flushed run is lost only if it was appended behind an offset left over
  from an unlinked log; unless there is such an offset, the depth reported in QUEUE_STATUS is the
  number of readable runs and every step of the files is a step of `AtLeastOnceQueue`; a pullable
  run is retired only by its own acknowledgement or a wipe; and retired runs come back only when the
  log could not be unlinked. `unsynced` holds the runs whose flush failed although the append
  reported success: the first property leaves them out, since the code does not notice either.
- **queue_power_loss** (a violation): power loss between `unlink(RUNS_PATH)` and the write of cursor
  0 leaves a cursor beyond an absent log; the next run queued is behind the cursor and is never
  relayed, although `rr_store.h` calls the queue "NOT disposable" and says it "survives power loss".
  A rewind that fails leaves the same files without any power loss, and `rr_store_factory_reset` has
  both windows too.

Three lines of different lengths are enough for a stale cursor to fall on a line's start, inside a
line and past the end.

### FramedStream

Every log of up to three lines of up to four bytes, one of which may exceed `QUEUE_RECORD_MAX`;
every offset including one past the end; MTUs from one that leaves no payload to one above the
value's ceiling; buffers that hold nothing, the ATT opcode that NimBLE puts there first, or almost
everything. A turn of the loop of `rr_queue_read_framed` is a step. `Wire` is what the contract says
the stream is, `FramedSize` what `rr_queue_framed_size` adds up (`EndOf`, a recursive function). One
read ends, so the run does not check for deadlock.

- **framed_page**: the page is the slice of the stream at the offset it echoes, MORE says whether
  bytes remain behind it, and the value fits an attribute.

### QueueDrain

The phone is not in this repository. Its actions are the contract written down in
`tools/watchProtocol.ts` and are marked external: it keeps the read position `want`, collects bytes
in `tail`, decodes frames into `inbox`, relays them and then acknowledges them. A read may be served
any number of times, a seek may be forgotten or go past the end, the link may drop at any step, also
between the execution of an acknowledgement and its answer, and routines end in the middle,
unannounced: `main.c` tells the face and the advertiser, not a connected phone.

- **drain** (three runs with frames of 2, 3 and 4 bytes, pages of 2 and 3): a sought page is the
  page served, no spliced record is ever decoded, and every run is retired in the end.

Frames and pages of these sizes put page boundaries at a frame's end, inside its body and inside its
length prefix. One drop, one stray seek and one re-delivery are enough: each returns the phone to
the head of the queue and the watch to offset 0, from where the next one finds no new state.

Fairness: the phone's steps are weakly fair. The phone reconnects and a session lasts seconds (the
comment at the encryption event of `rr_ble.c` says so), so a run that ends during a session waits
for the next. `Serve` is weakly fair, as NimBLE answers a request or the link drops. Drops and stray
seeks are not fair.

### Scheduler

A pass of `sched_task` is several steps: search, mark, save the minute, save the ids, ring, request,
post the offer, note that it is offered (or withdraw it and give up). In between the NimBLE host may
set the clock, push a cache or start a routine, LVGL may paint the offer and take a tap, and power
may fail. An answer that comes between the posting and the note is dropped (`Concerns`), as in the
code. A routine is its id and the set of moments its weekly schedule denotes; weekdays are not
modelled. Durations are scaled down and keep their order: the grace window is longer than a repeat
interval, the look-back longer than the grace window.

- **sched** (two routines that share two minutes; any two of a push that swaps them, a clock step in
  either direction, a start by the phone, a power cut at any step of a pass, a torn save, a save of
  which either or both sets fail, a cache that cannot be read; taps and runs at any time): the skip
  list hides only what was handled, the task never sleeps through a due occurrence, no occurrence
  rings as a new fire twice or outside its window, none is passed over, and each that comes due is
  handled.

Conditions in the properties and what they stand for. `SkipHidesOnlyHandled` and
`NothingIsPassedOver` ask for whole saves (`SavesAreWhole`): a save that failed or was cut between
its two NVS keys pairs a minute with another minute's ids, and these then hide occurrences that were
never handled. `FiredAtMostOnce` excludes a save that failed, which the code only logs, and an
occurrence its minute's list was too full to remember. `NeverOversleeps` is about a task that sleeps
longer than a repeat interval, the code's own pause between two passes: nothing the search would
find is then due and unmarked. It names what makes the task sleep for the resync cap all the same:
the 64 turns of a search used up by as many occurrences of the last look-back (`HandledLately`), or
by a last minute with more routines than its list remembers (`MinuteOverfull`), whose forgotten one
is found again in every turn; and a search that could not read the cache (`blind`), which the code
takes for an empty schedule. The run reaches all three: without any one of these exceptions TLC
finds the property violated. A list of two is overfull with two routines when it has filled with
repetitions of one id. `EveryDueOccurrenceIsHandled` leaves out (`Reachable`) occurrences that a
changed cache, a set clock, the look-back or an overfull minute takes away.

Bounds: two interventions in all (`MaxAll`), one of a kind, in every order and at every step; time
up to 8 scaled seconds, which covers both minutes with their grace windows and a repeat; there the
clock stops while waits still end, so that nothing is cut off by the bound. The list has room for
two ids, as many as there are routines: it is full in every minute. Fairness: weak fairness of the
task's own steps, of LVGL running what was posted, and of time. The child and the phone owe nothing.

### RoutineCache

A file is known by the push that wrote it. `rx` is the reassembly buffer of ROUTINE_PUSH: each write
in it with its push and its era, the connections that had come or gone before it. A second push may
be begun before the first is finished, on the same connection or by another that is authorised: the
code does not empty the buffer for it, and what is put together from both is `Overlaid`, which the
parser lets through or not. `host` says where `rr_store_put_routines` and its caller are:
`child.json`, the check for an array, `routines.json`, the log that reads it back, the rearm. Every
operation on a file may fail, of the readers' too; LittleFS shows a file's new contents when they
are synced, so opening a file that exists changes nothing until then and a failed write keeps the
old contents until they are unlinked. Readers are in two steps, `stat` and `open`, since a push may
come in between; a reader that finds the file larger than its `stat` said reads it cut short and
takes it for none. A read that fails for want of memory or at the open leaves the scheduler asleep
as if nothing were stored (`Unread`), and ends a run with the steps it has. `run` is a run from the
request to its record, which reads the cache anew for every step and holds `MaxSteps` of them,
`RR_MAX_STEPS` in the code.

- **cache** (two pushes of any of four documents in two chunks, overlapping or not: one document
  moves a routine, one grows the file, one is refused, and one routine has more steps than a record
  holds; one failure, one stray connection, one power cut): the two files are of one push, a
  scheduler that sleeps was armed on what is stored, its search agrees with a minute-by-minute
  definition for every weekday, minute and skip list, and a record names one routine and its steps
  in order.

Conditions: `OnePush` excludes what a refused, failed or interrupted put leaves (`mixed`):
`child.json` is replaced before the payload is checked; and it says nothing of `Overlaid` files,
which only the parser keeps out; that a phone finishes a push before the next, and that no second
phone is authorised and pushes meanwhile, is up to the phones. `ArmedOnTheCache` excludes a cache
deleted after a short write, which the code tells nobody (`unsaid`), and a search whose read failed,
which is not repeated before the resync. `RecordIsOneRoutine` excludes a push that moves the routine
in hand or is stored between a `stat` and an `open`, and a read that fails in the middle of the run
(`spoilt`); beyond `RR_MAX_STEPS` it promises the first ones. A day has two minutes; the week has
its seven days. The documents spell Sunday 0 and 7, put two routines into one minute and schedule
one for one day a week only, so that it must be found seven days ahead. One push of three steps
against a cap of two meets every case of the cap.

### Glass

`glass` is what is on the screen, `last` is what the code believes (`s_last_screen`); the difference
is what goes wrong. LVGL's own handlers hold the display lock from end to end (`lvgl_port_task`), so
each is one step. The button, `rr_sched` and the NimBLE host take the lock screen by screen: a wake
asks the gate (`rr_idle.c:127`), reads clock, child, battery and steps, paints (181) and then notes
`s_last_screen`, and in between LVGL and the others run. `painter` says for each of these tasks
which screen it is about to paint (`paint`), or has painted and not yet noted (`note`), and why.
`rr_routine_cancel_ready` is in three steps, as in the code (`CancelReady`, `CancelClears`,
`CancelDismisses`). The countdown is painted and not noted, and a push stores its files and paints
"Paired" in one step, the note excepted. Timeouts may expire at any tick.

- **glass** (two routines, a push that may move or remove one, two offers, one hold of BOOT, two
  tasks painting at one time; the watch boots paired, and a reset takes it to the QR code): what
  covers a pending offer is noticed, a READY screen is that of the pending offer or known to be
  dead, a running routine is never blanked, a tap starts what it shows, and a covered offer comes
  back to a lit panel.
- **glass_push** (a violation): ROUTINE_PUSH paints "Paired" over a running step and nothing paints
  the step again; the routine stays active without its buttons until a reboot.

The exceptions in the properties are behaviours of the code, each found by TLC when its exception is
taken away. `CoverIsNoticed`: the countdown; a note still to come; a note that comes after another
task has painted over its screen (`late`). `ReadyShowsItsOffer`: a withdrawal between clearing the
offer and painting over it (`Withdrawing`); a READY left behind by START on a routine that a push
removed (`rr_routine.c:392-398` calls `rr_ui_show_last_status`, which does nothing for READY), by an
answer while a task waits to paint the offer, or by a dismissal that a late note misleads (`dead`).
`StartsWhatIsShown`: the offer was withdrawn under the finger, where START goes by a zeroed index,
or a push has moved the routine. `OfferIsShown`: the countdown of an aborted hold over READY, which
nothing takes down, and a late note of READY.

With two tasks at work every pair of paintings meets, and the proofs hold for any number. Two offers
let one replace another; more repeat these cases. Deadlock is not checked in the runs of
`Scheduler`, `Glass`, `RoutineCache` and `Audio`: with the budgets spent there may be nothing left
to do.

Fairness: LVGL's tick without a timeout, its posted calls, and a task that has begun to paint goes
on. Nobody has to touch the screen.

### Audio

`requests` is the FreeRTOS queue, `stop` the flag `s_stop`, `player` how far the player is with the
clip `inHand`: the loop of `play_blocking` tests the flag and then writes a chunk, which plays to
its end whatever is called meanwhile. A clip may fail at its opening or at any chunk, by a short
file or by the codec (`failed`). Requests are numbered, and `silenced` is the number of the last one
made before the last stop: this is what lets a property say what a stop was meant for. LVGL and the
player share a priority, so their steps interleave; `rr_sched` moves only while LVGL is idle and the
player is blocked.

- **audio** (a queue of two, clips of two chunks, three requests, a policy change, a reboot, a day
  of three minutes): no chunk is begun after a stop of what was requested before it, a clip ends
  before its last chunk only for a stop that came later or because it failed, an alarm that was
  queued is heard, and the cap of the quiet hours holds over midnight, on every clock.

The code has two windows in which a stop misses the clip in hand: the player took the request and
has not yet cleared the flag (`rr_audio.c:302`), or a clip ends by the flag before `stop` has
emptied the queue (545-553). `NothingSilencedSounds` names them (`escaped`) and shows that there is
no third. `AlarmIsHeard` is about an alarm in the queue; that the queue may be full when the alarm
comes is outside it, and so is a clip that cannot be played. The policy is read at once, where the
code reads it field by field around two reads of the clock (75-99): a policy pushed in between may
be taken in halves for one clip.

Fairness: weak fairness of the player, which is a task of its own and never waits for anything but
the queue and the codec.

### Steps

Peaks are the input: a stray one, one too soon, a stride. `streak` and `unconfirmed` are the rhythm
gate, `daily`, `day` and `dayKnown` the count, `targetDay` the day whose target was announced. The
lock makes a handler one step, except where it writes NVS: there power may fail or a call may be
refused between any two keys (`save`, `saveCount`, `saveMark`).

- **steps** (two days, up to five steps with an entry gate of two and a threshold of three, targets
  0, 2 and 4, of which 4 is the default; clock forward and back, restarts, failing NVS calls; four
  of these in all): a target is announced once a day, today's count has no step of yesterday, a
  restart loses less than the threshold, and a confirmed walk is credited from its first step.

Conditions: failing flash and a clock set back, which the code does not handle; a torn day and count
(`torn`); steps counted while the day was unknown (`carried`). Five steps cross each target, the
threshold and the gate; two days have one midnight; the four interventions may all be restarts or
all different.

### Link

The GAP callbacks of `rr_ble.c` with what `rr_identity.c` keeps for them. NimBLE and the centrals
are external: what the model takes from the comments of `handle_encryption_failure` and of CONNECT
is that a central with a key for the watch's address uses it and never pairs, that one without pairs
(Just Works, no question asked), and that a link whose security failed goes down. `keys` says of
each central whether its key has a counterpart on the watch (`good`), has none any more (`stale`) or
does not exist; the watch cannot see it. A change of the address makes every key worthless at the
next boot (`moved`), unless it goes back to an address the watch had before (`former`), for which a
central may hold any key.

`nvs` holds the paired flag, the paired peer, the generation of the address and the count of
failures. `host` says between which two writes of a callback power may fail: after the peer and
before the paired flag (`anchored`), before and after the new generation (`rotate`, `bumped`),
between the identity and the bonds (`wiped`). `nvs_erase_all` removes the keys of the identity one
by one and its result is not looked at, so a factory reset leaves any subset of them (`ErasedBut`);
`torn` remembers that it left a part. Every attempt to advertise may be refused by NimBLE
(`refusing`): `advertise` logs it and returns, and nothing tries again (`refused`). Queue activity
reaches the advertiser on the LVGL task, in two steps since `adv_refresh` stops before it starts,
and the back-off ends on the timer task; both interleave with the callbacks. NimBLE takes several
connections, and the code keeps one handle and one authorisation for all.

- **link** (phone and two strangers, a bond store of two, two handles, one change of address,
  threshold two): an authorisation belongs to an open connection whose own peer presented the nonce;
  with no connection the watch advertises or is about to, unless NimBLE refused its last attempt; a
  paired watch knows its peer; strangers never push the paired bond out; the address changes only
  after enough failures in a row; and a watch that lost its bond heals by itself.
- **link_backoff** (a violation): the count that drives the advertising back-off is incremented only
  where it is above zero already or where a connection attempt failed. The loop of failing
  encryptions the back-off was written for never starts it.

Two things that go wrong outside the watch's code (`MaxMishaps`: a lost bond, a forgotten key, a
pairing that breaks off, a failed connection, a refused attempt to advertise, a power cut, a failed
write, a reset) and two visits of strangers (`MaxVisits`, of which an erase that fails takes one)
are enough for: a return to an earlier address, by a rotation and an erase that leaves the device id
alone; the eviction from a full store with the phone's bond the oldest; a lost bond followed by a
power cut, which arms the rotation at the first failure; a rotation and a second loss at the last
address, where the code must refuse. Threshold 2 is the smallest at which one failure is not enough.

Conditions: the run excludes power loss between the new generation and the clearing of the count
(`NotBumped`). There the new address starts with a full count and the next single failure changes it
again, against the comment at `rr_ble.c:1916-1918`. `PairedKnowsItsPeer` excludes a failed write of
the peer, whose result `nonce_auth` ignores, and a reset that erased a part of the keys;
`RotationIsProven` excludes the latter too, since the old count may be what is left. `NeverSilent`
excludes a refused attempt: such a watch stays silent until it reboots or the queue's activity asks
for another interval. `StaleBondHeals` gives up at the last address, as the code does, and on a
silent watch. A good key at an earlier address takes three mishaps and is left to the proofs.

Fairness: the watch's tasks run and some connection always ends in the end; for healing, the phone
is near, keeps connecting, and security procedures end in one way or another.

## What is proved

Each theorem holds for every value of the module's constants that its `ASSUME` allows, so for any
number of runs, routines, connections, pushes, faults and so on. Where a theorem has an assumption
of its own it is named. Each rests on an inductive invariant, since the properties themselves look
at too little of the state to be kept by every step.

`RunQueueProofs`, for every set of runs and every assignment of line lengths:

- Under every fault: `TypeCorrect` (`TypeOK`), `NothingElseLost` (`LostOnlyBehindStaleCursor`),
  `StatusTruthful` (`CountIsPending`), `RetiredByItsAck` (`OnlyItsAckRetiresARun`),
  `ReturnsOnlyIfTheLogStays` (`RetiredComesBackOnlyIfTheLogStays`) and `FilesImplementQueue`
  (`ImplementsFIFO`, the refinement of `AtLeastOnceQueue` while the cursor is not left over from an
  unlinked log).

`LostOnlyBehindStaleCursor` is not inductive: whether a line is still readable depends on where the
cursor stands. `IInv` adds that lines lie end to end from 0 (`LinesEndToEnd`), that a cursor that is
not stale stands at a line's start or at the end, or before an absent log on its way to be rewound
(`CursorPlaced`), that every line behind the cursor is retired or, behind a stale one, `hidden`
(`PassedIsRetired`, `PassedIsLost`), and that every flushed run is in the log or accounted for
(`ReportedIsLogged`). An append keeps it because the new line starts at the old size; an ack because
the end of one line is the start of the next; an unlink because it happens only when everything is
behind the cursor or is counted as wiped; a rewind because the log is then empty, or untouched and
starts at 0. For the refinement the abstract queue is the lines at or behind the cursor, which
`IInv` makes a suffix of the log: an ack cuts its head, an append adds to its end, an unlink of a
drained log changes nothing, and a rewind of a log that could not be unlinked is the abstract
re-delivery.

`DrainProofs`, for any number of runs, all lengths of lines and frames, all MTUs, page sizes and
bounds:

- of a read: `ReadTypeCorrect` (`ReadTypeOK`), `PageSlice` (`PageIsSlice`), `MoreTruth`
  (`MoreIsTruthful`), `ValueFit` (`ValueFits`);
- of a drain: `DrainTypeCorrect` (`TypeOK`), `SoughtServed` (`SoughtPageIsServed`),
  `NothingIsSpliced` (`NothingSpliced`), and `DrainImplementsQueue` (`ImplementsFIFO`): the queue
  the phone drains keeps the promise of `AtLeastOnceQueue` that the watch's files were shown to
  keep. An acknowledgement that rewinds a log that could not be unlinked is one step of `QueueDrain`
  and two of `RunQueue`; the abstract queue has it as `RetireAndRedeliver`. The invariant it needs,
  `Replayable`, is that what the log holds ahead of the cursor was retired. No run has this property
  in its cfg.

What the recursions give is proved from their recursion equations: a claim that fails for some
length fails for a smallest one, where the equation refutes it (`SmallestExists`, the
well-foundedness of the naturals). So `RunningJoin` shows that `FlattenSeq` ends each part where the
lengths before it add up, `Ends` the same of `EndOf`, and `WireIs` that a byte of the wire is the
byte of its frame. `PageInv` then says of the loop: what is written is the stretch of the wire
between the offset and the end of the last frame passed, cut at the page's capacity, and a read that
has ended has filled the page or passed every measured line.

`DrainInv` is about a stream that changes while the phone holds bytes of it. `PhoneInv` says that
the phone's tail is a slice of the present stream that begins where a frame does and ends at the
position the phone wants next; `ReadInv` that a page on its way is a slice of the present stream at
the offset it names, and that a seek holds until its read is served. New runs lengthen the stream at
its end and keep every slice (`SliceStays`, `SentGrows`), a page that begins where the tail ends
continues it (`PageJoins`), a whole frame at the start of such a slice is a run (`FrameDecodes`),
and what moves the base, an acknowledgement or a lost link, empties the tail.

`RoutineCacheProofs`, for all documents, chunk counts and bounds:

- `CacheTypeCorrect` (`TypeOK`), `FilesAreOfOnePush` (`OnePush`), `SleepsOnTheCache`
  (`ArmedOnTheCache`), `RecordsAreWhole` (`RecordIsOneRoutine`), `SearchFindsNearest`
  (`NextIsNearest`).

`OneInv` says that whatever is in the buffer is of the present era, and follows a push through the
put: what is in hand, what is in `child.json` and what is in `routines.json` differ only in the ways
each point of the put explains. `ArmInv` follows the rearm: from the change of the file until the
scheduler has read it, the notification is set, or still to be set by the host, or being taken.
`RecInv` says that, until a push spoils the run, the index the run carries is the place of the
routine that was asked for in the stored cache, the steps taken so far are its first ones, and the
file is no larger than the size a reader has noted. `SearchFindsNearest` compares two orders: the
search's day and minute, and the minutes that pass from the start. For hits inside the eight days
they agree (`HitIsDue`, `DueIsHit`), the wrap of the week and today's earlier minutes included, and
the nearest of one is the nearest of the other.

`SchedulerProofs`, for all caches, windows, list lengths and bounds, with clock steps in either
direction, pushes, power cuts at every step, failing or torn saves and caches that cannot be read:

- `SchedulerTypeCorrect` (`TypeOK`), `HiddenIsHandled` (`SkipHidesOnlyHandled`), `NonePassedOver`
  (`NothingIsPassedOver`), `RingsOnlyInWindow` (`RingsInItsWindow`), `FiresOnce`
  (`FiredAtMostOnce`), `NeverSleepsThrough` (`NeverOversleeps`).

They rest on `EarliestIsFirst`, that the search returns a candidate and no later one (by the
well-foundedness of the naturals), and on `MinuteBegun`, that the minute of a time contains every
whole minute up to it. `IInv` says that marks are whole minutes, that the search never looks behind
the last one, and that what RAM and NVS hide was handled, except while the two keys of a save are
between writes, where the minute in NVS is already that of RAM. For `FiresOnce`, `OnceInv` adds that
what rang is marked in RAM and in NVS and remembered by its id unless the list was full; a search
that starts from the look-back instead of the last mark may find it again, but only when it is older
than the grace window, because the look-back is not shorter than that (`Grace <= Lookback`; 25 h and
30 min in the code). `RingsOnlyInWindow` needs that, until the clock is set, a pass runs at the time
it started.

`NeverSleepsThrough` rests on `AwakeInv`: a pass whose clock or cache changes under it has been
notified (else it still runs at the clock it read); every turn of its search but the first has
marked one more occurrence of the last look-back, unless a minute is overfull (`Counted`), so that
one that runs out of turns has marked as many; and what a sleeping task could find is marked or not
due before the sleep ends (`Resting`). A mark that is in the list is what makes two turns mark two
occurrences.

`GlassProofs`, for all routines, caches and bounds:

- `GlassTypeCorrect` (`TypeOK`), `CoversAreNoticed` (`CoverIsNoticed`), `ReadyIsTheOffers`
  (`ReadyShowsItsOffer`), `RunningStaysLit` (`NeverBlankedMidStep`), `StartsTheTapped`
  (`StartsWhatIsShown`), and `PromotedOnce`: "Paired" is promoted to the face only by the pairing.

The painters call each other; each is first reduced to one of three outcomes (nothing, READY, a
status screen), and what the screen keeps to (`Ok`) is shown to survive these. A task between
reading and noting is covered by two facts: a screen it paints has a note to come, and a withdrawal
stays under way until it rests, where it marks the READY it leaves. `IInv` adds that a running
routine has no offer beside it (`Quiet`), that an offer is of a watch that was set up, where a
dismissal can always paint the face (`Known`), and what a task at each of its places is about
(`Working`).

`AudioProofs`, for all queue depths, clip lengths and bounds:

- `SoundTypeCorrect` (`TypeOK`), `StopReachesAllBefore` (`NothingSilencedSounds`),
  `NoStopOutlivesItsSounds` (`OnlyALaterStopCuts`), `QuietHoursHold` (`QuietHoursCapTheVolume`).

The invariant relates the flag to the requests: what is still queued while a stop is under way was
requested before it, and a flag that is set was set for the clip in hand or a later one. For the
quiet hours the comparison of minutes in the code, with its wrap, is shown to be membership in the
minutes counted forward from the start.

`StepsProofs`, for all thresholds, targets, days and bounds, with an entry gate of at least two
(four in the code; with one the walk would be confirmed before the first peak is counted):

- `StepsTypeCorrect` (`TypeOK`), `WalksCredited` (`WalkCreditedInFull`), `OneAnnouncement`
  (`AnnouncedOnceADay`), `TodaysSteps` (`CountsOnlyToday`), `LittleIsLost` (`RestartLosesLittle`).

Their invariants are about a walk (credits follow the streak), about the announcement (an announced
day is `targetDay` in RAM or on its way there, and NVS is behind RAM only inside a save), about days
(the oldest step of the count and of the saved count is no older than their day) and about what is
saved (the saved count is less than a threshold behind).

`LinkProofs`, for any number of centrals and connections (at least one), any thresholds and bounds
(`LinkAssumption`), with power loss at every point:

- `AuthorisationEarned` (`AuthorisationIsEarned`), `StaysAudible` (`NeverSilent`), `PeerKnown`
  (`PairedKnowsItsPeer`), `LinkTypeCorrect` (`TypeOK`).
- `RotatesOnlyWhenProven` (`RotationIsProven`), assuming `NoTornRotation`: power does not fail
  between the new generation and the clearing of the count. Like `PeerKnown` it excepts a reset that
  erased only a part of the identity.
- `StrangersNeverEvict` (`PairedBondSurvives`), assuming a bond store of at least two.

For `NeverSilent`: whoever stops advertising holds an open connection, arms the timer or owes the
refresh, and advertising anew fails only while every handle is taken or because NimBLE refuses,
which the radio remembers. `Rotation` says that the stored count is never ahead of the failures that
happened, but after a torn reset, and that a rotation about to be written has its threshold behind
it. `Pairing` says that an authorisation, an anchored `nonce_auth` and an open connection each have
a peer. `Bonding` says that the bond store never holds a peer twice and `StrangersNeverEvict` that
the eviction picks another than the paired one whenever there is another.

## What is only model-checked

- All liveness (`AlarmIsHeard`, `EveryDueOccurrenceIsHandled`, `OfferIsShown`, `EveryRunIsRetired`,
  `StaleBondHeals`): fairness is beyond the prover.
- That `ActiveIsOnScreen`, `BrokenLinkBacksOff` and, with power loss inside a compaction,
  `NoReportedRunLost` fail: a counterexample is TLC's.

Every safety invariant and action property of a passing run is stated by a theorem. No module with a
theorem has a `RECURSIVE` operator; recursion is written as recursive functions.

## What is not modelled

Most of the source text is data: 26 of 39 thousand lines are three generated fonts. Of the rest:

- JSON parsing and the views of the cache the face reads (`get_child`, `next_routine`); the factory
  reset of the cache's files (that of queue, identity and bonds is modelled), and so a push stored
  during it.
- `rr_rtc`: registers, calendar and time-zone offset. The clock is a number that runs and is set.
- The reassembly of RR_CONTROL; that of ROUTINE_PUSH is in `RoutineCache`. The phone's factory reset
  over BLE; in `Glass` it would have the effect of the button's.
- Widgets: `s_arc` and `s_mmss` outlive the screen they belong to when "Paired" or the countdown
  replaces a step, which a model of screens cannot see.
- In `Scheduler`: a cache that cannot be read by `rr_routine_request_start`, `deferred_offer` or
  START (the search's reads are modelled), and an offer LVGL has no memory to queue.
- In `Link`: the lengths of intervals and back-off, among them a shift by the unbounded count of
  failures (`rr_ble.c:1283`), undefined from the 26th on; the wrap of the 8-bit count of failures;
  failed writes other than of the peer and the generation; the store's wipe before the identity's
  (it is in `RunQueue`); a bond store that is cleared in part; the cached `s_paired` of an erase
  that failed, which lasts until the restart 400 ms later; the BOOT button's reset, which runs on
  its own task.
- The filter that finds a peak in the accelerometer's samples, the IMU's driver, the codec and I2S,
  WAV headers.
- XP, streaks, battery, power management, power log and diagnostics: no state that another component
  depends on. `rr_sync` is a header without an implementation.

## Where code and comments differ

Three differences are shown by runs (`findings` in PROJECT.json). Others, met while modelling:

Queue and drain
- `rr_store.c:499`: `fflush` and `fsync` are not checked, so a run that was not synced is reported
  as queued.
- `rr_ble.c:816` says reads advance the offset; 504-526 make them idempotent.
- `main.c:150` says the queue's hook tells the phone of a run that ended during a connection; the
  hook does not notify.
- `rr_ble.c:595`: the QUEUE_STATUS notification sends battery 0, the read the level.

Cache
- `rr_store.c:107`: a refused ROUTINE_PUSH has already replaced `child.json`, although 87-88 says
  "Validate BEFORE persisting".
- A short write of `routines.json` unlinks the old cache and returns an error, after which nobody
  tells the scheduler; a sync that fails unnoticed keeps the old cache and returns `ESP_OK`.
- `rr_routine.c:170-172`: "this session always walks every step". A push in the middle of a run
  changes the steps under it, a read that fails ends it, and of a routine of more than 32 steps the
  record has the first 32 (152).
- `rr_sched.c:401-403`: a cache that could not be read is taken for one with nothing scheduled.
- `rr_ble.c:1031-1059`: a push begun before another is finished is appended to it; the JSON parser
  stands in the way, by accident.

Scheduler
- `rr_sched.c:351` and `256`: a routine that starts between the check and the request makes the
  request BUSY, and the fire is dropped, although the comment at 258 says BUSY was handled.
- `rr_sched.c:269`: an answer given before the task has noted its offer is dropped, and the alarm
  repeats over the routine the child started; the comment at `rr_routine.c:374-375` says that both
  answers close the scheduler's bookkeeping.
- `rr_sched.c:422`: an occurrence is marked handled before it rings, so a reboot loses it; the
  comment at 39-42 counts on the mark being late.
- `rr_sched.c:178`: the minute and its ids are two NVS keys and may be torn. A new minute with the
  ids of the previous one hides its other routines, and the next mark passes them over.
- `rr_sched.c:49`: beyond four routines in a minute the fifth is not remembered and is found again.
  The comment at 419 consumes an occurrence because "leaving it would make the search return the
  same occurrence forever"; of the fifth this is what happens: within its grace window it rings
  again, and after it each search spends its turns on it and finds no later routine until the
  look-back has passed it. The list may also fill with repetitions of one id: a search from the
  look-back that starts inside the last marked minute finds the occurrence again and appends it
  again.
- `rr_sched.c:327`: the alarm repeats for an occurrence whose offer another replaced.
- `rr_routine.c:450-459`: `rr_routine_cancel_ready` compares the id of the offer and then clears it,
  and LVGL may replace the offer in between.

Glass
- `rr_ui.c:383-392`: after an aborted hold of BOOT over a READY offer the countdown stays: nothing
  paints READY again, since `s_last_screen` still says READY and the countdown has deleted its
  widgets. `rr_routine.h:99-105` and `rr_ui.c:328-330` say that it comes back.
- `rr_routine.c:392-398`: START on an offer whose routine a push removed should "put the face back
  rather than leaving a dead READY screen up"; for READY `rr_ui_show_last_status` does nothing, and
  the dead READY stays.
- `rr_ui.c:303` and its like: `s_last_screen` is assigned after the unlock. A late note of READY
  makes the watch believe an offer visible that another task has painted over.
- `rr_routine.c:456-458`: between the clearing of the offer and its dismissal START runs the routine
  at index 0.
- `rr_idle.c:272-274` describes the opposite of what `deferred_offer` does.

Audio
- The start tone of a scheduled routine is cut: the answer's hook wakes `rr_sched`,
  `rr_routine_start` plays ROUTINE_START, and `rr_audio_stop` at `rr_sched.c:298` ends it.
  `rr_routine.c:273-279` counts it among the sounds that mark events.
- `rr_audio.c:302-303` and 545-553: the two windows in which a stop is lost.
- `rr_audio.c:281-286`: a file that ends early or a codec that fails ends the clip; nobody is told.
- An alarm that finds the queue full between its reset and its send is dropped.

Steps
- `rr_steps.c:134`: a roll-over torn between the day and its count resumes yesterday's count as
  today's.
- `rr_steps.c:374-379`: the re-arming of the announcement by a new target is not stored, so a reboot
  forgets it.
- Steps taken between midnight and the next check of the minute are credited to yesterday.
- A clock set back across midnight resets the count and may announce a target again.
- The announcement is marked before its tone: power loss in between leaves the day without it.

Link and identity
- `rr_ble.c:1622`: `adv_refresh` is called only when a run is queued, so nothing ends the eager
  interval when its thirty seconds are over; it lasts until a connection, a queue event after the
  window or a reboot. The comment at 1551-1553 says it is time-boxed.
- `rr_ble.c:205-215` wipes the store before the identity and argues for the opposite: power loss in
  between leaves an empty but paired watch. A push stored during the wipe or the 400 ms before the
  restart creates the files again and sets the paired flag on the new identity.
- `rr_ble.c:1517-1595`: an attempt to advertise that NimBLE refuses is logged and not repeated, and
  `rr_ble.c:224` ignores an identity that could not be erased: a watch left paired without its peer
  shows no QR and accepts nobody.
- `rr_identity.h:132` says a value survives a factory reset that erases the whole namespace.

## Plan

Done: the queue with its refinement, stream and drain, link, scheduler, glass, cache, audio, steps,
and the proofs above. Left, in this order:

1. The factory reset as one protocol over queue, cache, identity and bonds, with a push and power
   loss in between.
2. `rr_rtc`: calendar, offset and the loss of the oscillator, under `Scheduler` and `Steps`.
3. The reassembly of RR_CONTROL beside that of ROUTINE_PUSH.
4. Proofs about what these add; that the lines `RunQueue` keeps are the lines `FramedStream`
   measures.
