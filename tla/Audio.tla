-------------------------------- MODULE Audio --------------------------------
(***************************************************************************)
(* The sounds of components/rr_audio/src/rr_audio.c: a queue of requests,  *)
(* a player task that works it off one clip at a time, a stop flag, and    *)
(* the volume policy with its quiet hours.                                 *)
(*                                                                         *)
(* Three tasks meet here on one core.  LVGL (priority 4) plays the effects *)
(* of a routine and stops the alarm on NOT NOW; rr_sched (priority 3)      *)
(* rings the alarm and stops it; the player (priority 4) shares its turns  *)
(* with LVGL.  rr_sched gets a step only while LVGL is idle and the player *)
(* is blocked: on an empty queue or in the codec.  The step target's tone  *)
(* is one more effect.                                                     *)
(*                                                                         *)
(* Requests are numbered in the order in which they are made, so that a    *)
(* property can tell what was requested before a stop from what came       *)
(* after it.                                                               *)
(***************************************************************************)
EXTENDS Naturals, Sequences

CONSTANTS
  Depth,       \* REQUEST_DEPTH
  Chunks,      \* chunks in a clip
  DayMinutes,  \* minutes in a day, scaled down
  Volumes,     \* volume percentages a parent may choose
  Windows,     \* quiet hours a parent may choose: <<from, to>>, or Disabled
  Disabled,    \* RR_AUDIO_QUIET_DISABLED
  Default,     \* the policy of a watch no parent has set
  MaxRequests, \* bound on the requests made
  MaxPolicies, \* bound on the policies pushed
  MaxReboots   \* bound on the reboots

Minutes == 0..(DayMinutes - 1)

ASSUME AudioAssumption ==
  /\ {Depth, Chunks, DayMinutes} \subseteq Nat \ {0}
  /\ {MaxRequests, MaxPolicies, MaxReboots} \subseteq Nat
  /\ Volumes \subseteq Nat
  /\ Windows \subseteq (Minutes \X Minutes) \cup {Disabled}
  /\ Disabled \notin Minutes \X Minutes
  /\ Default \in [volume : Volumes, quiet : Volumes, window : Windows]

VARIABLES
  requests,  \* s_requests
  stop,      \* s_stop
  player,    \* how far player_task is with the request in hand
  inHand,    \* that request
  left,      \* chunks of its clip still to be written
  level,     \* the volume of the clip
  opened,    \* when the clip was opened, and whether the clock was set then
  lvgl,      \* the call LVGL is in
  sched,     \* the call rr_sched is in
  policy,    \* s_policy
  stored,    \* the policy in NVS
  made,      \* how many requests were made
  silenced,  \* requests up to this number were made before the last stop
  escaped,   \* the request in hand slipped past a stop
  failed,    \* requests whose clip could not be played, or not to its end
  budget     \* what the bounds still allow

playerVars == <<player, inHand, left, level, opened>>
policyVars == <<policy, stored, budget>>
vars == <<requests, stop, playerVars, lvgl, sched, policyVars, made, silenced,
          escaped, failed>>

Request(clip, n) == [clip |-> clip, n |-> n]

NoRequest == Request("none", 0)

-----------------------------------------------------------------------------
(* The volume policy.                                                      *)

\* Mutant: the window is taken not to wrap midnight.
InWindowNoWrap(now, from, to) == now >= from /\ now < to

InWindow(now, from, to) ==
  IF from <= to THEN now >= from /\ now < to ELSE now >= from \/ now < to

\* An unset clock never makes it quiet.
InQuietHours(time) ==
  /\ policy.window # Disabled
  /\ time.set
  /\ InWindow(time.minute, policy.window[1], policy.window[2])

EffectiveVolume(time) ==
  IF InQuietHours(time) /\ policy.quiet < policy.volume
  THEN policy.quiet
  ELSE policy.volume

Policies == [volume : Volumes, quiet : Volumes, window : Windows]

\* Local time of day, and rr_rtc's oscillator flag.
Times == [minute : Minutes, set : BOOLEAN]

NoTime == [minute |-> 0, set |-> FALSE]

\* set_audio: the policy applies even if it cannot be saved.
SetPolicy(p, saved) ==
  /\ budget.policies > 0
  /\ policy' = p
  /\ stored' = IF saved THEN p ELSE stored
  /\ budget' = [budget EXCEPT !.policies = @ - 1]
  /\ UNCHANGED <<requests, stop, playerVars, lvgl, sched, made, silenced,
                 escaped, failed>>

-----------------------------------------------------------------------------
Init ==
  /\ requests = <<>>
  /\ stop = FALSE
  /\ player = "waiting"
  /\ inHand = NoRequest
  /\ left = 0
  /\ level = 0
  /\ opened = NoTime
  /\ lvgl = "idle"
  /\ sched = "idle"
  /\ policy = Default
  /\ stored = Default
  /\ made = 0
  /\ silenced = 0
  /\ escaped = FALSE
  /\ failed = {}
  /\ budget = [policies |-> MaxPolicies, reboots |-> MaxReboots]

(***************************************************************************)
(* The player.                                                             *)
(***************************************************************************)

MidStop == lvgl = "stopping" \/ sched \in {"stopping", "ringing"}

\* Between the flag and the reset of the queue the player can finish the clip
\* that the flag stopped and take the next, which the reset then misses.
Receive ==
  /\ player = "waiting"
  /\ requests # <<>>
  /\ inHand' = Head(requests)
  /\ requests' = Tail(requests)
  /\ player' = "received"
  /\ escaped' = (inHand'.n <= silenced /\ MidStop)
  /\ UNCHANGED <<stop, left, level, opened, lvgl, sched, policyVars, made, silenced, failed>>

\* Mutant: the flag of the last stop is left to the next clip.
FlagKept == stop

FlagForClip == FALSE

ClearStop ==
  /\ player = "received"
  /\ stop' = FlagForClip
  /\ player' = "opening"
  /\ UNCHANGED <<requests, inHand, left, level, opened, lvgl, sched, policyVars, made,
                 silenced, escaped, failed>>

\* The volume is read once per clip.
Open(time) ==
  /\ player = "opening"
  /\ EffectiveVolume(time) > 0
  /\ level' = EffectiveVolume(time)
  /\ opened' = time
  /\ left' = Chunks
  /\ player' = "playing"
  /\ UNCHANGED <<requests, stop, inHand, lvgl, sched, policyVars, made, silenced,
                 escaped, failed>>

\* The clip is missing or not PCM, the volume is 0, or the codec fails.
OpenFails ==
  /\ player = "opening"
  /\ player' = "waiting"
  /\ failed' = failed \cup {inHand.n}
  /\ inHand' = NoRequest
  /\ escaped' = FALSE
  /\ UNCHANGED <<requests, stop, left, level, opened, lvgl, sched, policyVars, made, silenced>>

\* The loop's test of the flag; what is written after it plays to its end.
BeginChunk ==
  /\ player = "playing"
  /\ left > 0
  /\ ~stop
  /\ player' = "writing"
  /\ UNCHANGED <<requests, stop, inHand, left, level, opened, lvgl, sched, policyVars, made,
                 silenced, escaped, failed>>

WriteChunk ==
  /\ player = "writing"
  /\ left' = left - 1
  /\ player' = "playing"
  /\ UNCHANGED <<requests, stop, inHand, level, opened, lvgl, sched, policyVars, made,
                 silenced, escaped, failed>>

CloseClip ==
  /\ player' = "waiting"
  /\ inHand' = NoRequest
  /\ left' = 0
  /\ level' = 0
  /\ opened' = NoTime
  /\ escaped' = FALSE
  /\ UNCHANGED <<requests, stop, lvgl, sched, policyVars, made, silenced>>

Close ==
  /\ player = "playing"
  /\ left = 0 \/ stop
  /\ CloseClip
  /\ UNCHANGED failed

\* The file ends before its header says so, or the codec refuses a write.
BreakOff ==
  /\ player = "writing"
  /\ CloseClip
  /\ failed' = failed \cup {inHand.n}

(***************************************************************************)
(* The calls.                                                              *)
(***************************************************************************)
Full == Len(requests) >= Depth

Send(clip) ==
  /\ made < MaxRequests
  /\ made' = made + 1
  /\ requests' = IF Full THEN requests ELSE Append(requests, Request(clip, made + 1))

\* A stop lost: the player clears the flag for a clip it has just received.
RaiseFlag ==
  /\ stop' = TRUE
  /\ silenced' = made
  /\ escaped' = (player = "received")

\* Mutant: a stop leaves what is queued.
QueueKept == requests

ResetQueue == <<>>

\* rr_audio_play_tone.
LvglPlays ==
  /\ lvgl = "idle"
  /\ Send("effect")
  /\ UNCHANGED <<stop, playerVars, lvgl, sched, policyVars, silenced, escaped, failed>>

\* rr_audio_stop, on a tap on NOT NOW.
LvglStops ==
  /\ lvgl = "idle"
  /\ RaiseFlag
  /\ lvgl' = "stopping"
  /\ UNCHANGED <<requests, playerVars, sched, policyVars, made, failed>>

LvglResets ==
  /\ lvgl = "stopping"
  /\ requests' = ResetQueue
  /\ lvgl' = "idle"
  /\ UNCHANGED <<stop, playerVars, sched, policyVars, made, silenced, escaped, failed>>

PlayerBlocked ==
  \/ player = "waiting" /\ requests = <<>>
  \/ player \in {"opening", "writing"}

SchedRuns == lvgl = "idle" /\ PlayerBlocked

\* rr_audio_play_alarm and rr_audio_stop begin alike.
SchedStops(call) ==
  /\ SchedRuns
  /\ sched = "idle"
  /\ RaiseFlag
  /\ sched' = call
  /\ UNCHANGED <<requests, playerVars, lvgl, policyVars, made, failed>>

SchedResets ==
  /\ SchedRuns
  /\ sched \in {"stopping", "ringing"}
  /\ requests' = ResetQueue
  /\ sched' = IF sched = "ringing" THEN "sending" ELSE "idle"
  /\ UNCHANGED <<stop, playerVars, lvgl, policyVars, made, silenced, escaped, failed>>

SchedRings ==
  /\ SchedRuns
  /\ sched = "sending"
  /\ Send("alarm")
  /\ sched' = "idle"
  /\ UNCHANGED <<stop, playerVars, lvgl, policyVars, silenced, escaped, failed>>

Reboot ==
  /\ budget.reboots > 0
  /\ budget' = [budget EXCEPT !.reboots = @ - 1]
  /\ requests' = <<>>
  /\ stop' = FALSE
  /\ player' = "waiting"
  /\ inHand' = NoRequest
  /\ left' = 0
  /\ level' = 0
  /\ opened' = NoTime
  /\ lvgl' = "idle"
  /\ sched' = "idle"
  /\ policy' = stored
  /\ silenced' = made
  /\ escaped' = FALSE
  /\ UNCHANGED <<stored, made, failed>>

Player ==
  \/ Receive
  \/ ClearStop
  \/ \E time \in Times : Open(time)
  \/ OpenFails
  \/ BeginChunk \/ WriteChunk
  \/ Close
  \/ BreakOff

Next ==
  \/ Player
  \/ LvglPlays \/ LvglStops \/ LvglResets
  \/ \E call \in {"stopping", "ringing"} : SchedStops(call)
  \/ SchedResets \/ SchedRings
  \/ \E p \in Policies, saved \in BOOLEAN : SetPolicy(p, saved)
  \/ Reboot

Spec == Init /\ [][Next]_vars /\ WF_vars(Player)

-----------------------------------------------------------------------------
Clips   == [clip : {"effect", "alarm"}, n : 1..MaxRequests]
Budgets == [policies : 0..MaxPolicies, reboots : 0..MaxReboots]

TypeOK ==
  /\ requests \in Seq(Clips)
  /\ Len(requests) <= Depth
  /\ stop \in BOOLEAN
  /\ player \in {"waiting", "received", "opening", "playing", "writing"}
  /\ inHand \in Clips \cup {NoRequest}
  /\ left \in 0..Chunks
  /\ level \in Volumes \cup {0}
  /\ opened \in Times
  /\ lvgl \in {"idle", "stopping"}
  /\ sched \in {"idle", "stopping", "ringing", "sending"}
  /\ policy \in Policies
  /\ stored \in Policies
  /\ made \in 0..MaxRequests
  /\ silenced \in 0..made
  /\ escaped \in BOOLEAN
  /\ failed \subseteq 1..MaxRequests
  /\ budget \in Budgets

(* After a stop no further chunk is begun of what was requested before it, *)
(* queued or playing, but for the two windows of the code: the player was  *)
(* about to clear the flag, or took the next request between the flag and  *)
(* the reset of the queue.  ("Stop the clip in flight and drop anything    *)
(* queued behind it": rr_audio.h.)                                         *)
NothingSilencedSounds ==
  [][player = "playing" /\ player' = "writing" /\ inHand.n <= silenced => escaped]_vars

(* A clip ends before its last chunk only for a stop that was called after *)
(* the clip was requested, or because the clip itself could not be read or *)
(* written further: a stop does not outlive the sounds it was meant for.   *)
OnlyALaterStopCuts ==
  [][left > 0 /\ player \in {"playing", "writing"} /\ player' = "waiting"
       => inHand.n <= silenced' \/ inHand.n \in failed']_vars

(* An alarm that was queued is heard, whatever is played and stopped       *)
(* around it, unless a later stop, alarm or reboot was meant for it or its *)
(* clip cannot be played.                                                  *)
Sounding(n) == player \in {"playing", "writing"} /\ inHand.n = n /\ left < Chunks

AlarmIsHeard ==
  \A n \in 1..MaxRequests :
    (\E i \in DOMAIN requests : requests[i] = Request("alarm", n))
      ~> (Sounding(n) \/ n <= silenced \/ n \in failed)

(* A clip plays at the parent's volume, and inside the quiet hours at no   *)
(* more than the cap; the hours run from their start forward to their end, *)
(* over midnight if need be.  Without a valid clock nothing is quietened.  *)
QuietMinutes(w) ==
  {(w[1] + k) % DayMinutes : k \in {k \in Minutes : k < (w[2] + DayMinutes - w[1]) % DayMinutes}}

Quiet(time) ==
  policy.window # Disabled /\ time.set /\ time.minute \in QuietMinutes(policy.window)

QuietHoursCapTheVolume ==
  [][player = "opening" /\ player' = "playing"
       => level' = IF Quiet(opened') /\ policy.quiet < policy.volume
                   THEN policy.quiet
                   ELSE policy.volume]_vars

=============================================================================
