----------------------------- MODULE AudioProofs -----------------------------
(***************************************************************************)
(* What a stop does to the sounds, for every depth of the queue, length of *)
(* clip, policy and number of requests.                                    *)
(*                                                                         *)
(* The inductive invariant says where a request may be that a stop was     *)
(* meant for: in the queue only between the flag and the reset of a stop,  *)
(* in the player's hands only if the flag still stands or it has slipped   *)
(* through.                                                                *)
(***************************************************************************)
EXTENDS Audio, TLAPS

(* The player works on a request, and writes what there is of its clip. *)
Working ==
  /\ player # "waiting" => inHand \in Clips
  /\ player = "writing" => left > 0

(* Requests are numbered up to made. *)
Numbered ==
  /\ inHand.n <= made
  /\ \A i \in DOMAIN requests : requests[i].n <= made

(* A queued request that was silenced waits for the reset of its stop. *)
QueuedUnderAStop ==
  \A i \in DOMAIN requests : requests[i].n <= silenced => MidStop

(* The flag stands only against a clip that was asked for before it. *)
FlagIsForTheClip ==
  player \in {"opening", "playing", "writing"} /\ stop => inHand.n <= silenced

(* A silenced clip in hand is about to be stopped, or has escaped. *)
SilencedInHand ==
  player # "waiting" /\ inHand.n <= silenced =>
    escaped \/ (stop /\ player \in {"opening", "playing", "writing"})

IInv ==
  /\ TypeOK
  /\ Working
  /\ Numbered
  /\ QueuedUnderAStop
  /\ FlagIsForTheClip
  /\ SilencedInHand

-----------------------------------------------------------------------------
(* Records.                                                                *)

LEMMA ClipFields ==
  ASSUME NEW c \in Clips
  PROVE  c.n \in 1..MaxRequests /\ c.n \in Nat
BY AudioAssumption DEF Clips, AudioAssumption

LEMMA NoRequestFields == NoRequest.n = 0
BY DEF NoRequest, Request

LEMMA RequestType ==
  ASSUME NEW clip \in {"effect", "alarm"}, NEW n \in 1..MaxRequests
  PROVE  Request(clip, n) \in Clips /\ Request(clip, n).n = n
BY DEF Request, Clips

LEMMA PolicyFields ==
  ASSUME NEW p \in Policies
  PROVE  p.volume \in Volumes /\ p.quiet \in Volumes
BY DEF Policies

LEMMA VolumeType ==
  ASSUME TypeOK, NEW time \in Times
  PROVE  EffectiveVolume(time) \in Volumes
BY PolicyFields DEF TypeOK, EffectiveVolume

LEMMA TimeType == NoTime \in Times
BY AudioAssumption DEF AudioAssumption, NoTime, Times, Minutes

LEMMA DefaultType == Default \in Policies
BY AudioAssumption DEF AudioAssumption, Policies

LEMMA BudgetType ==
  /\ [policies |-> MaxPolicies, reboots |-> MaxReboots] \in Budgets
  /\ \A b \in Budgets :
       /\ b.policies > 0 => [b EXCEPT !.policies = @ - 1] \in Budgets
       /\ b.reboots > 0 => [b EXCEPT !.reboots = @ - 1] \in Budgets
BY AudioAssumption DEF AudioAssumption, Budgets

(* What taking from the queue and adding to it make of it. *)
LEMMA TakeType ==
  ASSUME requests \in Seq(Clips), requests # <<>>
  PROVE  /\ Head(requests) \in Clips /\ Head(requests) = requests[1]
         /\ 1 \in DOMAIN requests
         /\ Tail(requests) \in Seq(Clips)
         /\ Len(Tail(requests)) <= Len(requests)
         /\ \A i \in DOMAIN Tail(requests) :
              i + 1 \in DOMAIN requests /\ Tail(requests)[i] = requests[i + 1]
OBVIOUS

LEMMA AppendType ==
  ASSUME NEW q \in Seq(Clips), NEW c \in Clips
  PROVE  /\ Append(q, c) \in Seq(Clips)
         /\ Len(Append(q, c)) = Len(q) + 1
         /\ \A i \in DOMAIN Append(q, c) :
              Append(q, c)[i] = c \/ (i \in DOMAIN q /\ Append(q, c)[i] = q[i])
OBVIOUS

LEMMA EmptyType ==
  <<>> \in Seq(Clips) /\ Len(<<>>) = 0 /\ DOMAIN <<>> = {}
OBVIOUS

LEMMA SendType ==
  ASSUME TypeOK, NEW clip \in {"effect", "alarm"}, Send(clip)
  PROVE  /\ requests' \in Seq(Clips)
         /\ Len(requests') <= Depth
         /\ made' \in 0..MaxRequests
         /\ made' = made + 1
         /\ \A i \in DOMAIN requests' :
              requests'[i].n = made + 1 \/ (i \in DOMAIN requests /\ requests'[i] = requests[i])
<1>1. made \in 0..MaxRequests /\ made < MaxRequests /\ made' = made + 1
  BY DEF TypeOK, Send
<1>2. made + 1 \in 1..MaxRequests /\ made' \in 0..MaxRequests
  BY <1>1, AudioAssumption DEF AudioAssumption
<1>3. PICK c \in Clips : c = Request(clip, made + 1) /\ c.n = made + 1
  BY <1>2, RequestType
<1>4. requests \in Seq(Clips) /\ Len(requests) <= Depth
  BY DEF TypeOK
<1>5. CASE Full
  BY <1>1, <1>2, <1>4, <1>5 DEF Send
<1>6. CASE ~Full
  <2>1. requests' = Append(requests, c) /\ Len(requests) < Depth
    BY <1>3, <1>4, <1>6, AudioAssumption DEF Send, Full, AudioAssumption
  <2>2. Len(requests') <= Depth
    BY <2>1, <1>4, AppendType, AudioAssumption DEF AudioAssumption
  <2> QED
    BY <1>1, <1>2, <1>3, <1>4, <2>1, <2>2, AppendType
<1> QED
  BY <1>5, <1>6

-----------------------------------------------------------------------------
(* Type correctness.                                                       *)

LEMMA InitType == Init => TypeOK /\ Working
<1> SUFFICES ASSUME Init PROVE TypeOK /\ Working
  OBVIOUS
<1>1. Working
  BY DEF Init, Working
<1>2. requests \in Seq(Clips) /\ Len(requests) <= Depth
  BY EmptyType, AudioAssumption DEF Init, AudioAssumption
<1>4. opened \in Times /\ policy \in Policies /\ stored \in Policies
  BY TimeType, DefaultType DEF Init
<1>5. budget \in Budgets
  BY BudgetType DEF Init
<1>3. left \in 0..Chunks /\ made \in 0..MaxRequests /\ silenced \in 0..made
  BY AudioAssumption DEF Init, AudioAssumption
<1> QED
  BY <1>1, <1>2, <1>3, <1>4, <1>5 DEF Init, TypeOK

LEMMA StepType == TypeOK /\ Working /\ [Next]_vars => TypeOK' /\ Working'
<1> SUFFICES ASSUME TypeOK, Working, [Next]_vars PROVE TypeOK' /\ Working'
  OBVIOUS
<1> USE DEF TypeOK, Working
<1>1. CASE Receive
  <2>1. /\ requests' \in Seq(Clips) /\ Len(requests') <= Depth
        /\ inHand' \in Clips
    <3>1. requests \in Seq(Clips) /\ requests # <<>> /\ Len(requests) \in Nat
      BY <1>1 DEF Receive
    <3>2. requests' = Tail(requests) /\ inHand' = Head(requests) /\ Len(requests) <= Depth
      BY <1>1 DEF Receive
    <3> QED
      BY <3>1, <3>2, TakeType, EmptyType, AudioAssumption DEF AudioAssumption
  <2>2. player' \in {"waiting", "received", "opening", "playing", "writing"} /\ escaped' \in BOOLEAN
    BY <1>1 DEF Receive
  <2> QED
    BY <1>1, <2>1, <2>2 DEF Receive, policyVars
<1>2. CASE ClearStop
  BY <1>2 DEF ClearStop, FlagForClip, policyVars
<1>3. ASSUME NEW time \in Times, Open(time) PROVE TypeOK' /\ Working'
  <2>1. level' \in Volumes /\ left' \in 0..Chunks /\ opened' \in Times
    BY <1>3, VolumeType, AudioAssumption DEF Open, AudioAssumption
  <2> QED
    BY <1>3, <2>1 DEF Open, policyVars
<1>4. CASE OpenFails
  <2>1. failed' \subseteq 1..MaxRequests
    BY <1>4, ClipFields DEF OpenFails
  <2> QED
    BY <1>4, <2>1 DEF OpenFails, policyVars
<1>5. CASE BeginChunk
  BY <1>5 DEF BeginChunk, policyVars
<1>16. CASE WriteChunk
  <2>1. left' \in 0..Chunks
    BY <1>16, AudioAssumption DEF WriteChunk, AudioAssumption
  <2> QED
    BY <1>16, <2>1 DEF WriteChunk, policyVars
<1>6. ASSUME CloseClip, player # "waiting", failed' \subseteq failed \cup {inHand.n}
      PROVE  TypeOK' /\ Working'
  <2>1. left' \in 0..Chunks /\ opened' \in Times
    BY <1>6, TimeType, AudioAssumption DEF CloseClip, AudioAssumption
  <2>2. failed' \subseteq 1..MaxRequests
    BY <1>6, ClipFields
  <2> QED
    BY <1>6, <2>1, <2>2 DEF CloseClip, policyVars
<1>17. CASE Close \/ BreakOff
  BY <1>6, <1>17 DEF Close, BreakOff
<1>7. CASE LvglPlays
  <2>1. Send("effect") /\ silenced' = silenced
    BY <1>7 DEF LvglPlays
  <2>2. silenced' \in 0..made'
    BY <2>1, SendType
  <2> QED
    BY <1>7, <2>1, <2>2, SendType DEF LvglPlays, policyVars, playerVars
<1>8. CASE LvglStops
  <2>1. silenced' \in 0..made' /\ stop' \in BOOLEAN /\ escaped' \in BOOLEAN
    BY <1>8 DEF LvglStops, RaiseFlag
  <2> QED
    BY <1>8, <2>1 DEF LvglStops, policyVars, playerVars
<1>9. CASE LvglResets
  <2>1. requests' \in Seq(Clips) /\ Len(requests') <= Depth
    BY <1>9, EmptyType, AudioAssumption DEF LvglResets, ResetQueue, AudioAssumption
  <2> QED
    BY <1>9, <2>1 DEF LvglResets, policyVars, playerVars
<1>10. ASSUME NEW call \in {"stopping", "ringing"}, SchedStops(call)
       PROVE  TypeOK' /\ Working'
  <2>1. silenced' \in 0..made' /\ stop' \in BOOLEAN /\ escaped' \in BOOLEAN
    BY <1>10 DEF SchedStops, RaiseFlag
  <2> QED
    BY <1>10, <2>1 DEF SchedStops, policyVars, playerVars
<1>11. CASE SchedResets
  <2>1. requests' \in Seq(Clips) /\ Len(requests') <= Depth
    BY <1>11, EmptyType, AudioAssumption DEF SchedResets, ResetQueue, AudioAssumption
  <2> QED
    BY <1>11, <2>1 DEF SchedResets, policyVars, playerVars
<1>12. CASE SchedRings
  <2>1. Send("alarm") /\ silenced' = silenced
    BY <1>12 DEF SchedRings
  <2>2. silenced' \in 0..made'
    BY <2>1, SendType
  <2> QED
    BY <1>12, <2>1, <2>2, SendType DEF SchedRings, policyVars, playerVars
<1>13. ASSUME NEW p \in Policies, NEW saved \in BOOLEAN, SetPolicy(p, saved)
       PROVE  TypeOK' /\ Working'
  <2>1. budget' \in Budgets
    BY <1>13, BudgetType DEF SetPolicy
  <2> QED
    BY <1>13, <2>1 DEF SetPolicy, playerVars
<1>14. CASE Reboot
  <2>1. budget' \in Budgets
    BY <1>14, BudgetType DEF Reboot
  <2>2. requests' \in Seq(Clips) /\ Len(requests') <= Depth /\ opened' \in Times
    BY <1>14, EmptyType, TimeType, AudioAssumption DEF Reboot, AudioAssumption
  <2>3. left' \in 0..Chunks /\ silenced' \in 0..made'
    BY <1>14, AudioAssumption DEF Reboot, AudioAssumption
  <2> QED
    BY <1>14, <2>1, <2>2, <2>3 DEF Reboot
<1>15. CASE UNCHANGED vars
  BY <1>15 DEF vars, playerVars, policyVars
<1> QED
  BY <1>1, <1>2, <1>3, <1>4, <1>5, <1>6, <1>7, <1>8, <1>9, <1>10, <1>11,
     <1>12, <1>13, <1>14, <1>15, <1>16, <1>17 DEF Next, Player

-----------------------------------------------------------------------------
(* The invariant.                                                          *)

LEMMA InitInv == Init => IInv
<1> SUFFICES ASSUME Init PROVE IInv
  OBVIOUS
<1>1. TypeOK /\ Working
  BY InitType
<1>2. Numbered
  BY EmptyType, NoRequestFields DEF Init, Numbered
<1>3. QueuedUnderAStop
  BY EmptyType DEF Init, QueuedUnderAStop
<1>4. FlagIsForTheClip /\ SilencedInHand
  BY DEF Init, FlagIsForTheClip, SilencedInHand
<1> QED
  BY <1>1, <1>2, <1>3, <1>4 DEF IInv

LEMMA NumberType ==
  ASSUME TypeOK
  PROVE  /\ inHand.n \in Nat
         /\ made \in Nat /\ silenced \in Nat /\ silenced <= made
         /\ \A i \in DOMAIN requests : requests[i] \in Clips /\ requests[i].n \in Nat
<1>1. inHand.n \in Nat
  BY ClipFields, NoRequestFields DEF TypeOK
<1>2. made \in Nat /\ silenced \in Nat /\ silenced <= made
  BY AudioAssumption DEF TypeOK, AudioAssumption
<1>3. \A i \in DOMAIN requests : requests[i] \in Clips
  BY DEF TypeOK
<1> QED
  BY <1>1, <1>2, <1>3, ClipFields

(* A flag raised: everything requested so far is silenced by a stop that   *)
(* has its reset before it.                                                *)
LEMMA RaiseInv ==
  ASSUME IInv, RaiseFlag, MidStop', UNCHANGED <<requests, player, inHand, made>>
  PROVE  Numbered' /\ QueuedUnderAStop' /\ FlagIsForTheClip' /\ SilencedInHand'
<1>1. Numbered' /\ QueuedUnderAStop'
  BY DEF IInv, Numbered, QueuedUnderAStop
<1>2. inHand'.n <= silenced'
  BY DEF IInv, Numbered, RaiseFlag
<1>3. FlagIsForTheClip'
  BY <1>2 DEF FlagIsForTheClip
<1>4. stop' /\ (player = "received" => escaped')
  BY DEF RaiseFlag
<1>5. player' \in {"waiting", "received", "opening", "playing", "writing"}
  BY DEF IInv, TypeOK
<1>6. SilencedInHand'
  BY <1>4, <1>5 DEF SilencedInHand
<1> QED
  BY <1>1, <1>3, <1>6

(* A reset: nothing is left in the queue to be silenced. *)
LEMMA ResetInv ==
  ASSUME IInv, requests' = ResetQueue,
         UNCHANGED <<stop, player, inHand, made, silenced, escaped>>
  PROVE  Numbered' /\ QueuedUnderAStop' /\ FlagIsForTheClip' /\ SilencedInHand'
<1>1. Numbered' /\ QueuedUnderAStop'
  BY EmptyType DEF IInv, Numbered, QueuedUnderAStop, ResetQueue
<1> QED
  BY <1>1 DEF IInv, FlagIsForTheClip, SilencedInHand

(* A request made: its number is above that of every stop so far. *)
LEMMA SendInv ==
  ASSUME IInv, NEW clip \in {"effect", "alarm"}, Send(clip), MidStop => MidStop',
         UNCHANGED <<stop, player, inHand, silenced, escaped>>
  PROVE  Numbered' /\ QueuedUnderAStop' /\ FlagIsForTheClip' /\ SilencedInHand'
<1> USE DEF IInv
<1>1. /\ made' = made + 1
      /\ \A i \in DOMAIN requests' :
           requests'[i].n = made + 1 \/ (i \in DOMAIN requests /\ requests'[i] = requests[i])
  BY SendType
<1>2. /\ inHand.n \in Nat /\ made \in Nat /\ silenced \in Nat /\ silenced <= made
      /\ \A i \in DOMAIN requests : requests[i].n \in Nat
  BY NumberType
<1>3. inHand'.n <= made'
  BY <1>1, <1>2 DEF Numbered
<1>4. ASSUME NEW i \in DOMAIN requests'
      PROVE  requests'[i].n <= made' /\ (requests'[i].n <= silenced' => MidStop')
  <2>1. CASE requests'[i].n = made + 1
    BY <1>1, <1>2, <2>1
  <2>2. CASE i \in DOMAIN requests /\ requests'[i] = requests[i]
    BY <1>1, <1>2, <2>2 DEF Numbered, QueuedUnderAStop
  <2> QED
    BY <1>1, <2>1, <2>2
<1>5. Numbered' /\ QueuedUnderAStop'
  BY <1>3, <1>4 DEF Numbered, QueuedUnderAStop
<1> QED
  BY <1>5 DEF FlagIsForTheClip, SilencedInHand

LEMMA StepInv == IInv /\ [Next]_vars => IInv'
<1> SUFFICES ASSUME IInv, [Next]_vars
             PROVE  Numbered' /\ QueuedUnderAStop' /\ FlagIsForTheClip' /\ SilencedInHand'
  BY StepType DEF IInv
<1> DEFINE Rest == Numbered' /\ QueuedUnderAStop' /\ FlagIsForTheClip' /\ SilencedInHand'
<1>0. TypeOK /\ Numbered /\ QueuedUnderAStop /\ FlagIsForTheClip /\ SilencedInHand
  BY DEF IInv
<1>1. CASE Receive
  <2>1. requests \in Seq(Clips) /\ requests # <<>>
    BY <1>0, <1>1 DEF TypeOK, Receive
  <2>2. /\ 1 \in DOMAIN requests /\ inHand' = requests[1]
        /\ \A i \in DOMAIN requests' :
             i + 1 \in DOMAIN requests /\ requests'[i] = requests[i + 1]
    BY <1>1, <2>1, TakeType DEF Receive
  <2>3. made' = made /\ silenced' = silenced /\ (MidStop <=> MidStop')
    BY <1>1 DEF Receive, MidStop
  <2>4. Numbered' /\ QueuedUnderAStop'
    BY <1>0, <2>2, <2>3 DEF Numbered, QueuedUnderAStop
  <2>5. FlagIsForTheClip'
    BY <1>1 DEF Receive, FlagIsForTheClip
  <2>6. inHand'.n <= silenced => MidStop
    BY <1>0, <2>2 DEF QueuedUnderAStop
  <2>7. SilencedInHand'
    BY <1>1, <2>3, <2>6 DEF Receive, SilencedInHand
  <2> QED
    BY <2>4, <2>5, <2>7
<1>2. CASE ClearStop
  BY <1>0, <1>2 DEF ClearStop, FlagForClip, Numbered, QueuedUnderAStop, MidStop,
                    FlagIsForTheClip, SilencedInHand
<1>3. ASSUME NEW time \in Times, Open(time) PROVE Rest
  BY <1>0, <1>3 DEF Open, Numbered, QueuedUnderAStop, MidStop, FlagIsForTheClip, SilencedInHand
<1>4. CASE OpenFails
  <2>1. inHand'.n = 0 /\ made \in Nat /\ made' = made
    BY <1>0, <1>4, NoRequestFields, NumberType DEF OpenFails
  <2>2. Numbered'
    BY <1>0, <1>4, <2>1 DEF OpenFails, Numbered
  <2> QED
    BY <1>0, <1>4, <2>2 DEF OpenFails, QueuedUnderAStop, MidStop, FlagIsForTheClip, SilencedInHand
<1>5. CASE BeginChunk
  BY <1>0, <1>5 DEF BeginChunk, Numbered, QueuedUnderAStop, MidStop, FlagIsForTheClip,
                    SilencedInHand
<1>16. CASE WriteChunk
  BY <1>0, <1>16 DEF WriteChunk, Numbered, QueuedUnderAStop, MidStop, FlagIsForTheClip,
                     SilencedInHand
<1>6. CASE CloseClip
  <2>1. inHand'.n = 0 /\ made \in Nat /\ made' = made
    BY <1>0, <1>6, NoRequestFields, NumberType DEF CloseClip
  <2>2. Numbered'
    BY <1>0, <1>6, <2>1 DEF CloseClip, Numbered
  <2> QED
    BY <1>0, <1>6, <2>2 DEF CloseClip, QueuedUnderAStop, MidStop, FlagIsForTheClip,
                            SilencedInHand
<1>7. CASE LvglPlays
  BY <1>7, SendInv DEF LvglPlays, playerVars, MidStop
<1>8. CASE LvglStops
  BY <1>8, RaiseInv DEF LvglStops, playerVars, MidStop
<1>9. CASE LvglResets
  BY <1>9, ResetInv DEF LvglResets, playerVars
<1>10. ASSUME NEW call \in {"stopping", "ringing"}, SchedStops(call) PROVE Rest
  BY <1>10, RaiseInv DEF SchedStops, playerVars, MidStop
<1>11. CASE SchedResets
  BY <1>11, ResetInv DEF SchedResets, playerVars
<1>12. CASE SchedRings
  BY <1>12, SendInv DEF SchedRings, playerVars, MidStop
<1>13. ASSUME NEW p \in Policies, NEW saved \in BOOLEAN, SetPolicy(p, saved) PROVE Rest
  BY <1>0, <1>13 DEF SetPolicy, playerVars, Numbered, QueuedUnderAStop, MidStop,
                     FlagIsForTheClip, SilencedInHand
<1>14. CASE Reboot
  <2>1. inHand'.n = 0 /\ made \in Nat /\ made' = made /\ DOMAIN requests' = {}
    BY <1>0, <1>14, NoRequestFields, NumberType, EmptyType DEF Reboot
  <2>2. Numbered' /\ QueuedUnderAStop'
    BY <2>1 DEF Numbered, QueuedUnderAStop
  <2> QED
    BY <1>14, <2>2 DEF Reboot, FlagIsForTheClip, SilencedInHand
<1>15. CASE UNCHANGED vars
  BY <1>0, <1>15 DEF vars, playerVars, policyVars, Numbered, QueuedUnderAStop, MidStop,
                     FlagIsForTheClip, SilencedInHand
<1> QED
  BY <1>1, <1>2, <1>3, <1>4, <1>5, <1>6, <1>7, <1>8, <1>9, <1>10, <1>11,
     <1>12, <1>13, <1>14, <1>15, <1>16 DEF Next, Player, Close, BreakOff

-----------------------------------------------------------------------------
(* rr_audio.c keeps its queue within its depth and its player's request    *)
(* one that was made.                                                      *)
THEOREM SoundTypeCorrect == Spec => []TypeOK
<1>1. Init => TypeOK /\ Working
  BY InitType
<1>2. TypeOK /\ Working /\ [Next]_vars => TypeOK' /\ Working'
  BY StepType
<1> QED
  BY <1>1, <1>2, PTL DEF Spec

(* Types and the flag of rr_audio_stop, by induction over the player. *)
THEOREM Invariance == Spec => []IInv
<1>1. Init => IInv
  BY InitInv
<1>2. IInv /\ [Next]_vars => IInv'
  BY StepInv
<1> QED
  BY <1>1, <1>2, PTL DEF Spec

(* After rr_audio_stop no chunk is begun of what was requested before it,  *)
(* queued or playing; the two windows in which one is are the only ones.   *)
THEOREM StopReachesAllBefore == Spec => NothingSilencedSounds
<1> DEFINE Sounds == player = "playing" /\ player' = "writing"
                       /\ inHand.n <= silenced => escaped
<1>1. IInv /\ [Next]_vars => Sounds
  <2> SUFFICES ASSUME IInv, [Next]_vars,
                      player = "playing", player' = "writing", inHand.n <= silenced
               PROVE  escaped
    OBVIOUS
  <2>1. escaped \/ stop
    BY DEF IInv, SilencedInHand
  <2>2. BeginChunk
    BY DEF Next, Player, Receive, ClearStop, Open, OpenFails, WriteChunk, CloseClip, Close,
           BreakOff, LvglPlays, LvglStops, LvglResets, SchedStops, SchedResets, SchedRings,
           SetPolicy, Reboot, playerVars, vars
  <2> QED
    BY <2>1, <2>2 DEF BeginChunk
<1>2. Spec => []IInv
  BY Invariance
<1> QED
  BY <1>1, <1>2, PTL DEF Spec, NothingSilencedSounds

(* play_blocking ends a clip before its last chunk only for a stop (or a   *)
(* reboot) that came after the clip was requested, or because the clip     *)
(* could not be read or written further.                                   *)
THEOREM NoStopOutlivesItsSounds == Spec => OnlyALaterStopCuts
<1> DEFINE Cut == left > 0 /\ player \in {"playing", "writing"} /\ player' = "waiting"
                    => inHand.n <= silenced' \/ inHand.n \in failed'
<1>1. IInv /\ [Next]_vars => Cut
  <2> SUFFICES ASSUME IInv, [Next]_vars, left > 0, player \in {"playing", "writing"},
                      player' = "waiting"
               PROVE  inHand.n <= silenced' \/ inHand.n \in failed'
    OBVIOUS
  <2>1. Close \/ BreakOff \/ Reboot
    BY DEF Next, Player, Receive, ClearStop, Open, OpenFails, BeginChunk, WriteChunk,
           LvglPlays, LvglStops, LvglResets, SchedStops, SchedResets, SchedRings,
           SetPolicy, playerVars, vars
  <2>2. CASE Close
    <3>1. left # 0
      BY AudioAssumption DEF IInv, TypeOK, AudioAssumption
    <3> QED
      BY <2>2, <3>1 DEF Close, CloseClip, IInv, FlagIsForTheClip
  <2>3. CASE BreakOff
    BY <2>3 DEF BreakOff
  <2>4. CASE Reboot
    BY <2>4 DEF Reboot, IInv, Numbered
  <2> QED
    BY <2>1, <2>2, <2>3, <2>4
<1>2. Spec => []IInv
  BY Invariance
<1> QED
  BY <1>1, <1>2, PTL DEF Spec, OnlyALaterStopCuts

-----------------------------------------------------------------------------
(* The quiet hours: rr_audio.c compares minutes of the day, the contract   *)
(* counts them from the start of the window, round midnight.               *)
LEMMA OnceRound ==
  ASSUME NEW x \in Nat, x < DayMinutes + DayMinutes
  PROVE  x % DayMinutes = IF x < DayMinutes THEN x ELSE x - DayMinutes
<1> DEFINE D == DayMinutes
           q == x \div D
           r == x % D
<1>1. D \in Nat /\ D > 0
  BY AudioAssumption DEF AudioAssumption
<1>2. q \in Nat /\ r \in 0..(D - 1) /\ x = D * q + r
  BY <1>1
<1> HIDE DEF q, r
<1>3. q < 2
  <2>1. SUFFICES ASSUME q >= 2 PROVE FALSE
    BY <1>2
  <2>2. D * q >= D * 2
    BY <2>1, <1>1, <1>2
  <2> QED
    BY <2>2, <1>1, <1>2
<1>4. CASE q = 0
  BY <1>1, <1>2, <1>4 DEF r
<1>5. CASE q = 1
  BY <1>1, <1>2, <1>5 DEF r
<1> QED
  BY <1>2, <1>3, <1>4, <1>5

LEMMA WindowIsQuiet ==
  ASSUME NEW w \in Minutes \X Minutes, NEW t \in Minutes
  PROVE  InWindow(t, w[1], w[2]) <=> t \in QuietMinutes(w)
<1> DEFINE D == DayMinutes
           from == w[1]
           to == w[2]
           length == (to + D - from) % D
<1>1. /\ D \in Nat /\ from \in Nat /\ to \in Nat /\ t \in Nat
      /\ from < D /\ to < D /\ t < D
  BY AudioAssumption DEF AudioAssumption, Minutes
<1>2. length = IF from <= to THEN to - from ELSE to + D - from
  <2> DEFINE x == to + D - from
  <2>1. x \in Nat /\ x < DayMinutes + DayMinutes
    BY <1>1
  <2>2. length = x % DayMinutes
    OBVIOUS
  <2> HIDE DEF x, length
  <2>3. length = IF x < D THEN x ELSE x - D
    BY <2>1, <2>2, OnceRound
  <2> QED
    BY <2>3, <1>1 DEF x
<1>3. \A k \in Minutes : (from + k) % D = IF from + k < D THEN from + k ELSE from + k - D
  BY <1>1, OnceRound DEF Minutes
<1>4. t \in QuietMinutes(w) <=> \E k \in Minutes : k < length /\ t = (from + k) % D
  BY DEF QuietMinutes
<1> HIDE DEF length, from, to
<1>5. ASSUME InWindow(t, from, to)
      PROVE  \E k \in Minutes : k < length /\ t = (from + k) % D
  <2>1. CASE from <= t
    <3>1. t - from \in Minutes /\ from + (t - from) = t
      BY <2>1, <1>1 DEF Minutes
    <3>2. t - from < length
      BY <2>1, <1>1, <1>2, <1>5 DEF InWindow
    <3>3. (from + (t - from)) % D = t
      BY <3>1, <1>1, <1>3
    <3> QED
      BY <3>1, <3>2, <3>3
  <2>2. CASE ~(from <= t)
    <3>1. ~(from <= to) /\ t < to
      BY <2>2, <1>1, <1>5 DEF InWindow
    <3>2. t + D - from \in Minutes /\ from + (t + D - from) = t + D
      BY <2>2, <1>1 DEF Minutes
    <3>3. t + D - from < length
      BY <3>1, <1>1, <1>2
    <3>4. (from + (t + D - from)) % D = t
      BY <3>2, <1>1, <1>3
    <3> QED
      BY <3>2, <3>3, <3>4
  <2> QED
    BY <2>1, <2>2
<1>6. ASSUME NEW k \in Minutes, k < length, t = (from + k) % D
      PROVE  InWindow(t, from, to)
  <2>1. k \in Nat /\ k < D
    BY <1>1 DEF Minutes
  <2>2. t = IF from + k < D THEN from + k ELSE from + k - D
    BY <1>3, <1>6
  <2> QED
    BY <2>1, <2>2, <1>1, <1>2, <1>6 DEF InWindow
<1> QED
  BY <1>4, <1>5, <1>6 DEF from, to

(* player_task opens a clip at the parent's volume, and inside the quiet   *)
(* hours at no more than the cap, whatever the hours: over midnight, empty *)
(* or a whole day less a minute.                                           *)
THEOREM QuietHoursHold == Spec => QuietHoursCapTheVolume
<1> DEFINE Capped == player = "opening" /\ player' = "playing"
                       => level' = IF Quiet(opened') /\ policy.quiet < policy.volume
                                   THEN policy.quiet ELSE policy.volume
<1>1. IInv /\ [Next]_vars => Capped
  <2> SUFFICES ASSUME IInv, [Next]_vars, player = "opening", player' = "playing"
               PROVE  level' = IF Quiet(opened') /\ policy.quiet < policy.volume
                               THEN policy.quiet ELSE policy.volume
    OBVIOUS
  <2>1. PICK time \in Times : Open(time)
    BY DEF Next, Player, Receive, ClearStop, OpenFails, BeginChunk, WriteChunk, CloseClip,
           Close, BreakOff, LvglPlays, LvglStops, LvglResets, SchedStops, SchedResets,
           SchedRings, SetPolicy, Reboot, playerVars, vars
  <2>2. opened' = time /\ level' = EffectiveVolume(time)
    BY <2>1 DEF Open
  <2>3. time.minute \in Minutes /\ policy.window \in (Minutes \X Minutes) \cup {Disabled}
    BY AudioAssumption DEF Times, IInv, TypeOK, Policies, AudioAssumption
  <2>4. InQuietHours(time) <=> Quiet(time)
    BY <2>3, WindowIsQuiet DEF InQuietHours, Quiet
  <2> QED
    BY <2>2, <2>4 DEF EffectiveVolume
<1>2. Spec => []IInv
  BY Invariance
<1> QED
  BY <1>1, <1>2, PTL DEF Spec, QuietHoursCapTheVolume

=============================================================================
