----------------------------- MODULE LinkProofs -----------------------------
(***************************************************************************)
(* What Link promises for any number of centrals and connections, any      *)
(* thresholds, and power loss at every point.                              *)
(***************************************************************************)
EXTENDS Link, TLAPS

Auth ==
  /\ conns \in [Handles -> ConnType]
  /\ authed \in Handles \cup {Nobody}
  /\ AuthorisationIsEarned

Radio == radio \in RadioType /\ NeverSilent

IInv == Auth /\ Radio

SomeFree == \E h \in Handles : ~Open(h)

-----------------------------------------------------------------------------
(***************************************************************************)
(* Advertising.                                                            *)
(***************************************************************************)
LEMMA SilentRadioType ==
  /\ SilentRadio \in RadioType
  /\ radio \in RadioType => [SilentRadio EXCEPT !.refusing = radio.refusing] \in RadioType
<1>1. SilentRadio \in RadioType
  BY LinkAssumption DEF SilentRadio, RadioType, LinkAssumption
<1>2. \A x \in BOOLEAN : [SilentRadio EXCEPT !.refusing = x] \in RadioType
  BY <1>1 DEF RadioType
<1>3. radio \in RadioType => radio.refusing \in BOOLEAN
  BY DEF RadioType
<1> QED
  BY <1>1, <1>2, <1>3

LEMMA AdvertiseResult ==
  ASSUME NEW r \in RadioType, NEW paired, NEW free
  PROVE  /\ Advertise(r, paired, free) \in RadioType
         /\ free => \/ Advertise(r, paired, free).adv # "off"
                    \/ Advertise(r, paired, free).refused
<1> DEFINE spent == [r EXCEPT !.refusing = FALSE, !.refused = TRUE]
           at    == Interval(r, paired)
           on    == [r EXCEPT !.adv = at, !.told = at, !.refused = FALSE]
<1>1. spent \in RadioType /\ spent.refused
  BY DEF RadioType
<1>2. at \in {"pairing", "eager", "idle"}
  BY DEF Interval
<1> HIDE DEF at
<1>3. on \in RadioType /\ on.adv # "off"
  <2>1. on.adv = at
    BY DEF RadioType
  <2>2. [r EXCEPT !.adv = at] \in RadioType
    BY <1>2 DEF RadioType
  <2>3. [[r EXCEPT !.adv = at] EXCEPT !.told = at] \in RadioType
    BY <1>2, <2>2 DEF RadioType
  <2>4. on = [[[r EXCEPT !.adv = at] EXCEPT !.told = at] EXCEPT !.refused = FALSE]
    BY DEF RadioType
  <2>5. on \in RadioType
    BY <2>3, <2>4 DEF RadioType
  <2> QED
    BY <1>2, <2>1, <2>5
<1>4. Advertise(r, paired, free) = IF r.adv # "off" \/ ~free THEN r ELSE IF r.refusing THEN spent ELSE on
  BY DEF Advertise, at
<1> HIDE DEF spent, on
<1> QED
  BY <1>1, <1>3, <1>4

LEMMA FailureResult ==
  ASSUME NEW r \in RadioType, NEW paired, NEW free
  PROVE  /\ AdvertiseAfterFailure(r, paired, free) \in RadioType
         /\ free => \/ AdvertiseAfterFailure(r, paired, free).adv # "off"
                    \/ AdvertiseAfterFailure(r, paired, free).timer
                    \/ AdvertiseAfterFailure(r, paired, free).refused
<1> DEFINE counted == [r EXCEPT !.fails = @ + 1]
<1>1. BackoffAfter \in Nat
  BY LinkAssumption DEF LinkAssumption
<1>2. CASE r.fails + 1 <= BackoffAfter
  <2>1. counted \in RadioType
    BY <1>1, <1>2 DEF RadioType
  <2>2. AdvertiseAfterFailure(r, paired, free) = Advertise(counted, paired, free)
    BY <1>2 DEF AdvertiseAfterFailure
  <2>3. QED
    BY <2>1, <2>2, AdvertiseResult
<1>3. CASE ~(r.fails + 1 <= BackoffAfter)
  <2> DEFINE held == [r EXCEPT !.fails = BackoffAfter + 1, !.timer = TRUE]
  <2>1. held \in RadioType
    <3>1. BackoffAfter + 1 \in 0..(BackoffAfter + 1)
      BY <1>1
    <3>2. [r EXCEPT !.fails = BackoffAfter + 1] \in RadioType
      BY <3>1 DEF RadioType
    <3>3. held = [[r EXCEPT !.fails = BackoffAfter + 1] EXCEPT !.timer = TRUE]
      BY DEF RadioType
    <3>4. QED
      BY <3>2, <3>3 DEF RadioType
  <2>2. held.timer = TRUE
    BY DEF RadioType
  <2>3. AdvertiseAfterFailure(r, paired, free) = held
    BY <1>3 DEF AdvertiseAfterFailure
  <2> HIDE DEF held
  <2>4. QED
    BY <2>1, <2>2, <2>3
<1>4. QED
  BY <1>2, <1>3

\* Advertising anew leaves the watch audible, or every connection is taken.
LEMMA AdvertiseAgain ==
  ASSUME NEW r \in RadioType, NEW paired,
         radio' = Advertise(r, paired, SomeFree) \/ radio' = AdvertiseAfterFailure(r, paired, SomeFree),
         conns' = conns
  PROVE  Radio'
<1>1. radio' \in RadioType
  BY AdvertiseResult, FailureResult
<1>2. ASSUME SomeFree PROVE NeverSilent'
  BY <1>2, AdvertiseResult, FailureResult DEF NeverSilent, Audible
<1>3. ASSUME ~SomeFree PROVE NeverSilent'
  <2>1. PICK h \in Handles : Open(h)
    BY <1>3, LinkAssumption DEF SomeFree, LinkAssumption
  <2>2. Open(h)'
    BY <2>1 DEF Open
  <2>3. QED
    BY <2>2 DEF NeverSilent, Audible
<1>4. QED
  BY <1>1, <1>2, <1>3 DEF Radio

LEMMA BootIsSafe ==
  ASSUME IInv, NEW n, NEW b, BootWith(n, b)
  PROVE  IInv'
<1> DEFINE r == [SilentRadio EXCEPT !.refusing = radio.refusing]
<1>0. r \in RadioType /\ radio' = Advertise(r, n.paired, TRUE)
  BY SilentRadioType DEF BootWith, IInv, Radio
<1> HIDE DEF r
<1>1. radio' \in RadioType /\ (radio'.adv # "off" \/ radio'.refused)
  BY <1>0, AdvertiseResult
<1>2. Auth'
  BY DEF BootWith, Auth, AuthorisationIsEarned, NoConn, ConnType
<1>3. QED
  BY <1>1, <1>2 DEF IInv, Radio, NeverSilent, Audible

-----------------------------------------------------------------------------
(***************************************************************************)
(* One lemma for each way a step may touch connections and radio.          *)
(***************************************************************************)
LEMMA PeersAreSomebody == \A p \in Peers : p # Nobody
BY LinkAssumption DEF LinkAssumption

\* Connections change in place: none goes, none loses its nonce.
LEMMA InPlace ==
  ASSUME IInv,
         NEW h \in Handles, NEW c \in ConnType, c # NoConn, conns[h].nonce => c.nonce,
         conns' = [conns EXCEPT ![h] = c],
         authed' = authed \/ (authed' = h /\ c.nonce),
         radio' \in RadioType, radio'.adv = radio.adv,
         radio'.timer = radio.timer, radio'.refreshing = radio.refreshing
  PROVE  IInv'
<1>1. \A g \in Handles : Open(g) => Open(g)'
  BY DEF IInv, Auth, Open
<1>2. Open(h)'
  BY DEF IInv, Auth, Open
<1>3. conns' \in [Handles -> ConnType]
  BY DEF IInv, Auth
<1>4. \A g \in Handles : conns[g].nonce => conns'[g].nonce
  BY DEF IInv, Auth
<1>5. AuthorisationIsEarned'
  <2>1. CASE authed' = authed
    BY <1>1, <1>4, <2>1 DEF IInv, Auth, AuthorisationIsEarned, Open
  <2>2. CASE authed' = h /\ c.nonce
    BY <1>2, <2>2 DEF IInv, Auth, AuthorisationIsEarned, Open
  <2>3. QED
    BY <2>1, <2>2
<1>6. NeverSilent'
  BY <1>2 DEF NeverSilent, Audible
<1>7. authed' \in Handles \cup {Nobody}
  BY DEF IInv, Auth
<1>8. QED
  BY <1>3, <1>5, <1>6, <1>7 DEF IInv, Auth, Radio

LEMMA LinkUntouched ==
  ASSUME IInv, conns' = conns, authed' = authed
  PROVE  Auth'
BY DEF IInv, Auth, AuthorisationIsEarned, Open

LEMMA Untouched ==
  ASSUME IInv, conns' = conns, authed' = authed, radio' = radio
  PROVE  IInv'
<1>1. Auth'
  BY LinkUntouched
<1>2. Radio'
  BY DEF IInv, Radio, NeverSilent, Audible, Open
<1>3. QED
  BY <1>1, <1>2 DEF IInv

-----------------------------------------------------------------------------
(***************************************************************************)
(* The steps.                                                              *)
(***************************************************************************)
LEMMA ConnectStep ==
  ASSUME IInv, NEW h \in Handles, NEW p \in Peers, Connect(h, p)
  PROVE  IInv'
<1>1. conns'[h].peer = p /\ conns' \in [Handles -> ConnType]
  BY DEF Connect, IInv, Auth, ConnType, NoConn
<1>2. Open(h)'
  BY <1>1, PeersAreSomebody DEF Open, NoConn
<1>3. Auth'
  BY <1>1 DEF Connect, Auth, AuthorisationIsEarned
<1>4. radio' \in RadioType
  BY DEF Connect, IInv, Radio, RadioType
<1>5. QED
  BY <1>2, <1>3, <1>4 DEF IInv, Radio, NeverSilent, Audible

LEMMA DisconnectStep ==
  ASSUME IInv, NEW h \in Handles, Disconnect(h)
  PROVE  IInv'
<1> DEFINE r == [radio EXCEPT !.told = "unknown"]
<1>1. r \in RadioType
  BY DEF IInv, Radio, RadioType
<1>2. Auth'
  BY DEF Disconnect, AuthAfterDisconnect, IInv, Auth, AuthorisationIsEarned, NoConn, ConnType
<1>3. \/ radio' = AdvertiseAfterFailure(r, nvs.paired, TRUE)
      \/ radio' = Advertise(r, nvs.paired, TRUE)
  BY DEF Disconnect
<1>4. radio' \in RadioType /\ (radio'.adv # "off" \/ radio'.timer \/ radio'.refused)
  BY <1>1, <1>3, AdvertiseResult, FailureResult
<1>5. QED
  BY <1>2, <1>4 DEF IInv, Radio, NeverSilent, Audible

LEMMA SecurityStep ==
  ASSUME IInv, NEW h \in Handles, Security(h)
  PROVE  IInv'
<1>1. conns[h] \in ConnType /\ radio \in RadioType
  BY DEF IInv, Auth, Radio
<1>2. CASE Encrypted(h)
  <2> DEFINE c == [conns[h] EXCEPT !.encrypted = TRUE]
  <2>1. c \in ConnType /\ c # NoConn /\ c.nonce = conns[h].nonce
    BY <1>1 DEF ConnType, NoConn
  <2>2. conns' = [conns EXCEPT ![h] = c] /\ authed' = authed
    BY <1>2 DEF Encrypted
  <2>3. /\ radio' \in RadioType /\ radio'.adv = radio.adv
        /\ radio'.timer = radio.timer /\ radio'.refreshing = radio.refreshing
    BY <1>1, <1>2, LinkAssumption DEF Encrypted, RadioType, LinkAssumption
  <2> HIDE DEF c
  <2>4. QED
    BY <2>1, <2>2, <2>3, InPlace
<1>3. CASE EncryptionFails(h)
  <2> DEFINE c == [conns[h] EXCEPT !.broken = TRUE]
  <2>1. c \in ConnType /\ c # NoConn /\ c.nonce = conns[h].nonce
    BY <1>1 DEF ConnType, NoConn
  <2>2. conns' = [conns EXCEPT ![h] = c] /\ authed' = authed /\ radio' = radio
    BY <1>3 DEF EncryptionFails
  <2> HIDE DEF c
  <2>3. QED
    BY <1>1, <2>1, <2>2, InPlace
<1>4. QED
  BY <1>2, <1>3 DEF Security, EncryptWithKey, PairFresh

LEMMA NonceStep ==
  ASSUME IInv, NEW h \in Handles, NonceAuth(h)
  PROVE  IInv'
<1> DEFINE c == [conns[h] EXCEPT !.nonce = TRUE]
<1>1. conns[h] \in ConnType /\ radio \in RadioType
  BY DEF IInv, Auth, Radio
<1>2. c \in ConnType /\ c # NoConn /\ c.nonce
  BY <1>1 DEF ConnType, NoConn
<1>3. conns' = [conns EXCEPT ![h] = c] /\ authed' = h /\ radio' = radio
  BY DEF NonceAuth
<1> HIDE DEF c
<1>4. QED
  BY <1>1, <1>2, <1>3, InPlace

LEMMA RadioStep ==
  ASSUME IInv, ConnectFails \/ AdvRetry \/ RefreshStart
  PROVE  IInv'
<1>1. radio \in RadioType /\ conns' = conns /\ authed' = authed
  BY DEF IInv, Radio, ConnectFails, AdvRetry, RefreshStart, link
<1>2. Radio'
  <2>1. CASE ConnectFails
    <3>1. [radio EXCEPT !.adv = "off"] \in RadioType
      BY <1>1 DEF RadioType
    <3>2. QED
      BY <1>1, <2>1, <3>1, AdvertiseAgain DEF ConnectFails, SomeFree
  <2>2. CASE AdvRetry
    <3>1. [radio EXCEPT !.timer = FALSE] \in RadioType
      BY <1>1 DEF RadioType
    <3>2. QED
      BY <1>1, <2>2, <3>1, AdvertiseAgain DEF AdvRetry, SomeFree
  <2>3. CASE RefreshStart
    <3>1. [radio EXCEPT !.refreshing = FALSE] \in RadioType
      BY <1>1 DEF RadioType
    <3>2. QED
      BY <1>1, <2>3, <3>1, AdvertiseAgain DEF RefreshStart, SomeFree
  <2>4. QED
    BY <2>1, <2>2, <2>3
<1>3. QED
  BY <1>1, <1>2, LinkUntouched DEF IInv

LEMMA WindowStep ==
  ASSUME IInv, QueueActivity \/ WindowCloses \/ StackRefuses
  PROVE  IInv'
<1>1. radio \in RadioType /\ conns' = conns /\ authed' = authed
  BY DEF IInv, Radio, QueueActivity, WindowCloses, StackRefuses, link
<1>2. CASE WindowCloses \/ StackRefuses
  <2>1. /\ radio' \in RadioType /\ radio'.adv = radio.adv /\ radio'.refused = radio.refused
        /\ radio'.timer = radio.timer /\ radio'.refreshing = radio.refreshing
    BY <1>1, <1>2 DEF WindowCloses, StackRefuses, RadioType
  <2>2. QED
    BY <1>1, <2>1, LinkUntouched DEF IInv, Radio, NeverSilent, Audible, Open
<1>3. CASE QueueActivity
  <2> DEFINE r == [radio EXCEPT !.recent = TRUE]
             stopped == [r EXCEPT !.adv = "off", !.refreshing = TRUE]
  <2>1. /\ r \in RadioType /\ r.adv = radio.adv /\ r.refused = radio.refused
        /\ r.timer = radio.timer /\ r.refreshing = radio.refreshing
    BY <1>1 DEF RadioType
  <2>2. stopped \in RadioType /\ stopped.refreshing
    BY <2>1 DEF RadioType
  <2>3. radio' = r \/ radio' = stopped
    BY <1>3 DEF QueueActivity
  <2> HIDE DEF r, stopped
  <2>4. QED
    BY <1>1, <2>1, <2>2, <2>3, LinkUntouched DEF IInv, Radio, NeverSilent, Audible, Open
<1>4. QED
  BY <1>2, <1>3

LEMMA InitIsSafe == Init => IInv
<1> SUFFICES ASSUME Init PROVE IInv
  OBVIOUS
<1>1. radio \in RadioType /\ (radio.adv # "off" \/ radio.refused)
  BY SilentRadioType, AdvertiseResult DEF Init
<1>2. Auth
  BY DEF Init, Auth, AuthorisationIsEarned, NoConn, ConnType
<1>3. QED
  BY <1>1, <1>2 DEF IInv, Radio, NeverSilent, Audible

LEMMA StepIsSafe == IInv /\ [Next]_vars => IInv'
<1> SUFFICES ASSUME IInv, [Next]_vars PROVE IInv'
  OBVIOUS
<1>1. CASE \E h \in Handles, p \in Peers : Connect(h, p)
  BY <1>1, ConnectStep
<1>2. CASE \E h \in Handles : Disconnect(h)
  BY <1>2, DisconnectStep
<1>3. CASE \E h \in Handles : Security(h)
  BY <1>3, SecurityStep
<1>4. CASE \E h \in Handles : NonceAuth(h)
  BY <1>4, NonceStep
<1>5. CASE ConnectFails \/ AdvRetry \/ RefreshStart
  BY <1>5, RadioStep
<1>6. CASE QueueActivity \/ WindowCloses \/ StackRefuses
  BY <1>6, WindowStep
<1>7. CASE RotateRestart \/ ResetRestart \/ PowerLoss
  BY <1>7, BootIsSafe DEF RotateRestart, ResetRestart, PowerLoss
<1>8. CASE \/ \E h \in Handles : RoutinePush(h) \/ FactoryReset(h)
           \/ SetPaired \/ Rotate \/ RotateNotSaved
           \/ \E p \in Peers : LoseBond(p) \/ Forgets(p)
           \/ UNCHANGED vars
  <2>1. conns' = conns /\ authed' = authed /\ radio' = radio
    BY <1>8 DEF RoutinePush, FactoryReset, SetPaired, Rotate, RotateNotSaved, LoseBond,
                Forgets, vars, ram, link
  <2>2. QED
    BY <2>1, Untouched
<1>9. QED
  BY <1>1, <1>2, <1>3, <1>4, <1>5, <1>6, <1>7, <1>8 DEF Next, HostStep

(* Connections and radio, by induction over the callbacks of rr_ble.c. *)
THEOREM Safe == Spec => []IInv
BY InitIsSafe, StepIsSafe, PTL DEF Spec

(* An authorisation belongs to an open connection whose own peer presented *)
(* the nonce: gap_event_cb resets s_authed_conn wherever a connection      *)
(* begins or ends, whichever one it is.                                    *)
THEOREM AuthorisationEarned == Spec => []AuthorisationIsEarned
<1>1. IInv => AuthorisationIsEarned
  BY DEF IInv, Auth
<1>2. QED
  BY <1>1, Safe, PTL

(* Without a connection the watch advertises, or the back-off timer or the *)
(* refresh will, or NimBLE refused the last attempt, after which advertise *)
(* returns for good: no order of disconnects, failures, retries and        *)
(* interval changes in rr_ble.c alone leaves it silent.                    *)
THEOREM StaysAudible == Spec => []NeverSilent
<1>1. IInv => NeverSilent
  BY DEF IInv, Radio
<1>2. QED
  BY <1>1, Safe, PTL

-----------------------------------------------------------------------------
(***************************************************************************)
(* The rotation of the address.                                            *)
(***************************************************************************)
(* Power does not fail between the new generation and the clearing of the  *)
(* count: there the count of the old address is left to the new one.       *)
NoTornRotation == "bumped" \notin PowerLossPoints

Rotation ==
  /\ nvs \in NvsType /\ seen \in 0..Threshold /\ armed \in BOOLEAN /\ torn \in BOOLEAN
  /\ torn \/ nvs.fails <= seen
  /\ host = "rotate" => nvs.gen < MaxGen /\ nvs.fails >= Needed
  /\ moved => host \in {"bumped", "wiped"}
  /\ host = "wiped" /\ moved => torn \/ nvs.fails = 0

LEMMA CountBounds ==
  ASSUME Rotation
  PROVE  /\ nvs.fails \in 0..Threshold /\ nvs.gen \in 0..MaxGen
         /\ Failures \in 0..Threshold
         /\ Smaller(seen + 1, Threshold) \in 0..Threshold
         /\ torn \/ Failures <= Smaller(seen + 1, Threshold)
<1>1. nvs.fails \in 0..Threshold /\ nvs.gen \in 0..MaxGen /\ seen \in 0..Threshold
  BY DEF Rotation, NvsType
<1>2. Threshold \in Nat
  BY LinkAssumption DEF LinkAssumption
<1>3. QED
  BY <1>1, <1>2 DEF Failures, Smaller, Rotation

LEMMA NewIdentityType == NewIdentity \in NvsType
BY LinkAssumption DEF NewIdentity, NvsType, LinkAssumption

(* What a reset makes of the identity and of its history.                  *)
Erase(left) ==
  /\ nvs' = ErasedBut(left)
  /\ moved' = (\/ "device_id" \notin left
               \/ ("device_id" \in left /\ "ble_gen" \notin left /\ nvs.gen > 0))
  /\ torn' = (left # {} /\ (torn \/ left # IdentityKeys))
  /\ unsaved' = (left # {} /\ unsaved)
  /\ former' \in BOOLEAN
  /\ seen' = IF left = {} THEN 0 ELSE seen

LEMMA ErasesSome ==
  ASSUME NEW h \in Handles, FactoryReset(h)
  PROVE  \E left \in SUBSET IdentityKeys : Erase(left)
<1>1. PICK left \in SUBSET IdentityKeys :
        LET back == "device_id" \in left /\ "ble_gen" \notin left /\ nvs.gen > 0 IN
          /\ nvs' = ErasedBut(left)
          /\ moved' = ("device_id" \notin left \/ back)
          /\ former' = ("device_id" \in left /\ (former \/ back))
          /\ torn' = (left # {} /\ (torn \/ left # IdentityKeys))
          /\ unsaved' = (left # {} /\ unsaved)
          /\ seen' = IF left = {} THEN 0 ELSE seen
  BY DEF FactoryReset
<1> QED
  BY <1>1 DEF Erase

LEMMA ErasedType ==
  ASSUME nvs \in NvsType, NEW left
  PROVE  ErasedBut(left) \in NvsType
<1>1. 0 \in 0..MaxGen /\ 0 \in 0..Threshold
  BY LinkAssumption DEF LinkAssumption
<1> QED
  BY <1>1 DEF ErasedBut, NvsType

LEMMA BootRotation ==
  ASSUME NEW n \in NvsType, NEW b, BootWith(n, b),
         seen' \in 0..Threshold, torn' \in BOOLEAN, torn' \/ n.fails <= seen'
  PROVE  Rotation'
<1>1. nvs' = n /\ host' = "idle" /\ moved' = FALSE
  BY DEF BootWith
<1>2. armed' \in BOOLEAN
  BY DEF BootWith
<1>3. QED
  BY <1>1, <1>2 DEF Rotation

LEMMA FailureRotation ==
  ASSUME Rotation, NEW h \in Handles, EncryptionFails(h)
  PROVE  Rotation'
<1>1. PICK gone \in BOOLEAN, b \in {bonds} \cup {Without(bonds, q) : q \in {conns[h].peer}} :
        HandleFailure(conns[h].peer, b, gone)
  BY DEF EncryptionFails
<1>2. moved' = moved /\ torn' = torn /\ host = "idle"
  BY DEF EncryptionFails, Securing
<1>3. CASE ~Counts(conns[h].peer, b, gone)
  BY <1>1, <1>2, <1>3 DEF HandleFailure, Rotation, Needed
<1>4. CASE Counts(conns[h].peer, b, gone)
  <2>1. /\ nvs' = [nvs EXCEPT !.fails = Failures]
        /\ seen' = Smaller(seen + 1, Threshold)
        /\ host' = IF MayRotate THEN "rotate" ELSE "idle"
        /\ armed' = (armed /\ host' = "rotate")
    BY <1>1, <1>4 DEF HandleFailure
  <2>2. nvs' \in NvsType /\ nvs'.fails = Failures /\ nvs'.gen = nvs.gen
    BY <2>1, CountBounds DEF Rotation, NvsType
  <2>3. ~moved
    BY <1>2 DEF Rotation
  <2>4. host' = "rotate" => nvs'.gen < MaxGen /\ nvs'.fails >= Needed'
    <3>1. ASSUME host' = "rotate" PROVE Failures >= Needed /\ nvs.gen < MaxGen /\ Needed' = Needed
      BY <2>1, <3>1 DEF MayRotate, Needed, Rotation
    <3>2. QED
      BY <2>2, <3>1
  <2>5. host' # "wiped" /\ armed' \in BOOLEAN
    BY <2>1 DEF Rotation
  <2>6. (torn \/ nvs'.fails <= seen') /\ seen' \in 0..Threshold
    BY <2>1, <2>2, CountBounds
  <2>7. torn' \in BOOLEAN
    BY <1>2 DEF Rotation
  <2>8. QED
    BY <1>2, <2>2, <2>3, <2>4, <2>5, <2>6, <2>7 DEF Rotation
<1>5. QED
  BY <1>3, <1>4

\* Steps that leave the rotation alone, but for a peer or the paired flag.
LEMMA RotationUntouched ==
  ASSUME Rotation, seen' = seen, armed' = armed, moved' = moved, torn' = torn,
         host' = host \/ (host \in {"idle", "anchored", "rotate"} /\ host' \in {"idle", "anchored"}),
         \/ nvs' = nvs
         \/ \E h \in Handles : nvs' = Anchor(h) /\ conns[h].peer = Phone
         \/ nvs' = [nvs EXCEPT !.paired = TRUE]
  PROVE  Rotation'
<1>1. nvs' \in NvsType /\ nvs'.fails = nvs.fails /\ nvs'.gen = nvs.gen
  BY DEF Rotation, NvsType, Anchor, Peers
<1>2. Needed' = Needed
  BY DEF Needed
<1>3. QED
  BY <1>1, <1>2 DEF Rotation

LEMMA RotationInit == Init => Rotation
<1> SUFFICES ASSUME Init PROVE Rotation
  OBVIOUS
<1>1. nvs = NewIdentity /\ seen = 0 /\ armed = FALSE /\ moved = FALSE /\ host = "idle" /\ torn = FALSE
  BY DEF Init
<1>2. nvs \in NvsType /\ nvs.fails = 0
  BY <1>1, NewIdentityType DEF NewIdentity
<1>3. seen \in 0..Threshold /\ nvs.fails <= seen
  BY <1>1, <1>2, LinkAssumption DEF LinkAssumption
<1>4. armed \in BOOLEAN /\ torn \in BOOLEAN /\ ~moved /\ host = "idle"
  BY <1>1
<1>5. QED
  BY <1>2, <1>3, <1>4 DEF Rotation

LEMMA RotationStep ==
  ASSUME NoTornRotation
  PROVE  Rotation /\ [Next]_vars => Rotation'
<1> SUFFICES ASSUME Rotation, [Next]_vars PROVE Rotation'
  OBVIOUS
<1>0. Threshold \in Nat /\ MaxGen \in Nat
  BY LinkAssumption DEF LinkAssumption
<1>1. CASE \E h \in Handles : EncryptWithKey(h) \/ PairFresh(h)
  <2>1. PICK h \in Handles : Encrypted(h) /\ host = "idle"
    BY <1>1 DEF EncryptWithKey, PairFresh, Securing
  <2>2. /\ nvs' = [nvs EXCEPT !.fails = 0] /\ armed' = FALSE /\ seen' = 0 /\ moved' = moved
        /\ host' = host /\ torn' = torn
    BY <2>1 DEF Encrypted, FailsAfterSuccess
  <2>3. nvs' \in NvsType /\ nvs'.fails = 0
    BY <1>0, <2>2 DEF Rotation, NvsType
  <2>4. host' = "idle" /\ ~moved' /\ armed' \in BOOLEAN /\ torn' \in BOOLEAN
    BY <2>1, <2>2 DEF Rotation
  <2>5. seen' \in 0..Threshold /\ nvs'.fails <= seen'
    BY <1>0, <2>2, <2>3
  <2>6. QED
    BY <2>3, <2>4, <2>5 DEF Rotation
<1>2. CASE \E h \in Handles : EncryptionFails(h)
  BY <1>2, FailureRotation
<1>3. CASE Rotate
  <2>1. /\ nvs' = [nvs EXCEPT !.gen = @ + 1] /\ host' = "bumped" /\ seen' = seen
        /\ armed' = armed /\ torn' = torn
    BY <1>3 DEF Rotate, ram, history
  <2>2. nvs.gen + 1 \in 0..MaxGen
    BY <1>0, <1>3, CountBounds DEF Rotate, Rotation
  <2>3. nvs' \in NvsType /\ nvs'.fails = nvs.fails
    BY <2>1, <2>2 DEF Rotation, NvsType
  <2>4. QED
    BY <2>1, <2>3 DEF Rotation
<1>4. CASE RotateRestart
  <2> DEFINE n == [nvs EXCEPT !.fails = 0]
  <2>1. n \in NvsType /\ n.fails = 0
    BY <1>0 DEF Rotation, NvsType
  <2>2. BootWith(n, bonds) /\ seen' = 0 /\ torn' = torn
    BY <1>4 DEF RotateRestart
  <2> HIDE DEF n
  <2>3. seen' \in 0..Threshold /\ n.fails <= seen' /\ torn' \in BOOLEAN
    BY <1>0, <2>1, <2>2 DEF Rotation
  <2>4. QED
    BY <2>1, <2>2, <2>3, BootRotation
<1>5. CASE ResetRestart
  BY <1>5, BootRotation DEF ResetRestart, Rotation, history
<1>6. CASE PowerLoss
  <2>1. BootWith(nvs, bonds) /\ host # "bumped" /\ torn' = torn /\ seen' = IF moved THEN 0 ELSE seen
    BY <1>6 DEF PowerLoss, NoTornRotation
  <2>2. seen' \in 0..Threshold /\ torn' \in BOOLEAN /\ (torn' \/ nvs.fails <= seen')
    BY <1>0, <2>1 DEF Rotation
  <2>3. QED
    BY <2>1, <2>2, BootRotation DEF Rotation
<1>7. CASE \E h \in Handles : FactoryReset(h)
  <2>1. PICK h \in Handles : FactoryReset(h)
    BY <1>7
  <2>2. PICK left \in SUBSET IdentityKeys : Erase(left)
    BY <2>1, ErasesSome
  <2>3. host = "idle" /\ host' = "wiped" /\ armed' = armed
    BY <2>1 DEF FactoryReset, ram
  <2>4. nvs' \in NvsType /\ nvs'.fails \in {nvs.fails, 0}
    BY <2>2, ErasedType DEF Rotation, Erase, ErasedBut
  <2>5. seen' \in 0..Threshold /\ torn' \in BOOLEAN /\ seen \in 0..Threshold
    BY <1>0, <2>2 DEF Rotation, Erase
  <2>6. torn' \/ (nvs'.fails <= seen' /\ (moved' => nvs'.fails = 0))
    <3>1. CASE left = {}
      BY <1>0, <2>2, <3>1 DEF Erase, ErasedBut
    <3>2. CASE left = IdentityKeys /\ ~torn
      <4>1. nvs'.fails = nvs.fails /\ seen' = seen /\ ~moved'
        BY <2>2, <3>2 DEF Erase, ErasedBut, IdentityKeys
      <4> QED
        BY <3>2, <4>1 DEF Rotation
    <3>3. CASE left # {} /\ (torn \/ left # IdentityKeys)
      BY <2>2, <3>3 DEF Erase
    <3> QED
      BY <3>1, <3>2, <3>3
  <2> QED
    BY <2>3, <2>4, <2>5, <2>6 DEF Rotation
<1>8. CASE \/ \E h \in Handles : \/ \E p \in Peers : Connect(h, p)
                                \/ Disconnect(h) \/ RoutinePush(h)
           \/ ConnectFails \/ SetPaired \/ RotateNotSaved
           \/ AdvRetry \/ QueueActivity \/ RefreshStart \/ WindowCloses \/ StackRefuses
           \/ \E p \in Peers : LoseBond(p) \/ Forgets(p)
           \/ UNCHANGED vars
  <2>1. /\ seen' = seen /\ armed' = armed /\ moved' = moved /\ torn' = torn
        /\ host' = host \/ (host \in {"anchored", "rotate"} /\ host' = "idle")
        /\ nvs' = nvs \/ nvs' = [nvs EXCEPT !.paired = TRUE]
    BY <1>8 DEF Connect, Disconnect, RoutinePush, ConnectFails, SetPaired, RotateNotSaved,
                AdvRetry, QueueActivity, RefreshStart, WindowCloses, StackRefuses, LoseBond,
                Forgets, vars, ram, link, history
  <2>2. QED
    BY <2>1, RotationUntouched
<1>9. CASE \E h \in Handles : NonceAuth(h)
  BY <1>9, RotationUntouched DEF NonceAuth
<1>10. QED
  BY <1>1, <1>2, <1>3, <1>4, <1>5, <1>6, <1>7, <1>8, <1>9 DEF Next, HostStep, Security

(* The address changes only after Threshold failures in a row, counted     *)
(* across reboots, or one on a watch that booted paired without a bond:    *)
(* handle_encryption_failure's count is never ahead of what happened,      *)
(* unless a reset erased a part of the identity and left the count.        *)
THEOREM RotatesOnlyWhenProven ==
  ASSUME NoTornRotation
  PROVE  Spec => RotationIsProven
<1>1. Rotation /\ [Next]_vars => [nvs'.gen > nvs.gen /\ ~torn => seen >= Needed]_vars
  <2> SUFFICES ASSUME Rotation, Next, nvs'.gen > nvs.gen, ~torn PROVE seen >= Needed
    OBVIOUS
  <2>0. Needed \in Nat
    BY LinkAssumption DEF Needed, LinkAssumption
  <2>1. CASE Rotate
    BY <2>0, <2>1, CountBounds DEF Rotate, Rotation
  <2>2. CASE \E h \in Handles : FactoryReset(h)
    <3>1. nvs'.gen \in {0, nvs.gen}
      BY <2>2 DEF FactoryReset, ErasedBut
    <3>2. QED
      BY <3>1, CountBounds
  <2>3. CASE ~Rotate /\ ~\E h \in Handles : FactoryReset(h)
    <3>1. \/ nvs' = nvs
          \/ \E h \in Handles : nvs' = Anchor(h)
          \/ nvs' = [nvs EXCEPT !.paired = TRUE]
          \/ nvs' = [nvs EXCEPT !.fails = 0]
          \/ nvs' = [nvs EXCEPT !.fails = Failures]
      BY <2>3 DEF Next, HostStep, Security, Connect, Disconnect, EncryptWithKey, PairFresh, Encrypted,
         FailsAfterSuccess, EncryptionFails, HandleFailure, NonceAuth, RoutinePush, ConnectFails,
         SetPaired, RotateNotSaved, RotateRestart, ResetRestart, BootWith, AdvRetry, QueueActivity,
         RefreshStart, WindowCloses, StackRefuses, PowerLoss, LoseBond, Forgets, ram, link, history
    <3>2. nvs'.gen = nvs.gen
      BY <3>1 DEF Rotation, NvsType, Anchor
    <3>3. QED
      BY <3>2, CountBounds
  <2>4. QED
    BY <2>1, <2>2, <2>3
<1>2. QED
  BY <1>1, RotationInit, RotationStep, PTL DEF Spec, RotationIsProven

-----------------------------------------------------------------------------
(***************************************************************************)
(* The paired peer.                                                        *)
(***************************************************************************)
Recorded == nvs.peer # Nobody \/ unsaved \/ torn

NvsShape == [paired : BOOLEAN, peer : Peers \cup {Nobody}, gen : Nat, fails : Nat]

HavePeers == \A h \in Handles : Open(h) => conns[h].peer # Nobody

Pairing ==
  /\ nvs \in NvsShape
  /\ authed # Nobody /\ host # "wiped" => Recorded
  /\ host = "anchored" => Recorded
  /\ HavePeers
  /\ PairedKnowsItsPeer

LEMMA BootPairing ==
  ASSUME NEW n \in NvsShape, NEW b, BootWith(n, b),
         n.paired /\ ~unsaved' /\ ~torn' => n.peer # Nobody
  PROVE  Pairing'
<1>1. nvs' = n /\ host' = "idle" /\ authed' = Nobody /\ conns' = [h \in Handles |-> NoConn]
  BY DEF BootWith
<1>2. HavePeers'
  BY <1>1 DEF HavePeers, Open
<1>3. QED
  BY <1>1, <1>2 DEF Pairing, PairedKnowsItsPeer

\* A connection changes in place and keeps its peer.
LEMMA PeersStay ==
  ASSUME IInv, HavePeers, NEW h \in Handles, conns[h].peer # Nobody,
         NEW c \in ConnType, c.peer = conns[h].peer, conns' = [conns EXCEPT ![h] = c]
  PROVE  HavePeers'
BY DEF IInv, Auth, HavePeers, Open

\* The step touches neither the connections nor the pairing.
LEMMA PairingUntouched ==
  ASSUME Pairing, HavePeers', authed' = authed \/ authed' = Nobody, unsaved' = unsaved, torn' = torn,
         host' = host \/ (host # "wiped" /\ host' \notin {"anchored", "wiped"}),
         nvs' \in NvsShape, nvs'.paired = nvs.paired, nvs'.peer = nvs.peer
  PROVE  Pairing'
BY DEF Pairing, Recorded, PairedKnowsItsPeer

LEMMA SecurityPairing ==
  ASSUME IInv, Pairing, NEW h \in Handles, Security(h)
  PROVE  Pairing'
<1>1. conns[h] \in ConnType /\ Securing(h) /\ host = "idle"
  BY DEF IInv, Auth, Security, EncryptWithKey, PairFresh, EncryptionFails, Securing
<1>2. conns[h].peer # Nobody /\ HavePeers
  BY <1>1 DEF Pairing, HavePeers, Securing
<1>3. Threshold \in Nat
  BY LinkAssumption DEF LinkAssumption
<1>4. CASE Encrypted(h)
  <2> DEFINE c == [conns[h] EXCEPT !.encrypted = TRUE]
  <2>1. c \in ConnType /\ c.peer = conns[h].peer
    BY <1>1 DEF ConnType
  <2>2. conns' = [conns EXCEPT ![h] = c]
    BY <1>4 DEF Encrypted
  <2> HIDE DEF c
  <2>3. HavePeers'
    BY <1>2, <2>1, <2>2, PeersStay
  <2>4. nvs' \in NvsShape /\ nvs'.paired = nvs.paired /\ nvs'.peer = nvs.peer
    BY <1>4 DEF Encrypted, FailsAfterSuccess, Pairing, NvsShape
  <2>5. authed' = authed /\ unsaved' = unsaved /\ torn' = torn /\ host' = host
    BY <1>4 DEF Encrypted
  <2>6. QED
    BY <2>3, <2>4, <2>5, PairingUntouched
<1>5. CASE EncryptionFails(h)
  <2> DEFINE c == [conns[h] EXCEPT !.broken = TRUE]
  <2>1. c \in ConnType /\ c.peer = conns[h].peer
    BY <1>1 DEF ConnType
  <2>2. conns' = [conns EXCEPT ![h] = c] /\ authed' = authed /\ unsaved' = unsaved /\ torn' = torn
    BY <1>5 DEF EncryptionFails
  <2> HIDE DEF c
  <2>3. HavePeers'
    BY <1>2, <2>1, <2>2, PeersStay
  <2>4. nvs' = nvs \/ nvs' = [nvs EXCEPT !.fails = Failures]
    BY <1>5 DEF EncryptionFails, HandleFailure
  <2>5. Failures \in Nat
    BY <1>3 DEF Failures, Smaller, Pairing, NvsShape
  <2>6. nvs' \in NvsShape /\ nvs'.paired = nvs.paired /\ nvs'.peer = nvs.peer
    BY <2>4, <2>5 DEF Pairing, NvsShape
  <2>7. host' = host \/ host' \in {"rotate", "idle"}
    BY <1>5 DEF EncryptionFails, HandleFailure
  <2>8. QED
    BY <1>1, <2>2, <2>3, <2>6, <2>7, PairingUntouched
<1>6. QED
  BY <1>4, <1>5 DEF Security, EncryptWithKey, PairFresh

LEMMA NoncePairing ==
  ASSUME IInv, Pairing, NEW h \in Handles, NonceAuth(h)
  PROVE  Pairing'
<1> DEFINE c == [conns[h] EXCEPT !.nonce = TRUE]
<1>1. conns[h] \in ConnType /\ conns[h].peer = Phone /\ Phone # Nobody
  BY LinkAssumption DEF IInv, Auth, NonceAuth, LinkAssumption, Peers
<1>2. c \in ConnType /\ c.peer = conns[h].peer
  BY <1>1 DEF ConnType
<1>3. conns' = [conns EXCEPT ![h] = c]
  BY DEF NonceAuth
<1> HIDE DEF c
<1>4. HavePeers'
  BY <1>1, <1>2, <1>3, PeersStay DEF Pairing
<1>5. \/ nvs' = [nvs EXCEPT !.peer = Phone] /\ unsaved' = unsaved
      \/ nvs' = nvs /\ unsaved' = TRUE
  BY <1>1 DEF NonceAuth, Anchor
<1>6. nvs' \in NvsShape /\ (nvs'.peer = Phone \/ unsaved' = TRUE)
  BY <1>5 DEF Pairing, NvsShape, Peers
<1>7. QED
  BY <1>1, <1>4, <1>6 DEF Pairing, Recorded, PairedKnowsItsPeer

LEMMA PushPairing ==
  ASSUME IInv, Pairing, NEW h \in Handles, RoutinePush(h)
  PROVE  Pairing'
<1>1. host = "idle" /\ Authorised(h) /\ nvs' = [nvs EXCEPT !.paired = TRUE]
  BY DEF RoutinePush
<1>2. UNCHANGED <<conns, authed, host, unsaved, torn>>
  BY DEF RoutinePush, ram, link, history
<1>3. Recorded
  <2>1. CASE authed = h
    BY <1>1, <2>1, LinkAssumption DEF Pairing, LinkAssumption
  <2>2. CASE conns[h].encrypted /\ conns[h].peer = nvs.peer
    <3>1. Open(h)
      BY <2>2 DEF Open, NoConn
    <3>2. QED
      BY <2>2, <3>1 DEF Pairing, HavePeers, Recorded
  <2>3. QED
    BY <1>1, <2>1, <2>2 DEF Authorised
<1>4. nvs' \in NvsShape /\ nvs'.peer = nvs.peer
  BY <1>1 DEF Pairing, NvsShape
<1>5. HavePeers'
  BY <1>2 DEF Pairing, HavePeers, Open
<1>6. Recorded'
  BY <1>2, <1>3, <1>4 DEF Recorded
<1>7. QED
  BY <1>4, <1>5, <1>6 DEF Pairing, Recorded, PairedKnowsItsPeer

LEMMA PairingInit == Init => Pairing
<1> SUFFICES ASSUME Init PROVE Pairing
  OBVIOUS
<1>1. nvs = NewIdentity /\ authed = Nobody /\ host = "idle" /\ conns = [h \in Handles |-> NoConn]
  BY DEF Init
<1>2. HavePeers
  BY <1>1 DEF HavePeers, Open
<1>3. QED
  BY <1>1, <1>2 DEF Pairing, PairedKnowsItsPeer, NewIdentity, NvsShape

LEMMA PairingStep == IInv /\ Pairing /\ [Next]_vars => Pairing'
<1> SUFFICES ASSUME IInv, Pairing, [Next]_vars PROVE Pairing'
  OBVIOUS
<1>1. CASE \E h \in Handles : Security(h)
  BY <1>1, SecurityPairing
<1>2. CASE \E h \in Handles : NonceAuth(h)
  BY <1>2, NoncePairing
<1>3. CASE \E h \in Handles : RoutinePush(h)
  BY <1>3, PushPairing
<1>4. CASE SetPaired
  <2>1. nvs' = [nvs EXCEPT !.paired = TRUE] /\ host = "anchored"
    BY <1>4 DEF SetPaired
  <2>2. UNCHANGED <<conns, authed, unsaved, torn>>
    BY <1>4 DEF SetPaired, ram, link, history
  <2>3. nvs' \in NvsShape /\ nvs'.peer = nvs.peer /\ HavePeers'
    BY <2>1, <2>2 DEF Pairing, NvsShape, HavePeers, Open
  <2>4. Recorded'
    BY <2>1, <2>2, <2>3 DEF Pairing, Recorded
  <2>5. QED
    BY <2>3, <2>4 DEF Pairing, Recorded, PairedKnowsItsPeer
<1>5. CASE Rotate
  <2>1. nvs' \in NvsShape /\ nvs'.paired = nvs.paired /\ nvs'.peer = nvs.peer
    BY <1>5 DEF Rotate, Pairing, NvsShape
  <2>2. UNCHANGED <<conns, authed, unsaved, torn>> /\ host = "rotate" /\ host' = "bumped"
    BY <1>5 DEF Rotate, ram, link, history
  <2>3. HavePeers'
    BY <2>2 DEF Pairing, HavePeers, Open
  <2>4. QED
    BY <2>1, <2>2, <2>3, PairingUntouched
<1>6. CASE RotateRestart
  <2> DEFINE n == [nvs EXCEPT !.fails = 0]
  <2>1. n \in NvsShape /\ n.paired = nvs.paired /\ n.peer = nvs.peer
    BY DEF Pairing, NvsShape
  <2>2. BootWith(n, bonds) /\ unsaved' = unsaved /\ torn' = torn
    BY <1>6 DEF RotateRestart
  <2> HIDE DEF n
  <2>3. QED
    BY <2>1, <2>2, BootPairing DEF Pairing, PairedKnowsItsPeer
<1>7. CASE ResetRestart \/ PowerLoss
  <2>1. PICK b : BootWith(nvs, b)
    BY <1>7 DEF ResetRestart, PowerLoss
  <2>2. unsaved' = unsaved /\ torn' = torn
    BY <1>7 DEF ResetRestart, PowerLoss, history
  <2>3. QED
    BY <2>1, <2>2, BootPairing DEF Pairing, PairedKnowsItsPeer
<1>8. CASE \E h \in Handles : FactoryReset(h)
  <2>1. PICK h \in Handles : FactoryReset(h)
    BY <1>8
  <2>2. PICK left \in SUBSET IdentityKeys : Erase(left)
    BY <2>1, ErasesSome
  <2>3. host' = "wiped" /\ UNCHANGED <<conns, authed>>
    BY <2>1 DEF FactoryReset, ram, link
  <2>4. HavePeers'
    BY <2>3 DEF Pairing, HavePeers, Open
  <2>5. nvs' \in NvsShape
    BY <2>2 DEF Erase, ErasedBut, Pairing, NvsShape
  <2>6. PairedKnowsItsPeer'
    <3>1. CASE left = {}
      BY <2>2, <3>1 DEF Erase, ErasedBut, PairedKnowsItsPeer
    <3>2. CASE left = IdentityKeys /\ ~torn
      <4>1. nvs'.paired = nvs.paired /\ nvs'.peer = nvs.peer /\ (unsaved' <=> unsaved)
        <5>1. nvs'.paired = nvs.paired /\ nvs'.peer = nvs.peer
          BY <2>2, <3>2 DEF Erase, ErasedBut, IdentityKeys, Pairing, NvsShape
        <5>2. unsaved' <=> unsaved
          BY <2>2, <3>2 DEF Erase, IdentityKeys
        <5> QED
          BY <5>1, <5>2
      <4> QED
        BY <3>2, <4>1 DEF Pairing, PairedKnowsItsPeer
    <3>3. CASE left # {} /\ (torn \/ left # IdentityKeys)
      BY <2>2, <3>3 DEF Erase, PairedKnowsItsPeer
    <3> QED
      BY <3>1, <3>2, <3>3
  <2> QED
    BY <2>3, <2>4, <2>5, <2>6 DEF Pairing
<1>9. CASE \E h \in Handles, p \in Peers : Connect(h, p)
  <2>1. PICK h \in Handles, p \in Peers : Connect(h, p)
    BY <1>9
  <2>2. UNCHANGED <<nvs, host, unsaved, torn>> /\ authed' = Nobody
    BY <2>1 DEF Connect, history
  <2>3. conns' = [conns EXCEPT ![h] = [NoConn EXCEPT !.peer = p]]
    BY <2>1 DEF Connect
  <2>4. [NoConn EXCEPT !.peer = p].peer = p /\ p # Nobody
    BY PeersAreSomebody DEF NoConn
  <2>5. HavePeers'
    BY <2>3, <2>4 DEF Pairing, HavePeers, Open, IInv, Auth
  <2>6. QED
    BY <2>2, <2>5, PairingUntouched DEF Pairing
<1>10. CASE \E h \in Handles : Disconnect(h)
  <2>1. PICK h \in Handles : Disconnect(h)
    BY <1>10
  <2>2. UNCHANGED <<nvs, host, unsaved, torn>> /\ authed' = Nobody /\ conns' = [conns EXCEPT ![h] = NoConn]
    BY <2>1 DEF Disconnect, AuthAfterDisconnect, history
  <2>3. HavePeers'
    BY <2>2 DEF Pairing, HavePeers, Open, IInv, Auth
  <2>4. QED
    BY <2>2, <2>3, PairingUntouched DEF Pairing
<1>11. CASE \/ ConnectFails \/ RotateNotSaved
            \/ AdvRetry \/ QueueActivity \/ RefreshStart \/ WindowCloses \/ StackRefuses
            \/ \E p \in Peers : LoseBond(p) \/ Forgets(p)
            \/ UNCHANGED vars
  <2>1. UNCHANGED <<nvs, conns, authed, unsaved, torn>>
    BY <1>11 DEF ConnectFails, RotateNotSaved, AdvRetry, QueueActivity, RefreshStart,
                 WindowCloses, StackRefuses, LoseBond, Forgets, vars, ram, link, history
  <2>2. host' = host \/ (host = "rotate" /\ host' = "idle")
    BY <1>11 DEF ConnectFails, RotateNotSaved, AdvRetry, QueueActivity, RefreshStart,
                 WindowCloses, StackRefuses, LoseBond, Forgets, vars, ram, link, history
  <2>3. HavePeers'
    BY <2>1 DEF Pairing, HavePeers, Open
  <2>4. QED
    BY <2>1, <2>2, <2>3, PairingUntouched DEF Pairing
<1>12. QED
  BY <1>1, <1>2, <1>3, <1>4, <1>5, <1>6, <1>7, <1>8, <1>9, <1>10, <1>11 DEF Next, HostStep

(* A paired watch knows its phone, after a power cut at any point of       *)
(* nonce_auth and of the factory reset: the peer is written before the     *)
(* flag, and nobody without a nonce can set the flag on a watch that has   *)
(* no peer.  A reset whose erase stopped half way is excepted.             *)
THEOREM PeerKnown == Spec => []PairedKnowsItsPeer
<1>1. Pairing => PairedKnowsItsPeer
  BY DEF Pairing
<1>2. QED
  BY <1>1, Safe, PairingInit, PairingStep, PTL DEF Spec


-----------------------------------------------------------------------------
(***************************************************************************)
(* The bond store: its types, under power loss at every point, and what    *)
(* becomes of the paired phone's bond.                                     *)
(***************************************************************************)
Stores == {b \in Seq(Peers) : IsInjective(b)}

-----------------------------------------------------------------------------
(***************************************************************************)
(* Taking a bond out, and putting one in.                                  *)
(***************************************************************************)
LEMMA StoreFacts ==
  ASSUME NEW b \in Stores
  PROVE  /\ b \in Seq(Peers) /\ Len(b) \in Nat /\ DOMAIN b = 1..Len(b)
         /\ \A i, j \in 1..Len(b) : b[i] = b[j] => i = j
BY DEF Stores, IsInjective

LEMMA WithoutBond ==
  ASSUME NEW b \in Stores, NEW p \in Peers
  PROVE  /\ Without(b, p) \in Stores
         /\ ToSet(Without(b, p)) = ToSet(b) \ {p}
         /\ Len(Without(b, p)) <= Len(b)
         /\ p \in ToSet(b) => Len(Without(b, p)) = Len(b) - 1
<1>1. CASE p \notin ToSet(b)
  <2>1. Without(b, p) = b
    BY <1>1 DEF Without
  <2> QED
    BY <1>1, <2>1, StoreFacts
<1>2. CASE p \in ToSet(b)
  <2> DEFINE k == CHOOSE i \in DOMAIN b : b[i] = p
             n == Len(b)
             c == Without(b, p)
  <2>1. k \in DOMAIN b /\ b[k] = p
    BY <1>2 DEF ToSet
  <2>2. c = SubSeq(b, 1, k - 1) \o SubSeq(b, k + 1, n)
    BY <1>2 DEF Without, RemoveAt
  <2>3. b \in Seq(Peers) /\ n \in Nat /\ k \in 1..n /\ \A i, j \in 1..n : b[i] = b[j] => i = j
    BY <2>1, StoreFacts
  <2> HIDE DEF k, c, n
  <2>4. /\ SubSeq(b, 1, k - 1) \in Seq(Peers) /\ Len(SubSeq(b, 1, k - 1)) = k - 1
        /\ \A i \in 1..(k - 1) : SubSeq(b, 1, k - 1)[i] = b[i]
    BY <2>3, StoreFacts DEF n
  <2>5. /\ SubSeq(b, k + 1, n) \in Seq(Peers) /\ Len(SubSeq(b, k + 1, n)) = n - k
        /\ \A i \in 1..(n - k) : SubSeq(b, k + 1, n)[i] = b[k + i]
    BY <2>3, StoreFacts DEF n
  <2>6. c \in Seq(Peers) /\ Len(c) = n - 1
    BY <2>2, <2>3, <2>4, <2>5
  <2>7. \A i \in 1..(n - 1) : c[i] = IF i < k THEN b[i] ELSE b[i + 1]
    <3> SUFFICES ASSUME NEW i \in 1..(n - 1) PROVE c[i] = IF i < k THEN b[i] ELSE b[i + 1]
      OBVIOUS
    <3>1. CASE i < k
      BY <2>2, <2>3, <2>4, <2>5, <3>1
    <3>2. CASE ~(i < k)
      <4>1. i - (k - 1) \in 1..(n - k) /\ k + (i - (k - 1)) = i + 1
        BY <2>3, <3>2
      <4>2. c[i] = SubSeq(b, k + 1, n)[i - (k - 1)]
        <5> DEFINE s == SubSeq(b, 1, k - 1)
                   t == SubSeq(b, k + 1, n)
        <5>1. s \in Seq(Peers) /\ t \in Seq(Peers) /\ Len(s) = k - 1 /\ Len(t) = n - k
          BY <2>4, <2>5
        <5>2. c = s \o t
          BY <2>2
        <5> HIDE DEF s, t
        <5>3. i \in 1..(Len(s) + Len(t)) /\ i > Len(s)
          BY <2>3, <3>2, <5>1
        <5>4. c[i] = t[i - Len(s)]
          BY <5>1, <5>2, <5>3
        <5> QED
          BY <5>1, <5>4 DEF t
      <4> QED
        BY <2>5, <3>2, <4>1, <4>2
    <3> QED
      BY <3>1, <3>2
  <2>8. IsInjective(c)
    <3> SUFFICES ASSUME NEW i \in 1..(n - 1), NEW j \in 1..(n - 1), c[i] = c[j] PROVE i = j
      BY <2>3, <2>6 DEF IsInjective
    <3> DEFINE x == IF i < k THEN i ELSE i + 1
               y == IF j < k THEN j ELSE j + 1
    <3>1. x \in 1..n /\ y \in 1..n /\ b[x] = b[y]
      BY <2>3, <2>7
    <3>2. x = y
      BY <2>3, <3>1
    <3> QED
      BY <2>3, <3>2
  <2>9. ToSet(c) = ToSet(b) \ {p}
    <3>1. ASSUME NEW i \in 1..(n - 1) PROVE c[i] \in ToSet(b) /\ c[i] # p
      <4> DEFINE x == IF i < k THEN i ELSE i + 1
      <4>1. x \in 1..n /\ x # k /\ c[i] = b[x]
        BY <2>3, <2>7
      <4>2. b[x] # p
        BY <2>1, <2>3, <4>1
      <4> QED
        BY <2>3, <4>1, <4>2, StoreFacts DEF ToSet, n
    <3>2. ASSUME NEW x \in 1..n, b[x] # p PROVE b[x] \in ToSet(c)
      <4> DEFINE i == IF x < k THEN x ELSE x - 1
      <4>1. x # k
        BY <2>1, <3>2
      <4>2. i \in 1..(n - 1) /\ c[i] = b[x]
        BY <2>3, <2>7, <4>1
      <4> QED
        BY <2>3, <2>6, <4>2 DEF ToSet
    <3>3. ToSet(c) \subseteq ToSet(b) \ {p}
      BY <2>3, <2>6, <3>1 DEF ToSet
    <3>4. ToSet(b) \ {p} \subseteq ToSet(c)
      BY <3>2, StoreFacts DEF ToSet, n
    <3> QED
      BY <3>3, <3>4
  <2> QED
    BY <1>2, <2>3, <2>6, <2>8, <2>9 DEF Stores, c, n
<1> QED
  BY <1>1, <1>2

LEMMA AddBond ==
  ASSUME NEW b \in Stores, NEW p \in Peers, p \notin ToSet(b)
  PROVE  /\ Append(b, p) \in Stores
         /\ Len(Append(b, p)) = Len(b) + 1
         /\ ToSet(Append(b, p)) = ToSet(b) \cup {p}
<1> DEFINE n == Len(b)
           a == Append(b, p)
<1>1. b \in Seq(Peers) /\ n \in Nat /\ \A i, j \in 1..n : b[i] = b[j] => i = j
  BY StoreFacts
<1>2. \A i \in 1..n : b[i] # p
  BY <1>1 DEF ToSet
<1>3. /\ a \in Seq(Peers) /\ Len(a) = n + 1 /\ a[n + 1] = p
      /\ \A i \in 1..n : a[i] = b[i]
  BY <1>1
<1> HIDE DEF a
<1>4. IsInjective(a)
  BY <1>1, <1>2, <1>3 DEF IsInjective
<1>5. ToSet(a) = ToSet(b) \cup {p}
  <2>1. ToSet(a) \subseteq ToSet(b) \cup {p}
    BY <1>1, <1>3 DEF ToSet
  <2>2. p \in ToSet(a)
    BY <1>1, <1>3 DEF ToSet
  <2>3. ToSet(b) \subseteq ToSet(a)
    BY <1>1, <1>3 DEF ToSet
  <2> QED
    BY <2>1, <2>2, <2>3
<1> QED
  BY <1>3, <1>4, <1>5 DEF Stores, a

\* The store has a bond to give up, and the paired peer's is the last choice.
LEMMA EvictedBond ==
  ASSUME NEW b \in Stores, b # <<>>
  PROVE  /\ Evicted(b) \in ToSet(b)
         /\ Len(b) > 1 => Evicted(b) # nvs.peer
<1> DEFINE other(i) == b[i] # nvs.peer /\ \A j \in 1..(i - 1) : b[j] = nvs.peer
<1>1. b \in Seq(Peers) /\ Len(b) \in Nat /\ Len(b) # 0 /\ \A i, j \in 1..Len(b) : b[i] = b[j] => i = j
  BY StoreFacts
<1>2. CASE \E i \in DOMAIN b : b[i] # nvs.peer
  <2>1. \E i \in DOMAIN b : other(i)
    <3>1. CASE b[1] # nvs.peer
      BY <1>1, <3>1
    <3>2. CASE b[1] = nvs.peer
      <4>1. PICK i \in 1..Len(b) : b[i] # nvs.peer
        BY <1>1, <1>2
      <4>2. 2 \in 1..Len(b) /\ 1 \in 1..Len(b)
        BY <1>1, <3>2, <4>1
      <4>3. b[2] # nvs.peer
        BY <1>1, <3>2, <4>2
      <4>4. \A j \in 1..(2 - 1) : j = 1
        OBVIOUS
      <4> QED
        BY <1>1, <3>2, <4>2, <4>3, <4>4
    <3> QED
      BY <3>1, <3>2
  <2>2. Evicted(b) = b[CHOOSE i \in DOMAIN b : other(i)]
    BY <1>2 DEF Evicted
  <2> QED
    BY <2>1, <2>2 DEF ToSet
<1>3. CASE ~\E i \in DOMAIN b : b[i] # nvs.peer
  <2>1. Evicted(b) = b[1] /\ 1 \in DOMAIN b
    BY <1>1, <1>3 DEF Evicted
  <2>2. ~(Len(b) > 1)
    <3> SUFFICES ASSUME Len(b) > 1 PROVE FALSE
      OBVIOUS
    <3>1. 1 \in 1..Len(b) /\ 2 \in 1..Len(b)
      BY <1>1
    <3> QED
      BY <1>1, <1>3, <3>1
  <2> QED
    BY <2>1, <2>2 DEF ToSet
<1> QED
  BY <1>2, <1>3

-----------------------------------------------------------------------------
(***************************************************************************)
(* The types.                                                              *)
(***************************************************************************)
GoodIsBonded == \A p \in Peers : keys[p] = "good" => Bonded(p)

Bonding ==
  /\ bonds \in Stores /\ Len(bonds) <= MaxBonds
  /\ keys \in [Peers -> {"none", "good", "stale"}]
  /\ GoodIsBonded

Flags ==
  /\ nvs \in NvsType
  /\ moved \in BOOLEAN
  /\ current \in Handles \cup {Nobody}
  /\ armed \in BOOLEAN /\ qr \in BOOLEAN
  /\ host \in HostPoints
  /\ seen \in 0..Threshold /\ unsaved \in BOOLEAN
  /\ torn \in BOOLEAN /\ former \in BOOLEAN
  /\ host = "rotate" => nvs.gen < MaxGen

Typed == IInv /\ Bonding /\ Flags

LEMMA Numbers ==
  /\ Threshold \in Nat /\ MaxGen \in Nat /\ MaxBonds \in Nat /\ MaxBonds > 0
  /\ 0 \in 0..Threshold
BY LinkAssumption DEF LinkAssumption

LEMMA BootTyped ==
  ASSUME Typed, NEW n \in NvsType, NEW b \in {bonds, <<>>}, BootWith(n, b),
         seen' \in 0..Threshold, unsaved' \in BOOLEAN, torn' \in BOOLEAN, former' \in BOOLEAN
  PROVE  Bonding' /\ Flags'
<1>1. /\ nvs' = n /\ bonds' = b /\ moved' = FALSE /\ current' = Nobody /\ host' = "idle"
      /\ armed' = (n.paired /\ b = <<>>) /\ qr' = ~n.paired
      /\ keys' \in KeysAfterBoot(b)
  BY DEF BootWith
<1>2. <<>> \in Stores /\ Len(<<>>) <= MaxBonds
  BY Numbers DEF Stores, IsInjective
<1>3. Bonding'
  <2>1. bonds' \in Stores /\ Len(bonds') <= MaxBonds
    BY <1>1, <1>2 DEF Typed, Bonding
  <2>2. /\ keys' \in [Peers -> {"none", "good", "stale"}]
        /\ \A p \in Peers : keys'[p] = "good" => p \in ToSet(b)
    <3>1. CASE moved
      BY <1>1, <3>1 DEF KeysAfterBoot
    <3>2. CASE ~moved
      <4>1. keys' = [p \in Peers |-> IF keys[p] = "good" /\ p \notin ToSet(b) THEN "stale" ELSE keys[p]]
        BY <1>1, <3>2 DEF KeysAfterBoot
      <4> QED
        BY <4>1 DEF Typed, Bonding
    <3> QED
      BY <3>1, <3>2
  <2>3. GoodIsBonded'
    BY <1>1, <2>2 DEF GoodIsBonded, Bonded
  <2> QED
    BY <2>1, <2>2, <2>3 DEF Bonding
<1>4. n.paired \in BOOLEAN
  BY DEF NvsType
<1>5. Flags'
  BY <1>1, <1>4 DEF Flags, HostPoints
<1> QED
  BY <1>3, <1>5

LEMMA BondingUntouched ==
  ASSUME Bonding, UNCHANGED <<bonds, keys>>
  PROVE  Bonding'
BY DEF Bonding, GoodIsBonded, Bonded

\* One bond goes, and the key that had it is no longer good.
LEMMA BondGoes ==
  ASSUME Bonding, NEW p \in Peers, NEW k \in {"none", "stale"},
         bonds' = Without(bonds, p), keys' = [keys EXCEPT ![p] = k]
  PROVE  Bonding'
<1>1. /\ bonds' \in Stores /\ ToSet(bonds') = ToSet(bonds) \ {p} /\ Len(bonds') <= Len(bonds)
      /\ Len(bonds) \in Nat /\ Len(bonds') \in Nat
  BY WithoutBond, StoreFacts DEF Bonding
<1>2. Len(bonds') <= MaxBonds
  BY <1>1, Numbers DEF Bonding
<1>3. keys' \in [Peers -> {"none", "good", "stale"}]
  BY DEF Bonding
<1>4. GoodIsBonded'
  BY <1>1 DEF Bonding, GoodIsBonded, Bonded
<1> QED
  BY <1>1, <1>2, <1>3, <1>4 DEF Bonding

\* What pairing makes of the store: the new bond is in it, and only a full
\* store gave up another.
LEMMA PairedStore ==
  ASSUME Bonding, NEW h \in Handles, conns[h].peer \in Peers, PairFresh(h)
  PROVE  /\ bonds' \in Stores /\ Len(bonds') <= MaxBonds
         /\ conns[h].peer \in ToSet(bonds')
         /\ MaxBonds > 1 /\ nvs.peer \in ToSet(bonds) => nvs.peer \in ToSet(bonds')
         /\ \A q \in Peers : keys'[q] = "good" => q \in ToSet(bonds')
         /\ keys' \in [Peers -> {"none", "good", "stale"}]
<1> DEFINE p    == conns[h].peer
           kept == Without(bonds, p)
           room == IF Len(kept) < MaxBonds THEN kept ELSE Without(kept, Evicted(kept))
<1>1. /\ bonds' = Append(room, p)
      /\ keys' = [q \in Peers |-> IF q = p THEN "good"
                                  ELSE IF keys[q] = "good" /\ q \notin ToSet(room) THEN "stale"
                                  ELSE keys[q]]
  BY DEF PairFresh
<1>2. /\ kept \in Stores /\ ToSet(kept) = ToSet(bonds) \ {p} /\ Len(kept) <= Len(bonds)
      /\ Len(bonds) \in Nat /\ Len(kept) \in Nat /\ Len(bonds) <= MaxBonds
  BY WithoutBond, StoreFacts DEF Bonding
<1> HIDE DEF kept
<1>3. /\ room \in Stores /\ ToSet(room) \subseteq ToSet(kept) /\ Len(room) < MaxBonds
      /\ Len(room) \in Nat
      /\ MaxBonds > 1 /\ nvs.peer \in ToSet(kept) => nvs.peer \in ToSet(room)
  <2>1. CASE Len(kept) < MaxBonds
    <3>1. room = kept
      BY <2>1
    <3> QED
      BY <1>2, <2>1, <3>1
  <2>2. CASE ~(Len(kept) < MaxBonds)
    <3> DEFINE e == Evicted(kept)
    <3>1. room = Without(kept, e)
      BY <2>2
    <3>2. kept # <<>> /\ Len(kept) = MaxBonds
      BY <1>2, <2>2, Numbers
    <3>3. e \in ToSet(kept) /\ (Len(kept) > 1 => e # nvs.peer)
      BY <1>2, <3>2, EvictedBond
    <3>4. e \in Peers
      BY <1>2, <3>3, StoreFacts DEF ToSet
    <3> HIDE DEF e
    <3>5. room \in Stores /\ ToSet(room) = ToSet(kept) \ {e} /\ Len(room) = Len(kept) - 1
      BY <1>2, <3>1, <3>3, <3>4, WithoutBond
    <3> QED
      BY <1>2, <3>2, <3>3, <3>5, Numbers, StoreFacts
  <2> QED
    BY <2>1, <2>2
<1> HIDE DEF room
<1>4. p \notin ToSet(room) /\ p \in Peers
  BY <1>2, <1>3
<1>5. /\ bonds' \in Stores /\ Len(bonds') = Len(room) + 1 /\ ToSet(bonds') = ToSet(room) \cup {p}
  BY <1>1, <1>3, <1>4, AddBond
<1>6. Len(bonds') <= MaxBonds
  BY <1>3, <1>5, Numbers
<1>7. keys' \in [Peers -> {"none", "good", "stale"}]
  BY <1>1 DEF Bonding
<1>8. \A q \in Peers : keys'[q] = "good" => q \in ToSet(bonds')
  BY <1>1, <1>5
<1>9. MaxBonds > 1 /\ nvs.peer \in ToSet(bonds) => nvs.peer \in ToSet(bonds')
  BY <1>2, <1>3, <1>5
<1> QED
  BY <1>5, <1>6, <1>7, <1>8, <1>9

-----------------------------------------------------------------------------
(***************************************************************************)
(* The steps.                                                              *)
(***************************************************************************)
\* The step leaves the pairing and the counts alone.
LEMMA FlagsKept ==
  ASSUME Flags, UNCHANGED <<moved, armed, qr, seen, unsaved, torn, former>>,
         nvs' \in NvsType, host' \in {host, "idle", "anchored"}, nvs'.gen = nvs.gen,
         current' \in Handles \cup {Nobody}
  PROVE  Flags'
BY DEF Flags, HostPoints

LEMMA FailureFlags ==
  ASSUME Flags, NEW h \in Handles, EncryptionFails(h)
  PROVE  Flags'
<1>0. PICK gone \in BOOLEAN : \E b : HandleFailure(conns[h].peer, b, gone)
  BY DEF EncryptionFails
<1>1. PICK b : HandleFailure(conns[h].peer, b, gone)
  BY <1>0
<1>2. UNCHANGED <<moved, current, qr, unsaved, torn, former>> /\ host = "idle"
  BY DEF EncryptionFails, Securing
<1>3. CASE UNCHANGED <<nvs, armed, host, seen>>
  BY <1>2, <1>3 DEF Flags
<1>4. CASE /\ nvs' = [nvs EXCEPT !.fails = Failures]
           /\ seen' = Smaller(seen + 1, Threshold)
           /\ host' = IF MayRotate THEN "rotate" ELSE "idle"
           /\ armed' = (armed /\ host' = "rotate")
  <2>1. Failures \in 0..Threshold /\ seen' \in 0..Threshold
    BY <1>4, Numbers DEF Failures, Smaller, Flags, NvsType
  <2>2. nvs' \in NvsType /\ nvs'.gen = nvs.gen
    BY <1>4, <2>1 DEF Flags, NvsType
  <2>3. host' \in {"rotate", "idle"} /\ (host' = "rotate" => nvs'.gen < MaxGen) /\ armed' \in BOOLEAN
    <3>1. host' = "rotate" => MayRotate
      BY <1>4
    <3>2. armed' \in BOOLEAN
      BY <1>4 DEF Flags
    <3>3. host' \in {"rotate", "idle"}
      BY <1>4
    <3> QED
      BY <2>2, <3>1, <3>2, <3>3 DEF MayRotate
  <2> QED
    BY <1>2, <2>1, <2>2, <2>3 DEF Flags, HostPoints
<1> QED
  BY <1>1, <1>3, <1>4 DEF HandleFailure

\* A failed procedure: the store is as it was or without the peer's bond, and
\* its key is good only if the bond is still there.
LEMMA FailureBonding ==
  ASSUME Bonding, NEW h \in Handles, conns[h].peer \in Peers, EncryptionFails(h)
  PROVE  Bonding' /\ ToSet(bonds) \ {conns[h].peer} \subseteq ToSet(bonds')
<1> DEFINE p == conns[h].peer
           w == Without(bonds, p)
<1>1. PICK gone \in BOOLEAN, b \in {bonds, w} : HandleFailure(p, b, gone)
  BY DEF EncryptionFails
<1>2. bonds' = b \/ bonds' = Without(b, p)
  BY <1>1 DEF HandleFailure
<1>3. /\ w \in Stores /\ ToSet(w) = ToSet(bonds) \ {p} /\ Len(w) <= Len(bonds)
      /\ Len(bonds) \in Nat /\ Len(w) \in Nat /\ bonds \in Stores /\ Len(bonds) <= MaxBonds
  BY WithoutBond, StoreFacts DEF Bonding
<1> HIDE DEF w
<1>4. /\ b \in Stores /\ ToSet(bonds) \ {p} \subseteq ToSet(b) /\ Len(b) <= MaxBonds /\ Len(b) \in Nat
  BY <1>1, <1>3, Numbers
<1>5. /\ Without(b, p) \in Stores /\ ToSet(Without(b, p)) = ToSet(b) \ {p}
      /\ Len(Without(b, p)) <= Len(b) /\ Len(Without(b, p)) \in Nat
  BY <1>4, WithoutBond, StoreFacts
<1>6. /\ bonds' \in Stores /\ Len(bonds') <= MaxBonds /\ ToSet(bonds) \ {p} \subseteq ToSet(bonds')
  BY <1>2, <1>4, <1>5, Numbers
<1>7. PICK k \in {keys[p], "stale"} : keys' = [keys EXCEPT ![p] = k]
  BY DEF EncryptionFails
<1>8. keys[p] = "none" \/ keys'[p] = IF p \in ToSet(bonds') THEN keys[p] ELSE "stale"
  BY DEF EncryptionFails
<1>9. keys' \in [Peers -> {"none", "good", "stale"}]
  BY <1>7 DEF Bonding
<1>10. GoodIsBonded'
  <2> SUFFICES ASSUME NEW q \in Peers, keys'[q] = "good" PROVE q \in ToSet(bonds')
    BY DEF GoodIsBonded, Bonded
  <2>1. CASE q = p
    BY <1>7, <1>8, <2>1 DEF Bonding
  <2>2. CASE q # p
    BY <1>6, <1>7, <2>2 DEF Bonding, GoodIsBonded, Bonded
  <2> QED
    BY <2>1, <2>2
<1> QED
  BY <1>6, <1>9, <1>10 DEF Bonding

LEMMA TypedInit == Init => Bonding /\ Flags
<1> SUFFICES ASSUME Init PROVE Bonding /\ Flags
  OBVIOUS
<1>1. bonds = <<>> /\ keys = [p \in Peers |-> "none"]
  BY DEF Init
<1>2. Bonding
  BY <1>1, Numbers DEF Bonding, Stores, IsInjective, GoodIsBonded
<1>3. /\ nvs \in NvsType /\ moved = FALSE /\ current = Nobody /\ armed = FALSE /\ qr = TRUE
      /\ host = "idle" /\ seen \in 0..Threshold /\ unsaved = FALSE /\ torn = FALSE /\ former = FALSE
  BY NewIdentityType, Numbers DEF Init
<1>4. Flags
  BY <1>3 DEF Flags, HostPoints
<1> QED
  BY <1>2, <1>4

LEMMA TypedStep == Typed /\ Pairing /\ [Next]_vars => Bonding' /\ Flags'
<1> SUFFICES ASSUME Typed, Pairing, [Next]_vars PROVE Bonding' /\ Flags'
  OBVIOUS
<1>0. Bonding /\ Flags /\ IInv /\ nvs \in NvsType /\ current \in Handles \cup {Nobody}
  BY DEF Typed, Flags
<1>1. ASSUME NEW h \in Handles, Open(h) PROVE conns[h].peer \in Peers
  BY <1>0, <1>1 DEF IInv, Auth, ConnType, Pairing, HavePeers
<1>2. ASSUME NEW h \in Handles, Encrypted(h), host = "idle" PROVE Flags'
  <2>1. nvs' = [nvs EXCEPT !.fails = 0] /\ armed' = FALSE /\ seen' = 0
    BY <1>2 DEF Encrypted, FailsAfterSuccess
  <2>2. nvs' \in NvsType
    BY <1>0, <2>1, Numbers DEF NvsType
  <2>3. UNCHANGED <<moved, current, qr, host, unsaved, torn, former>>
    BY <1>2 DEF Encrypted
  <2>4. seen' \in 0..Threshold
    BY <2>1, Numbers
  <2> QED
    BY <1>0, <1>2, <2>1, <2>2, <2>3, <2>4 DEF Flags
<1>3. CASE \E h \in Handles : EncryptWithKey(h)
  BY <1>0, <1>2, <1>3, BondingUntouched DEF EncryptWithKey, Securing
<1>4. ASSUME NEW h \in Handles, PairFresh(h) PROVE Bonding' /\ Flags'
  <2>1. Encrypted(h) /\ host = "idle" /\ Open(h)
    BY <1>4 DEF PairFresh, Securing
  <2>2. Bonding'
    BY <1>0, <1>1, <1>4, <2>1, PairedStore DEF Bonding, GoodIsBonded, Bonded
  <2> QED
    BY <1>2, <2>1, <2>2
<1>5. ASSUME NEW h \in Handles, EncryptionFails(h) PROVE Bonding' /\ Flags'
  BY <1>0, <1>1, <1>5, FailureFlags, FailureBonding DEF EncryptionFails, Securing
<1>6. CASE Rotate
  <2>1. /\ nvs' = [nvs EXCEPT !.gen = @ + 1] /\ moved' = TRUE /\ host = "rotate" /\ host' = "bumped"
        /\ UNCHANGED <<bonds, keys, current, armed, qr, seen, unsaved, torn, former>>
    BY <1>6 DEF Rotate, ram, link, history
  <2>2. nvs.gen + 1 \in 0..MaxGen
    BY <1>0, <2>1, Numbers DEF Flags, NvsType
  <2>3. nvs' \in NvsType
    BY <1>0, <2>1, <2>2 DEF NvsType
  <2> QED
    BY <1>0, <2>1, <2>3, BondingUntouched DEF Flags, HostPoints
<1>7. CASE RotateRestart
  <2> DEFINE n == [nvs EXCEPT !.fails = 0]
  <2>1. n \in NvsType
    BY <1>0, Numbers DEF NvsType
  <2>2. BootWith(n, bonds) /\ seen' = 0 /\ UNCHANGED <<unsaved, torn, former>>
    BY <1>7 DEF RotateRestart
  <2> HIDE DEF n
  <2>3. seen' \in 0..Threshold /\ unsaved' \in BOOLEAN /\ torn' \in BOOLEAN /\ former' \in BOOLEAN
    BY <1>0, <2>2, Numbers DEF Flags
  <2> QED
    BY <2>1, <2>2, <2>3, BootTyped
<1>8. CASE ResetRestart
  <2>1. BootWith(nvs, <<>>) /\ UNCHANGED <<seen, unsaved, torn, former>>
    BY <1>8 DEF ResetRestart, history
  <2> QED
    BY <1>0, <2>1, BootTyped DEF Flags
<1>9. CASE PowerLoss
  <2>1. BootWith(nvs, bonds) /\ UNCHANGED <<unsaved, torn, former>> /\ seen' = IF moved THEN 0 ELSE seen
    BY <1>9 DEF PowerLoss
  <2>2. seen' \in 0..Threshold
    BY <1>0, <2>1, Numbers DEF Flags
  <2> QED
    BY <1>0, <2>1, <2>2, BootTyped DEF Flags
<1>10. CASE \E h \in Handles : NonceAuth(h)
  <2>1. PICK h \in Handles : NonceAuth(h)
    BY <1>10
  <2>2. UNCHANGED <<bonds, keys, moved, current, armed, qr, seen, torn, former>> /\ host = "idle"
    BY <2>1 DEF NonceAuth
  <2>3. host' \in {"idle", "anchored"} /\ unsaved' \in BOOLEAN
    BY <1>0, <2>1 DEF NonceAuth, Flags
  <2>4. nvs' = nvs \/ nvs' = [nvs EXCEPT !.peer = Phone]
    BY <2>1 DEF NonceAuth, Anchor
  <2>5. nvs' \in NvsType
    BY <1>0, <2>4 DEF NvsType, Peers
  <2> QED
    BY <1>0, <2>2, <2>3, <2>5, BondingUntouched DEF Flags, HostPoints
<1>11. CASE SetPaired \/ \E h \in Handles : RoutinePush(h)
  <2>1. /\ nvs' = [nvs EXCEPT !.paired = TRUE] /\ host' \in {host, "idle"}
        /\ UNCHANGED <<bonds, keys, moved, current, armed, qr, seen, unsaved, torn, former>>
    BY <1>11 DEF SetPaired, RoutinePush, ram, link, history
  <2>2. nvs' \in NvsType /\ nvs'.gen = nvs.gen
    BY <1>0, <2>1 DEF NvsType
  <2> QED
    BY <1>0, <2>1, <2>2, FlagsKept, BondingUntouched
<1>12. CASE \E h \in Handles : FactoryReset(h)
  <2>1. PICK h \in Handles : FactoryReset(h)
    BY <1>12
  <2>2. PICK left \in SUBSET IdentityKeys : Erase(left)
    BY <2>1, ErasesSome
  <2>3. host' = "wiped" /\ UNCHANGED <<bonds, keys, current, armed, qr>>
    BY <2>1 DEF FactoryReset, ram, link
  <2>4. nvs' \in NvsType /\ seen' \in 0..Threshold
    BY <1>0, <2>2, ErasedType, Numbers DEF Erase, Flags
  <2>5. moved' \in BOOLEAN /\ torn' \in BOOLEAN /\ unsaved' \in BOOLEAN /\ former' \in BOOLEAN
    BY <2>2 DEF Erase
  <2>6. Flags'
    BY <1>0, <2>3, <2>4, <2>5 DEF Flags, HostPoints
  <2> QED
    BY <1>0, <2>3, <2>6, BondingUntouched
<1>13. CASE \/ \E h \in Handles : (\E p \in Peers : Connect(h, p)) \/ Disconnect(h)
            \/ ConnectFails \/ RotateNotSaved
            \/ AdvRetry \/ QueueActivity \/ RefreshStart \/ WindowCloses \/ StackRefuses
            \/ UNCHANGED vars
  <2>1. /\ UNCHANGED <<nvs, bonds, keys, moved, armed, qr, seen, unsaved, torn, former>>
        /\ host' \in {host, "idle"} /\ current' \in Handles \cup {Nobody}
    BY <1>0, <1>13 DEF Connect, Disconnect, ConnectFails, RotateNotSaved, AdvRetry, QueueActivity,
                       RefreshStart, WindowCloses, StackRefuses, vars, ram, link, history
  <2> QED
    BY <1>0, <2>1, FlagsKept, BondingUntouched
<1>14. CASE \E p \in Peers : LoseBond(p) \/ Forgets(p)
  <2>1. PICK p \in Peers : LoseBond(p) \/ Forgets(p)
    BY <1>14
  <2>2. UNCHANGED <<nvs, moved, armed, qr, current, host, seen, unsaved, torn, former>>
    BY <2>1 DEF LoseBond, Forgets, ram, link, history
  <2>3. Bonding'
    <3>1. CASE LoseBond(p)
      BY <1>0, <3>1, BondGoes DEF LoseBond
    <3>2. CASE Forgets(p)
      <4>1. bonds' = bonds /\ keys' = [keys EXCEPT ![p] = "none"]
        BY <3>2 DEF Forgets
      <4> QED
        BY <1>0, <4>1 DEF Bonding, GoodIsBonded, Bonded
    <3> QED
      BY <2>1, <3>1, <3>2
  <2> QED
    BY <1>0, <2>2, <2>3, FlagsKept
<1> QED
  BY <1>3, <1>4, <1>5, <1>6, <1>7, <1>8, <1>9, <1>10, <1>11, <1>12, <1>13, <1>14
     DEF Next, HostStep, Security

(* Every key of rr_identity, the bond store and the radio keep their       *)
(* ranges, with power loss at every point: the store never overflows and   *)
(* holds a peer once, the address has a generation left whenever it is     *)
(* about to change, and a key is good only while its bond is there.        *)
THEOREM LinkTypeCorrect == Spec => []TypeOK
<1>1. Typed => TypeOK
  BY DEF Typed, IInv, Auth, Radio, Bonding, Flags, GoodIsBonded, Stores, TypeOK
<1>2. Init => Typed /\ Pairing
  BY InitIsSafe, TypedInit, PairingInit DEF Typed
<1>3. Typed /\ Pairing /\ [Next]_vars => Typed' /\ Pairing'
  BY StepIsSafe, TypedStep, PairingStep DEF Typed
<1> QED
  BY <1>1, <1>2, <1>3, PTL DEF Spec

(* With room for two bonds, bond_store_status never gives up the paired    *)
(* phone's: it goes only over the phone's own connection, whose security   *)
(* failed, or with the whole store in a factory reset.                     *)
THEOREM StrangersNeverEvict ==
  ASSUME MaxBonds > 1
  PROVE  Spec => PairedBondSurvives
<1> DEFINE p == nvs.peer
           Kept == /\ p # Nobody /\ p \in ToSet(bonds) /\ p \notin ToSet(bonds')
                   /\ nvs'.peer = p
                   /\ ~LoseBond(p) /\ host # "wiped"
                   => \E h \in Handles : conns[h].peer = p /\ conns'[h].broken
<1>1. Typed /\ Pairing /\ [Next]_vars => Kept
  <2> SUFFICES ASSUME Typed, Pairing, [Next]_vars, p # Nobody, p \in ToSet(bonds),
                      p \notin ToSet(bonds'), nvs'.peer = p, ~LoseBond(p), host # "wiped"
               PROVE  \E h \in Handles : conns[h].peer = p /\ conns'[h].broken
    OBVIOUS
  <2>0. Bonding /\ IInv /\ bonds' # bonds /\ p \in Peers
    BY StoreFacts DEF Typed, Bonding, ToSet
  <2>1. ASSUME NEW h \in Handles, Open(h) PROVE conns[h].peer \in Peers
    BY <2>0, <2>1 DEF IInv, Auth, ConnType, Pairing, HavePeers
  <2>2. ASSUME NEW h \in Handles, PairFresh(h) PROVE FALSE
    BY <2>0, <2>1, <2>2, PairedStore DEF PairFresh, Securing
  <2>3. ASSUME NEW h \in Handles, EncryptionFails(h) PROVE conns[h].peer = p /\ conns'[h].broken
    <3>1. Open(h) /\ conns' = [conns EXCEPT ![h].broken = TRUE]
      BY <2>3 DEF EncryptionFails, Securing
    <3>2. conns[h].peer = p
      BY <2>0, <2>1, <2>3, <3>1, FailureBonding
    <3>3. conns'[h].broken
      BY <2>0, <3>1 DEF IInv, Auth, ConnType
    <3> QED
      BY <3>2, <3>3
  <2>4. ASSUME NEW q \in Peers, LoseBond(q) PROVE FALSE
    <3>1. q # p
      BY <2>4
    <3>2. ToSet(bonds') = ToSet(bonds) \ {q}
      BY <2>0, <2>4, WithoutBond DEF LoseBond, Bonding
    <3> QED
      BY <3>1, <3>2
  <2>5. ASSUME ResetRestart PROVE FALSE
    BY <2>5 DEF ResetRestart
  <2>6. CASE \E h \in Handles : PairFresh(h) \/ EncryptionFails(h)
    BY <2>2, <2>3, <2>6
  <2>7. CASE ~\E h \in Handles : PairFresh(h) \/ EncryptionFails(h)
    BY <2>0, <2>4, <2>5, <2>7
       DEF Next, HostStep, Security, Connect, Disconnect, EncryptWithKey, NonceAuth, RoutinePush,
           FactoryReset, ConnectFails, SetPaired, Rotate, RotateNotSaved, RotateRestart, BootWith,
           AdvRetry, QueueActivity, RefreshStart, WindowCloses, StackRefuses, PowerLoss, Forgets, vars
  <2> QED
    BY <2>6, <2>7
<1>2. Init => Typed /\ Pairing
  BY InitIsSafe, TypedInit, PairingInit DEF Typed
<1>3. Typed /\ Pairing /\ [Next]_vars => Typed' /\ Pairing'
  BY StepIsSafe, TypedStep, PairingStep DEF Typed
<1> QED
  BY <1>1, <1>2, <1>3, PTL DEF Spec, PairedBondSurvives

=============================================================================
