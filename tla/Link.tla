-------------------------------- MODULE Link --------------------------------
(***************************************************************************)
(* The BLE link of components/rr_ble/src/rr_ble.c with what rr_identity.c  *)
(* keeps for it in NVS: connections and their authorisation, encryption    *)
(* and the bond store, the rotation of the watch's address when the        *)
(* phone's key has no counterpart any more, advertising and its back-off.  *)
(*                                                                         *)
(* The GAP callbacks run on the NimBLE host task; `host` says between      *)
(* which two NVS writes of a callback power may fail.  Queue activity      *)
(* comes from the LVGL task and the back-off ends on the timer task, both  *)
(* at any moment.                                                          *)
(*                                                                         *)
(* NimBLE and the centrals are not in this repository.  A central that     *)
(* holds a key for the watch's present address uses it and never pairs; a  *)
(* central that holds none pairs; a security procedure can break off at    *)
(* any point, and then its link goes down; NimBLE may refuse to advertise. *)
(***************************************************************************)
EXTENDS Naturals, Sequences, SequencesExt

CONSTANTS
  Phone,       \* the phone that sees the QR
  Strangers,   \* centrals that do not; Just Works lets them bond
  Nobody,      \* no central, no connection
  Handles,     \* connection handles
  MaxBonds,    \* CONFIG_BT_NIMBLE_MAX_BONDS
  MaxGen,      \* RR_MAX_BLE_GENERATIONS
  Threshold,   \* RR_ENC_FAILS_BEFORE_ROTATE
  BackoffAfter, \* ADV_BACKOFF_AFTER
  PowerLossPoints, \* the values of `host` at which power may fail
  MaxVisits,   \* bound: connections of strangers, and failing erases
  MaxMishaps   \* bound: what goes wrong outside the watch's own code

Peers == {Phone} \cup Strangers

HostPoints == {"idle", "anchored", "rotate", "bumped", "wiped"}

ASSUME LinkAssumption ==
  /\ Phone \notin Strangers
  /\ Nobody \notin Peers \cup Handles
  /\ Handles # {}
  /\ {MaxBonds, Threshold} \subseteq Nat \ {0}
  /\ {MaxGen, BackoffAfter} \subseteq Nat
  /\ PowerLossPoints \subseteq HostPoints
  /\ {MaxVisits, MaxMishaps} \subseteq Nat

VARIABLES
  nvs,    \* rr_identity's keys, see NvsType
  bonds,  \* the peers of the bond store, oldest first
  moved,  \* the next boot derives another address than the present one
  keys,   \* what each central holds for the present address: "none", "good", "stale"
  conns,  \* the connections, see ConnType
  authed, \* s_authed_conn
  current, \* s_conn_handle
  armed,  \* s_zero_bonds_at_boot
  qr,     \* a nonce is active
  radio,  \* advertising, see RadioType
  host,   \* how far the host task is in the callback it is running
  budget, \* what the world may still do
  seen,   \* history: failures counted since this address last encrypted
  unsaved, \* history: a peer was not saved
  torn,   \* history: the last reset erased a part of the identity
  former  \* history: the next addresses may have been the watch's before

link == <<conns, authed, current>>
ram  == <<link, armed, qr, radio>>
history == <<seen, unsaved, torn, former>>
vars == <<nvs, bonds, moved, keys, ram, host, budget, history>>

Smaller(m, n) == IF m <= n THEN m ELSE n

NewIdentity == [paired |-> FALSE, peer |-> Nobody, gen |-> 0, fails |-> 0]

NoConn == [peer |-> Nobody, encrypted |-> FALSE, nonce |-> FALSE, broken |-> FALSE]

Open(h) == conns[h] # NoConn

Bonded(p) == p \in ToSet(bonds)

Spend(what) ==
  /\ budget[what] > 0
  /\ budget' = [budget EXCEPT ![what] = @ - 1]

-----------------------------------------------------------------------------
(***************************************************************************)
(* Advertising, each operator as what it makes of the radio r.             *)
(***************************************************************************)
\* adv_state: the interval the state of the watch asks for
Interval(r, paired) == IF ~paired THEN "pairing" ELSE IF r.recent THEN "eager" ELSE "idle"

\* advertise: nothing changes while it runs already, or when every connection
\* is taken; the fields and the start itself may be refused, and nobody tries
\* again.
Advertise(r, paired, free) ==
  IF r.adv # "off" \/ ~free THEN r
  ELSE IF r.refusing THEN [r EXCEPT !.refusing = FALSE, !.refused = TRUE]
  ELSE [r EXCEPT !.adv = Interval(r, paired), !.told = Interval(r, paired), !.refused = FALSE]

\* Mutant: the timer of an earlier failure is taken to be enough.
BackOffOnce(r, paired, free) ==
  IF r.fails + 1 <= BackoffAfter
  THEN Advertise([r EXCEPT !.fails = @ + 1], paired, free)
  ELSE [r EXCEPT !.fails = BackoffAfter + 1, !.timer = r.fails = BackoffAfter]

\* advertise_after_failure; the count decides nothing beyond BackoffAfter but
\* how long the timer runs.
AdvertiseAfterFailure(r, paired, free) ==
  IF r.fails + 1 <= BackoffAfter
  THEN Advertise([r EXCEPT !.fails = @ + 1], paired, free)
  ELSE [r EXCEPT !.fails = BackoffAfter + 1, !.timer = TRUE]

SilentRadio ==
  [adv |-> "off", told |-> "pairing", recent |-> FALSE, fails |-> 0,
   timer |-> FALSE, refreshing |-> FALSE, refusing |-> FALSE, refused |-> FALSE]

\* What the centrals hold for the address of the next boot: none know a new
\* one; at one that was in use before, a key is good only by a bond that was
\* not renewed since.
KeysAfterBoot(b) ==
  IF ~moved
  THEN {[p \in Peers |-> IF keys[p] = "good" /\ p \notin ToSet(b) THEN "stale" ELSE keys[p]]}
  ELSE {k \in [Peers -> {"none", "good", "stale"}] : \A p \in Peers :
          /\ ~former => k[p] = "none"
          /\ k[p] = "good" => p \in ToSet(b) /\ keys[p] # "good"}

\* on_sync, and main.c: what a boot that finds these in flash starts with
BootWith(n, b) ==
  /\ nvs' = n /\ bonds' = b
  /\ moved' = FALSE
  /\ keys' \in KeysAfterBoot(b)
  /\ conns' = [h \in Handles |-> NoConn]
  /\ authed' = Nobody /\ current' = Nobody
  /\ armed' = (n.paired /\ b = <<>>)
  /\ qr' = ~n.paired
  /\ radio' = Advertise([SilentRadio EXCEPT !.refusing = radio.refusing], n.paired, TRUE)
  /\ host' = "idle"

Init ==
  /\ nvs = NewIdentity /\ bonds = <<>> /\ moved = FALSE
  /\ keys = [p \in Peers |-> "none"]
  /\ conns = [h \in Handles |-> NoConn]
  /\ authed = Nobody /\ current = Nobody
  /\ armed = FALSE /\ qr = TRUE
  /\ radio = Advertise(SilentRadio, FALSE, TRUE)
  /\ host = "idle"
  /\ budget = [visits |-> MaxVisits, mishaps |-> MaxMishaps]
  /\ seen = 0 /\ unsaved = FALSE /\ torn = FALSE /\ former = FALSE

-----------------------------------------------------------------------------
(***************************************************************************)
(* CONNECT and DISCONNECT.                                                 *)
(***************************************************************************)
OnAir == radio.adv # "off" \/ radio.refreshing

Connect(h, p) ==
  /\ host = "idle"
  /\ OnAir /\ ~Open(h)
  /\ \A g \in Handles : conns[g].peer # p
  /\ IF p = Phone THEN UNCHANGED budget ELSE Spend("visits")
  /\ conns' = [conns EXCEPT ![h] = [NoConn EXCEPT !.peer = p]]
  /\ current' = h
  /\ authed' = Nobody
  /\ radio' = [radio EXCEPT !.adv = "off"]
  /\ UNCHANGED <<nvs, bonds, moved, keys, armed, qr, host, history>>

ConnectFails ==
  /\ host = "idle"
  /\ OnAir
  /\ Spend("mishaps")
  /\ radio' = AdvertiseAfterFailure([radio EXCEPT !.adv = "off"], nvs.paired,
                                    \E h \in Handles : ~Open(h))
  /\ UNCHANGED <<nvs, bonds, moved, keys, link, armed, qr, host, history>>

\* Mutant: the authorisation is left to the next CONNECT to reset.
AuthAfterDisconnectKept == authed

AuthAfterDisconnect == Nobody

\* A session ends, a link whose security failed goes down, or one drops
\* before security began.
Disconnect(h) ==
  /\ host = "idle"
  /\ Open(h)
  /\ IF conns[h].broken \/ conns[h].encrypted THEN UNCHANGED budget ELSE Spend("mishaps")
  /\ conns' = [conns EXCEPT ![h] = NoConn]
  /\ current' = Nobody
  /\ authed' = AuthAfterDisconnect
  /\ LET r == [radio EXCEPT !.told = "unknown"]
     IN  radio' = IF r.fails > 0 THEN AdvertiseAfterFailure(r, nvs.paired, TRUE)
                  ELSE Advertise(r, nvs.paired, TRUE)
  /\ UNCHANGED <<nvs, bonds, moved, keys, armed, qr, host, history>>

(***************************************************************************)
(* The back-off timer, and adv_refresh, which stops advertising and starts *)
(* it again on the LVGL task.                                              *)
(***************************************************************************)
AdvRetry ==
  /\ radio.timer
  /\ radio' = Advertise([radio EXCEPT !.timer = FALSE], nvs.paired,
                        \E h \in Handles : ~Open(h))
  /\ UNCHANGED <<nvs, bonds, moved, keys, link, armed, qr, host, budget, history>>

QueueActivity ==
  /\ ~radio.refreshing
  /\ LET r == [radio EXCEPT !.recent = TRUE]
     IN  radio' = IF current # Nobody \/ Interval(r, nvs.paired) = r.told THEN r
                  ELSE [r EXCEPT !.adv = "off", !.refreshing = TRUE]
  /\ UNCHANGED <<nvs, bonds, moved, keys, link, armed, qr, host, budget, history>>

RefreshStart ==
  /\ radio.refreshing
  /\ radio' = Advertise([radio EXCEPT !.refreshing = FALSE], nvs.paired,
                        \E h \in Handles : ~Open(h))
  /\ UNCHANGED <<nvs, bonds, moved, keys, link, armed, qr, host, budget, history>>

\* ADV_EAGER_MS have passed since the last activity of the queue.
WindowCloses ==
  /\ radio.recent
  /\ radio' = [radio EXCEPT !.recent = FALSE]
  /\ UNCHANGED <<nvs, bonds, moved, keys, link, armed, qr, host, budget, history>>

-----------------------------------------------------------------------------
(***************************************************************************)
(* ENC_CHANGE.                                                             *)
(***************************************************************************)
Securing(h) == host = "idle" /\ Open(h) /\ ~conns[h].encrypted /\ ~conns[h].broken

\* Mutant: the failures counted so far are kept.
FailsAfterSuccessKept == nvs.fails

FailsAfterSuccess == 0

Encrypted(h) ==
  /\ conns' = [conns EXCEPT ![h].encrypted = TRUE]
  /\ nvs' = [nvs EXCEPT !.fails = FailsAfterSuccess]
  /\ armed' = FALSE
  /\ radio' = [radio EXCEPT !.fails = 0]
  /\ seen' = 0
  /\ UNCHANGED <<moved, authed, current, qr, host, budget, unsaved, torn, former>>

EncryptWithKey(h) ==
  /\ Securing(h)
  /\ keys[conns[h].peer] = "good"
  /\ Encrypted(h)
  /\ UNCHANGED <<bonds, keys>>

\* Mutant: NimBLE's own policy.
EvictOldest(b) == Head(b)

\* bond_store_status: the first bond that is not the paired peer's goes, and
\* the oldest if there is none.
Evicted(b) ==
  IF \E i \in DOMAIN b : b[i] # nvs.peer
  THEN b[CHOOSE i \in DOMAIN b : b[i] # nvs.peer /\ \A j \in 1..(i - 1) : b[j] = nvs.peer]
  ELSE Head(b)

\* The store holds at most one bond of a peer.
Without(b, p) == IF p \in ToSet(b) THEN RemoveAt(b, CHOOSE i \in DOMAIN b : b[i] = p) ELSE b

\* Pairing, after REPEAT_PAIRING has dropped what bond there was.
PairFresh(h) ==
  LET p    == conns[h].peer
      kept == Without(bonds, p)
      room == IF Len(kept) < MaxBonds THEN kept ELSE Without(kept, Evicted(kept))
  IN  /\ Securing(h)
      /\ keys[p] = "none"
      /\ Encrypted(h)
      /\ bonds' = Append(room, p)
      /\ keys' = [q \in Peers |-> IF q = p THEN "good"
                                  ELSE IF keys[q] = "good" /\ q \notin ToSet(room) THEN "stale"
                                  ELSE keys[q]]

(***************************************************************************)
(* handle_encryption_failure: the bond goes if the status implicates its   *)
(* key; a disconnect in mid-procedure does not count against a bond; an    *)
(* unpaired watch counts nothing.                                          *)
(***************************************************************************)
\* Mutant: "the condition that must not come back".
CountsBonded(p, b, gone) == nvs.paired /\ p \in ToSet(b) /\ ~gone

Counts(p, b, gone) == nvs.paired /\ ~(p \in ToSet(b) /\ gone)

\* The count decides nothing beyond Threshold.
Failures == Smaller(nvs.fails + 1, Threshold)

Needed == IF armed THEN 1 ELSE Threshold

MayRotate == Failures >= Needed /\ nvs.gen < MaxGen

HandleFailure(p, b, gone) ==
  IF ~Counts(p, b, gone)
  THEN bonds' = b /\ UNCHANGED <<nvs, armed, host, seen>>
  ELSE /\ bonds' = Without(b, p)
       /\ nvs' = [nvs EXCEPT !.fails = Failures]
       /\ seen' = Smaller(seen + 1, Threshold)
       /\ host' = IF MayRotate THEN "rotate" ELSE "idle"
       /\ armed' = (armed /\ host' = "rotate")

\* The security procedure of a connection fails: always with a key that has
\* no counterpart, now and then with any other.  A pairing may break off on
\* either side of REPEAT_PAIRING, and after the central stored its key.
EncryptionFails(h) ==
  LET p       == conns[h].peer
      pairing == keys[p] = "none"
  IN  /\ Securing(h)
      /\ IF keys[p] = "stale" THEN UNCHANGED budget ELSE Spend("mishaps")
      /\ conns' = [conns EXCEPT ![h].broken = TRUE]
      /\ \E gone \in BOOLEAN, b \in {bonds} \cup {Without(bonds, q) : q \in {p}} :
           /\ ~pairing => b = bonds
           /\ HandleFailure(p, b, gone)
      /\ keys' \in {[keys EXCEPT ![p] = k] : k \in {keys[p], "stale"}}
      /\ pairing \/ keys'[p] = IF p \in ToSet(bonds') THEN keys[p] ELSE "stale"
      /\ UNCHANGED <<moved, authed, current, qr, radio, unsaved, torn, former>>

\* rr_identity_bump_ble_generation
Rotate ==
  /\ host = "rotate"
  /\ nvs' = [nvs EXCEPT !.gen = @ + 1]
  /\ moved' = TRUE
  /\ host' = "bumped"
  /\ UNCHANGED <<bonds, keys, ram, budget, history>>

RotateNotSaved ==
  /\ host = "rotate"
  /\ Spend("mishaps")
  /\ host' = "idle"
  /\ UNCHANGED <<nvs, bonds, moved, keys, ram, history>>

\* rr_identity_clear_enc_fails, and the restart
RotateRestart ==
  /\ host = "bumped"
  /\ BootWith([nvs EXCEPT !.fails = 0], bonds)
  /\ seen' = 0
  /\ UNCHANGED <<budget, unsaved, torn, former>>

-----------------------------------------------------------------------------
(***************************************************************************)
(* What a connection may do: RR_CONTROL and ROUTINE_PUSH.                  *)
(***************************************************************************)
\* conn_is_authorised
Authorised(h) == authed = h \/ (conns[h].encrypted /\ conns[h].peer = nvs.peer)

\* peer_is_trusted
Trusted(h) == conns[h].encrypted /\ conns[h].peer = nvs.peer

\* Mutant: the watch is marked paired before it knows by whom.
MarkPaired(h) == [nvs EXCEPT !.paired = TRUE]

Anchor(h) == [nvs EXCEPT !.peer = conns[h].peer]

\* nonce_auth: the peer is recorded, then the paired flag; a failed write of
\* the peer goes unnoticed.
NonceAuth(h) ==
  /\ host = "idle"
  /\ qr /\ conns[h].peer = Phone /\ conns[h].encrypted
  /\ conns' = [conns EXCEPT ![h].nonce = TRUE]
  /\ authed' = h
  /\ \/ nvs' = Anchor(h) /\ UNCHANGED <<budget, unsaved>>
     \/ Spend("mishaps") /\ unsaved' = TRUE /\ UNCHANGED nvs
  /\ host' = IF nvs.paired THEN "idle" ELSE "anchored"
  /\ UNCHANGED <<bonds, moved, keys, current, armed, qr, radio, seen, torn, former>>

SetPaired ==
  /\ host = "anchored"
  /\ nvs' = [nvs EXCEPT !.paired = TRUE]
  /\ host' = "idle"
  /\ UNCHANGED <<bonds, moved, keys, ram, budget, history>>

RoutinePush(h) ==
  /\ host = "idle"
  /\ Authorised(h)
  /\ nvs' = [nvs EXCEPT !.paired = TRUE]
  /\ UNCHANGED <<bonds, moved, keys, ram, host, budget, history>>

IdentityKeys == {"device_id", "paired", "peer", "ble_gen", "enc_fails"}

\* The keys that are left keep their values.
ErasedBut(left) ==
  [paired |-> "paired" \in left /\ nvs.paired,
   peer   |-> IF "peer" \in left THEN nvs.peer ELSE Nobody,
   gen    |-> IF "ble_gen" \in left THEN nvs.gen ELSE 0,
   fails  |-> IF "enc_fails" \in left THEN nvs.fails ELSE 0]

\* rr_ble_factory_reset: the identity, then the bonds, then the restart.  The
\* keys go one by one, and whether all of them did is not looked at.  The
\* address is derived from the device id and the generation.
FactoryReset(h) ==
  /\ host = "idle"
  /\ Trusted(h)
  /\ \E left \in SUBSET IdentityKeys :
       LET back == "device_id" \in left /\ "ble_gen" \notin left /\ nvs.gen > 0
           cost == IF left = {} THEN 0 ELSE 1
       IN
         /\ budget.mishaps > 0 /\ budget.visits >= cost
         /\ budget' = [visits |-> budget.visits - cost, mishaps |-> budget.mishaps - 1]
         /\ nvs' = ErasedBut(left)
         /\ moved' = ("device_id" \notin left \/ back)
         /\ former' = ("device_id" \in left /\ (former \/ back))
         /\ torn' = (left # {} /\ (torn \/ left # IdentityKeys))
         /\ unsaved' = (left # {} /\ unsaved)
         /\ seen' = IF left = {} THEN 0 ELSE seen
  /\ host' = "wiped"
  /\ UNCHANGED <<bonds, keys, ram>>

\* A bond store that will not be cleared comes to the same as power lost before.
ResetRestart ==
  /\ host = "wiped"
  /\ BootWith(nvs, <<>>)
  /\ UNCHANGED <<budget, history>>

-----------------------------------------------------------------------------
(***************************************************************************)
(* The world.                                                              *)
(***************************************************************************)
PowerLoss ==
  /\ host \in PowerLossPoints
  /\ Spend("mishaps")
  /\ BootWith(nvs, bonds)
  /\ seen' = IF moved THEN 0 ELSE seen
  /\ UNCHANGED <<unsaved, torn, former>>

\* NimBLE will refuse the next attempt to advertise.
StackRefuses ==
  /\ ~radio.refusing
  /\ Spend("mishaps")
  /\ radio' = [radio EXCEPT !.refusing = TRUE]
  /\ UNCHANGED <<nvs, bonds, moved, keys, link, armed, qr, host, history>>

\* The watch loses a bond whose key the central keeps.
LoseBond(p) ==
  /\ Bonded(p) /\ keys[p] = "good"
  /\ Spend("mishaps")
  /\ bonds' = Without(bonds, p)
  /\ keys' = [keys EXCEPT ![p] = "stale"]
  /\ UNCHANGED <<nvs, moved, ram, host, history>>

\* A central loses its key: it will pair again.
Forgets(p) ==
  /\ keys[p] # "none"
  /\ Spend("mishaps")
  /\ keys' = [keys EXCEPT ![p] = "none"]
  /\ UNCHANGED <<nvs, bonds, moved, ram, host, history>>

Security(h) == EncryptWithKey(h) \/ PairFresh(h) \/ EncryptionFails(h)

HostStep == SetPaired \/ Rotate \/ RotateNotSaved \/ RotateRestart \/ ResetRestart

Next ==
  \/ \E h \in Handles :
       \/ \E p \in Peers : Connect(h, p)
       \/ Disconnect(h) \/ Security(h)
       \/ NonceAuth(h) \/ RoutinePush(h) \/ FactoryReset(h)
  \/ ConnectFails
  \/ HostStep
  \/ AdvRetry \/ QueueActivity \/ RefreshStart \/ WindowCloses
  \/ PowerLoss \/ StackRefuses
  \/ \E p \in Peers : LoseBond(p) \/ Forgets(p)

\* The watch's tasks run, and connections come to an end.
WatchFairness ==
  WF_vars(HostStep) /\ WF_vars(AdvRetry \/ RefreshStart) /\ WF_vars(\E h \in Handles : Disconnect(h))

Spec == Init /\ [][Next]_vars /\ WatchFairness

\* A phone that is near keeps connecting, and its links come to a verdict.
PhoneFairness ==
  WF_vars(\E h \in Handles : Connect(h, Phone)) /\ WF_vars(\E h \in Handles : Security(h))

NearbySpec == Spec /\ PhoneFairness

-----------------------------------------------------------------------------
NvsType == [paired : BOOLEAN, peer : Peers \cup {Nobody}, gen : 0..MaxGen,
            fails : 0..Threshold]

ConnType == [peer : Peers \cup {Nobody}, encrypted : BOOLEAN,
             nonce : BOOLEAN,  \* its peer presented the nonce
             broken : BOOLEAN] \* its security procedure failed

RadioType ==
  [adv : {"off", "pairing", "eager", "idle"},
   told : {"pairing", "eager", "idle", "unknown"}, \* s_adv_state
   recent : BOOLEAN,     \* s_queue_activity_ms lies within ADV_EAGER_MS
   fails : 0..(BackoffAfter + 1), \* s_consec_link_fails
   timer : BOOLEAN,      \* s_adv_retry_timer is armed
   refreshing : BOOLEAN, \* adv_refresh has stopped and not yet started
   refusing : BOOLEAN,   \* NimBLE will refuse the next attempt
   refused : BOOLEAN]    \* it refused the last one

(* The type invariant; the bond store never overflows, and a key is good   *)
(* only while its bond is there.                                           *)
TypeOK ==
  /\ nvs \in NvsType
  /\ bonds \in Seq(Peers) /\ Len(bonds) <= MaxBonds /\ IsInjective(bonds)
  /\ moved \in BOOLEAN
  /\ keys \in [Peers -> {"none", "good", "stale"}]
  /\ \A p \in Peers : keys[p] = "good" => Bonded(p)
  /\ conns \in [Handles -> ConnType]
  /\ authed \in Handles \cup {Nobody} /\ current \in Handles \cup {Nobody}
  /\ armed \in BOOLEAN /\ qr \in BOOLEAN
  /\ radio \in RadioType
  /\ host \in HostPoints
  /\ seen \in 0..Threshold /\ unsaved \in BOOLEAN
  /\ torn \in BOOLEAN /\ former \in BOOLEAN

(* An authorisation belongs to a live connection whose own peer presented  *)
(* the nonce: handles are reused, and a second central may connect while   *)
(* the first is there.                                                     *)
AuthorisationIsEarned ==
  authed # Nobody => Open(authed) /\ conns[authed].nonce

(* A watch that is not connected is advertising, or will be: whatever      *)
(* failed connections, back-off, interval changes and disconnects do in    *)
(* which order, none of them leaves it silent, but an attempt that NimBLE  *)
(* refused, which nothing repeats.                                         *)
Audible ==
  \/ \E h \in Handles : Open(h)
  \/ radio.adv # "off" \/ radio.timer \/ radio.refreshing

NeverSilent == Audible \/ radio.refused

(* A paired watch knows its phone, also after a power cut in the middle of *)
(* nonce_auth or of a reset, unless the write of the peer itself failed or *)
(* a reset erased a part of the keys: paired without a peer it would show  *)
(* no QR and accept nobody.                                                *)
PairedKnowsItsPeer == nvs.paired /\ ~unsaved /\ ~torn => nvs.peer # Nobody

(* The paired phone's bond is given up only over its own connection, to    *)
(* pair it anew or because its key failed, or with the whole store in a    *)
(* factory reset; no number of other centrals pushes it out.               *)
PairedBondSurvives ==
  [][LET p == nvs.peer IN
     /\ p # Nobody /\ p \in ToSet(bonds) /\ p \notin ToSet(bonds')
     /\ nvs'.peer = p
     /\ ~LoseBond(p) /\ host # "wiped"
     => \E h \in Handles : conns[h].peer = p /\ conns'[h].broken]_vars

(* The address changes only after Threshold failures since it last         *)
(* encrypted, counted across reboots, or after one on a watch that booted  *)
(* paired and without a bond; a reset that left the old count behind gives *)
(* it to the next address.                                                 *)
RotationIsProven ==
  [][nvs'.gen > nvs.gen /\ ~torn => seen >= Needed]_vars

(* With its phone near, a watch whose bond is lost and that has an address *)
(* left gets out of it without the child: the phone encrypts again.  Only  *)
(* a key gone stale at the last address needs a human, and a watch that    *)
(* NimBLE silenced.                                                        *)
Lost == nvs.paired /\ nvs.peer = Phone /\ keys[Phone] = "stale" /\ ~Bonded(Phone)

NeedsAHuman == nvs.gen = MaxGen /\ keys[Phone] = "stale"

Encrypts(p) == \E h \in Handles : conns[h].peer = p /\ conns[h].encrypted

StaleBondHeals ==
  Lost /\ nvs.gen < MaxGen ~> Encrypts(Phone) \/ NeedsAHuman \/ ~nvs.paired \/ ~Audible

(* What the source says and the code does not keep.                        *)
(* The back-off: "So consecutive failures back off: 0.5 s, 1 s, 2 s, 4 s   *)
(* ... capped. Reset the moment anything succeeds."  A connection that     *)
(* ends after more than BackoffAfter failures in a row is not followed by  *)
(* advertising at once (without a power cut, which forgets the count).     *)
BrokenLinkBacksOff ==
  [][\A h \in Handles : Open(h) /\ ~Open(h)' /\ seen' > BackoffAfter => radio'.timer]_vars

=============================================================================
