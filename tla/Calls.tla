-------------------------------- MODULE Calls --------------------------------
(***************************************************************************)
(* The handlers of the gRPC API that change calls (ApiServiceImpl).  Each  *)
(* request runs in a thread of the gRPC server: it finds legs by their id, *)
(* holds their read locks while it works on them and waits for what their  *)
(* threads do.  The legs hang up, play, park and are bridged meanwhile.    *)
(***************************************************************************)
EXTENDS Naturals

CONSTANTS
  Legs,
  Nobody,
  Bridged,      \* Bridged[l]: the leg l is bridged with at first, or Nobody
  Parking,      \* legs that the dialplan may park
  Recordable,   \* legs that may have a recording, which follows a transfer
  Requests,     \* threads of the gRPC server
  Asks,         \* Asks[r]: the requests, [kind, a, b], that r may get
  MaxAsks       \* MaxAsks[r]: bound on the requests it gets

Kinds == {"Hangup", "HangupMany", "StopPlayback", "Broadcast", "Queue", "Bridge",
          "BridgeCall", "BlindTransfer", "BreakPark", "SetEavesdropState", "Originate"}

ASSUME CallsAssumption ==
  /\ Nobody \notin Legs
  /\ Bridged \in [Legs -> Legs \cup {Nobody}]
  /\ \A l \in Legs : Bridged[l] # Nobody => Bridged[l] # l /\ Bridged[Bridged[l]] = l
  /\ MaxAsks \in [Requests -> Nat]
  /\ \A r \in Requests : \A ask \in Asks[r] :
       /\ ask.kind \in Kinds /\ ask.a \in Legs /\ ask.b \in Legs \cup {Nobody}
       /\ ask.kind \in {"Bridge", "BridgeCall"} => ask.b \in Legs
  /\ Recordable \subseteq Legs /\ Parking \subseteq Legs

VARIABLES
  life,      \* "up", "hungup" (not found any more) or "destroyed"
  partner,   \* the leg it is bridged with (CF_BRIDGED), or Nobody
  media,     \* "none", "playing" (CF_BROADCAST) or "parked" (CF_PARK)
  rec,       \* legs with a recording
  from, to,  \* wbt_transfer_from and wbt_transfer_to, or Nobody
  bridges,   \* bridges that switch_ivr_uuid_bridge accepted and that are not made yet
  req,       \* what each request does
  asked,     \* bounded: the requests each thread has got
  born,      \* requests whose Originate made a leg that is up
  missed,    \* history: the check leg of the Originate was gone when its leg answered
  swept      \* history: the BridgeCall whose bridge ended a leg

legVars == <<life, partner, media, rec>>
transferVars == <<from, to, bridges, swept>>
requestVars == <<req, asked>>
vars == <<legVars, transferVars, requestVars, born, missed>>

Places == {"unlocked", "locked", "wait", "check", "link", "linkTo", "record", "bridge", "asked"}
Idle == [kind |-> "none", locks |-> {}]
Busy(r) == req[r].kind # "none"
Some == Legs \cup {Nobody}
NoTransfer == [a |-> Nobody, b |-> Nobody, pa |-> Nobody, pb |-> Nobody]
Transfers == [a : Some, b : Some, pa : Some, pb : Some]
Records == [kind : Kinds, pc : Places, a : Legs, b : Some, pa : Some, pb : Some,
            locks : SUBSET Legs]

TypeOK ==
  /\ life \in [Legs -> {"up", "hungup", "destroyed"}]
  /\ partner \in [Legs -> Some]
  /\ media \in [Legs -> {"none", "playing", "parked"}]
  /\ rec \subseteq Legs
  /\ from \in [Legs -> Some] /\ to \in [Legs -> Some]
  /\ bridges \subseteq Transfers
  /\ swept \in [Legs -> Transfers]
  /\ req \in [Requests -> {Idle} \cup Records]
  /\ asked \in [Requests -> Nat]
  /\ born \subseteq Requests
  /\ missed \subseteq Requests

Init ==
  /\ life = [l \in Legs |-> "up"]
  /\ partner = Bridged
  /\ media = [l \in Legs |-> "none"]
  /\ rec \in SUBSET Recordable
  /\ from = [l \in Legs |-> Nobody] /\ to = [l \in Legs |-> Nobody]
  /\ bridges = {} /\ swept = [l \in Legs |-> NoTransfer]
  /\ req = [r \in Requests |-> Idle]
  /\ asked = [r \in Requests |-> 0]
  /\ born = {}
  /\ missed = {}

-----------------------------------------------------------------------------
(* The core.                                                               *)

\* switch_core_session_locate and switch_core_session_force_locate.
Located(l)      == life[l] = "up"
ForceLocated(l) == life[l] # "destroyed"

\* The legs hang up: their bridges, playbacks and recordings end.
HangUp(legs) ==
  /\ life' = [l \in Legs |-> IF l \in legs /\ life[l] = "up" THEN "hungup" ELSE life[l]]
  /\ partner' = [l \in Legs |-> IF l \in legs \/ partner[l] \in legs THEN Nobody ELSE partner[l]]
  /\ media' = [l \in Legs |-> IF l \in legs THEN "none" ELSE media[l]]
  /\ rec' = rec \ legs

\* The phone, the dialplan, the end of a bridge, or HangupMatchingVars, which has the
\* core hang up the legs with some variables and holds none of them itself.
LegHangsUp(l) ==
  /\ life[l] = "up"
  /\ HangUp({l})
  /\ UNCHANGED <<transferVars, requestVars, born, missed>>

\* The session is destroyed, its variables with it, when nobody holds its read lock
\* any more.
Destroy(l) ==
  /\ life[l] = "hungup"
  /\ \A r \in Requests : l \notin req[r].locks
  /\ life' = [life EXCEPT ![l] = "destroyed"]
  /\ from' = [from EXCEPT ![l] = Nobody] /\ to' = [to EXCEPT ![l] = Nobody]
  /\ swept' = [swept EXCEPT ![l] = NoTransfer]
  /\ UNCHANGED <<partner, media, rec, bridges, requestVars, born, missed>>

\* A playback ends or is stopped; the dialplan parks the leg.
LegPlays(l) ==
  /\ life[l] = "up"
  /\ \/ media[l] = "playing" /\ media' = [media EXCEPT ![l] = "none"]
     \/ /\ l \in Parking /\ media[l] = "none" /\ partner[l] = Nobody
        /\ media' = [media EXCEPT ![l] = "parked"]
  /\ UNCHANGED <<life, partner, rec, transferVars, requestVars, born, missed>>

\* The threads of the two legs carry a bridge out, if both are still there; their
\* former partners are hung up.
MakeBridge(t) ==
  /\ t \in bridges
  /\ bridges' = bridges \ {t}
  /\ IF life[t.a] = "up" /\ life[t.b] = "up"
     THEN LET former == {l \in Legs \ {t.a, t.b} : partner[l] \in {t.a, t.b}} IN
          /\ life' = [l \in Legs |-> IF l \in former THEN "hungup" ELSE life[l]]
          /\ partner' = [l \in Legs |-> CASE l = t.a -> t.b [] l = t.b -> t.a
                                          [] l \in former -> Nobody [] OTHER -> partner[l]]
          /\ media' = [l \in Legs |-> IF l \in former \cup {t.a, t.b} THEN "none" ELSE media[l]]
          /\ rec' = rec \ former
          /\ swept' = [l \in Legs |-> IF l \in former /\ t.pa # Nobody THEN t ELSE swept[l]]
     ELSE UNCHANGED <<legVars, swept>>
  /\ UNCHANGED <<from, to, requestVars, born, missed>>

-----------------------------------------------------------------------------
(* Requests.                                                               *)

\* A request is taken up.
Take(r, ask) ==
  /\ req[r] = Idle /\ ask \in Asks[r] /\ asked[r] < MaxAsks[r]
  /\ asked' = [asked EXCEPT ![r] = @ + 1]

\* It will work at pc, with the locks it got.
Start(r, ask, pc, locks) ==
  /\ Take(r, ask)
  /\ req' = [req EXCEPT ![r] = [kind |-> ask.kind, pc |-> pc, a |-> ask.a, b |-> ask.b,
                                pa |-> Nobody, pb |-> Nobody, locks |-> locks]]

At(r, kind, pc) == req[r].kind = kind /\ req[r].pc = pc
Step(r, pc, locks) ==
  req' = [req EXCEPT ![r].pc = pc, ![r].locks = locks] /\ UNCHANGED asked
Done(r) == req' = [req EXCEPT ![r] = Idle] /\ UNCHANGED asked

\* Hangup sets its variables and returns the lock before it hangs up.
HangupFind(r, ask) ==
  /\ ask.kind = "Hangup" /\ Located(ask.a)
  /\ Start(r, ask, "unlocked", {})
  /\ UNCHANGED <<legVars, transferVars, born, missed>>

HangupLate(r) ==
  /\ At(r, "Hangup", "unlocked")
  /\ HangUp({req[r].a})
  /\ Done(r)
  /\ UNCHANGED <<transferVars, born, missed>>

\* Mutant: the lock is returned before the leg is hung up.
HangupManyFindUnlocked(r, ask) ==
  /\ ask.kind = "HangupMany" /\ Located(ask.a)
  /\ Start(r, ask, "locked", {})
  /\ UNCHANGED <<legVars, transferVars, born, missed>>

\* One id of HangupMany.
HangupManyFind(r, ask) ==
  /\ ask.kind = "HangupMany" /\ Located(ask.a)
  /\ Start(r, ask, "locked", {ask.a})
  /\ UNCHANGED <<legVars, transferVars, born, missed>>

HangupManyHangup(r) ==
  /\ At(r, "HangupMany", "locked")
  /\ HangUp({req[r].a})
  /\ Done(r)
  /\ UNCHANGED <<transferVars, born, missed>>

\* StopPlayback asks the leg's thread to stop, and waits for it.
StopPlaybackFind(r, ask) ==
  /\ ask.kind = "StopPlayback" /\ Located(ask.a) /\ media[ask.a] = "playing"
  /\ Start(r, ask, "wait", {ask.a})
  /\ UNCHANGED <<legVars, transferVars, born, missed>>

\* The playback has ended, or 5 s have.
StopPlaybackWait(r) ==
  /\ At(r, "StopPlayback", "wait")
  /\ Done(r)
  /\ UNCHANGED <<legVars, transferVars, born, missed>>

\* Broadcast may wait for the leg to be parked, and starts the playback unlocked.
BroadcastFind(r, ask) ==
  /\ ask.kind = "Broadcast" /\ Located(ask.a)
  /\ Start(r, ask, "wait", {ask.a}) \/ Start(r, ask, "unlocked", {})
  /\ UNCHANGED <<legVars, transferVars, born, missed>>

\* Mutant: the loop does not look at the leg's readiness.
BroadcastWaitParked(r) ==
  /\ At(r, "Broadcast", "wait") /\ media[req[r].a] = "parked"
  /\ Step(r, "unlocked", {})
  /\ UNCHANGED <<legVars, transferVars, born, missed>>

BroadcastWait(r) ==
  /\ At(r, "Broadcast", "wait")
  /\ media[req[r].a] = "parked" \/ life[req[r].a] # "up"
  /\ Step(r, "unlocked", {})
  /\ UNCHANGED <<legVars, transferVars, born, missed>>

\* switch_ivr_broadcast finds the leg by its id.
Play(l) == media' = IF Located(l) THEN [media EXCEPT ![l] = "playing"] ELSE media

BroadcastPlay(r) ==
  /\ At(r, "Broadcast", "unlocked")
  /\ Play(req[r].a)
  /\ Done(r)
  /\ UNCHANGED <<life, partner, rec, transferVars, born, missed>>

\* Queue finds a leg that has hung up, too, and leaves it alone.
QueueFind(r, ask) ==
  /\ ask.kind = "Queue" /\ ForceLocated(ask.a)
  /\ Start(r, ask, "locked", {ask.a})
  /\ UNCHANGED <<legVars, transferVars, born, missed>>

QueuePlay(r) ==
  /\ At(r, "Queue", "locked")
  /\ Play(req[r].a)
  /\ Done(r)
  /\ UNCHANGED <<life, partner, rec, transferVars, born, missed>>

BlindTransferFind(r, ask) ==
  /\ ask.kind = "BlindTransfer" /\ Located(ask.a)
  /\ Start(r, ask, "locked", {ask.a})
  /\ UNCHANGED <<legVars, transferVars, born, missed>>

\* switch_ivr_session_transfer: a leg that is up leaves its bridge or its playback for
\* the dialplan.
BlindTransferGo(r) ==
  /\ At(r, "BlindTransfer", "locked")
  /\ LET l == req[r].a IN
       IF life[l] = "up"
       THEN /\ partner' = [m \in Legs |-> IF l \in {m, partner[m]} THEN Nobody ELSE partner[m]]
            /\ media' = [media EXCEPT ![l] = "none"]
       ELSE UNCHANGED <<partner, media>>
  /\ Done(r)
  /\ UNCHANGED <<life, rec, transferVars, born, missed>>

BreakPark(r, ask) ==
  /\ Take(r, ask)
  /\ ask.kind = "BreakPark" /\ Located(ask.a) /\ media[ask.a] = "parked"
  /\ media' = [media EXCEPT ![ask.a] = "none"]
  /\ UNCHANGED <<life, partner, rec, transferVars, req, born, missed>>

\* SetEavesdropState sets the state and queues a digit, under the lock, which it returns
\* before it fires an event on the channel.
SetStateFind(r, ask) ==
  /\ ask.kind = "SetEavesdropState" /\ Located(ask.a)
  /\ Start(r, ask, "unlocked", {})
  /\ UNCHANGED <<legVars, transferVars, born, missed>>

SetStateFire(r) ==
  /\ At(r, "SetEavesdropState", "unlocked")
  /\ Done(r)
  /\ UNCHANGED <<legVars, transferVars, born, missed>>

\* Originate makes a leg, or fails to, in a minute.
Originate(r, ask) ==
  /\ ask.kind = "Originate" /\ r \notin born
  /\ Start(r, ask, "wait", {})
  /\ UNCHANGED <<legVars, transferVars, born, missed>>

OriginateFails(r) ==
  /\ At(r, "Originate", "wait")
  /\ Done(r)
  /\ UNCHANGED <<legVars, transferVars, born, missed>>

OriginateAnswered(r) ==
  /\ At(r, "Originate", "wait")
  /\ born' = born \cup {r}
  /\ missed' = IF life[req[r].a] # "up" THEN missed \cup {r} ELSE missed
  /\ Step(r, "check", {})
  /\ UNCHANGED <<legVars, transferVars>>

\* The leg that was made is hung up.
Gone(r) == born' = born \ {r} /\ missed' = missed \ {r}

\* Mutant: a check leg that has hung up is found until it is destroyed.
OriginateCheckForced(r) ==
  /\ At(r, "Originate", "check")
  /\ IF ForceLocated(req[r].a) THEN UNCHANGED <<born, missed>> ELSE Gone(r)
  /\ Done(r)
  /\ UNCHANGED <<legVars, transferVars>>

\* The new leg runs; it is hung up if the check leg is not found or not ready.
OriginateCheck(r) ==
  /\ At(r, "Originate", "check")
  /\ IF Located(req[r].a) THEN UNCHANGED <<born, missed>> ELSE Gone(r)
  /\ Done(r)
  /\ UNCHANGED <<legVars, transferVars>>

BornHangsUp(r) ==
  /\ r \in born
  /\ Gone(r)
  /\ UNCHANGED <<legVars, transferVars, requestVars>>

-----------------------------------------------------------------------------
(* Bridge and BridgeCall.                                                  *)

\* switch_ivr_uuid_bridge accepts two legs that are up, and has their threads do it.
UuidBridge(t) == bridges' = IF Located(t.a) /\ Located(t.b) THEN bridges \cup {t} ELSE bridges

\* Leg A is told to leave what it plays, and unlocked.
BridgeFind(r, ask) ==
  /\ ask.kind = "Bridge" /\ Located(ask.a)
  /\ Start(r, ask, "bridge", {})
  /\ UNCHANGED <<legVars, transferVars, born, missed>>

BridgeAsk(r) ==
  /\ At(r, "Bridge", "bridge")
  /\ LET accepted == Located(req[r].a) /\ Located(req[r].b) IN
       IF accepted THEN Step(r, "asked", {}) ELSE Done(r)
  /\ UuidBridge([NoTransfer EXCEPT !.a = req[r].a, !.b = req[r].b])
  /\ UNCHANGED <<legVars, from, to, swept, born, missed>>

\* Leg B is found again, to wait for its CF_BRIDGED.
BridgeFindB(r) ==
  /\ At(r, "Bridge", "asked")
  /\ IF Located(req[r].b) THEN Step(r, "wait", {req[r].b}) ELSE Done(r)
  /\ UNCHANGED <<legVars, transferVars, born, missed>>

\* It is bridged, or 3 s have passed.
BridgeWait(r) ==
  /\ At(r, "Bridge", "wait")
  /\ Done(r)
  /\ UNCHANGED <<legVars, transferVars, born, missed>>

\* Two calls are to become one: both legs must be bridged.
BridgeCallFind(r, ask) ==
  /\ ask.kind = "BridgeCall" /\ Located(ask.a) /\ Located(ask.b)
  /\ partner[ask.a] # Nobody /\ partner[ask.b] # Nobody
  /\ Take(r, ask)
  /\ req' = [req EXCEPT ![r] = [kind |-> "BridgeCall", pc |-> "link", a |-> ask.a, b |-> ask.b,
                                pa |-> partner[ask.a], pb |-> partner[ask.b], locks |-> {ask.a, ask.b}]]
  /\ UNCHANGED <<legVars, transferVars, born, missed>>

\* switch_channel_set_variable_partner: whoever the leg is bridged with by now.
SetPartner(var, l, val) == IF partner[l] # Nobody THEN [var EXCEPT ![partner[l]] = val] ELSE var

BridgeCallFrom(r) ==
  /\ At(r, "BridgeCall", "link")
  /\ from' = SetPartner(from, req[r].a, req[r].b)
  /\ Step(r, "linkTo", req[r].locks)
  /\ UNCHANGED <<legVars, to, bridges, swept, born, missed>>

\* Mutant: the partner of the wrong leg is named.
BridgeCallToWrong(r) ==
  /\ At(r, "BridgeCall", "linkTo")
  /\ to' = SetPartner(to, req[r].a, req[r].a)
  /\ Step(r, "record", req[r].locks)
  /\ UNCHANGED <<legVars, from, bridges, swept, born, missed>>

BridgeCallTo(r) ==
  /\ At(r, "BridgeCall", "linkTo")
  /\ to' = SetPartner(to, req[r].b, req[r].a)
  /\ Step(r, "record", req[r].locks)
  /\ UNCHANGED <<legVars, from, bridges, swept, born, missed>>

\* Mutant: the recording of leg B's partner is moved.
BridgeCallRecordWrong(r) ==
  /\ At(r, "BridgeCall", "record")
  /\ rec' = IF /\ life[req[r].a] = "up" /\ {req[r].a, req[r].b} \cap rec = {}
               /\ partner[req[r].a] # Nobody /\ Located(req[r].pb) /\ req[r].pb \in rec
            THEN (rec \ {req[r].pb}) \cup {req[r].a} ELSE rec
  /\ Step(r, "bridge", req[r].locks)
  /\ UNCHANGED <<life, partner, media, transferVars, born, missed>>

\* The partner's recording goes to leg A, unless A or B has one.
BridgeCallRecord(r) ==
  /\ At(r, "BridgeCall", "record")
  /\ rec' = IF /\ life[req[r].a] = "up" /\ {req[r].a, req[r].b} \cap rec = {}
               /\ partner[req[r].a] # Nobody /\ Located(req[r].pa) /\ req[r].pa \in rec
            THEN (rec \ {req[r].pa}) \cup {req[r].a} ELSE rec
  /\ Step(r, "bridge", req[r].locks)
  /\ UNCHANGED <<life, partner, media, transferVars, born, missed>>

\* A bridge that fails leaves the variables and the recording where they are.
BridgeCallBridge(r) ==
  /\ At(r, "BridgeCall", "bridge")
  /\ UuidBridge([a |-> req[r].a, b |-> req[r].b, pa |-> req[r].pa, pb |-> req[r].pb])
  /\ Done(r)
  /\ UNCHANGED <<legVars, from, to, swept, born, missed>>

-----------------------------------------------------------------------------
Core(l) == LegHangsUp(l) \/ Destroy(l) \/ LegPlays(l)

Begin(r, ask) ==
  \/ HangupFind(r, ask) \/ HangupManyFind(r, ask) \/ StopPlaybackFind(r, ask)
  \/ BroadcastFind(r, ask) \/ QueueFind(r, ask) \/ BlindTransferFind(r, ask)
  \/ BreakPark(r, ask) \/ SetStateFind(r, ask) \/ Originate(r, ask)
  \/ BridgeFind(r, ask) \/ BridgeCallFind(r, ask)

GoOn(r) ==
  \/ HangupLate(r) \/ HangupManyHangup(r) \/ StopPlaybackWait(r)
  \/ BroadcastWait(r) \/ BroadcastPlay(r) \/ QueuePlay(r) \/ BlindTransferGo(r) \/ SetStateFire(r)
  \/ OriginateFails(r) \/ OriginateAnswered(r) \/ OriginateCheck(r)
  \/ BridgeAsk(r) \/ BridgeFindB(r) \/ BridgeWait(r)
  \/ BridgeCallFrom(r) \/ BridgeCallTo(r) \/ BridgeCallRecord(r) \/ BridgeCallBridge(r)

Next ==
  \/ \E l \in Legs : Core(l)
  \/ \E t \in bridges : MakeBridge(t)
  \/ \E r \in Requests : (\E ask \in Asks[r] : Begin(r, ask)) \/ GoOn(r) \/ BornHangsUp(r)

Spec == Init /\ [][Next]_vars

\* The threads of the server run on, and the core cleans up a leg that has hung up.
\* Nobody need hang up, stop a playback or make a bridge.
Fairness ==
  /\ \A r \in Requests : WF_vars(GoOn(r))
  /\ \A l \in Legs : WF_vars(Destroy(l))

FairSpec == Spec /\ Fairness

-----------------------------------------------------------------------------
(* Properties.                                                             *)

\* The legs whose channel a request works on by a pointer it got from a session.
Works(r) ==
  CASE req[r].kind \in {"none", "Originate"} -> {}
    [] req[r].kind = "Broadcast"             -> IF req[r].pc = "wait" THEN {req[r].a} ELSE {}
    [] req[r].kind = "Bridge"                -> IF req[r].pc = "wait" THEN {req[r].b} ELSE {}
    [] req[r].kind = "BridgeCall"            -> {req[r].a, req[r].b}
    [] OTHER                                 -> {req[r].a}

\* The handlers that return the lock of a session and then use its channel.
LateKinds == {"Hangup", "SetEavesdropState"}

\* No handler works on the channel of a session that was destroyed, whatever the legs and
\* the other requests do meanwhile, but the two of LateKinds: Hangup may hang the channel
\* up, and SetEavesdropState fire its event on it, after the session is gone.
WorksOnLegs ==
  \A r \in Requests : \A l \in Works(r) : life[l] = "destroyed" => req[r].kind \in LateKinds

\* The two legs are named by a request that bridges them.
Pair(l, m) ==
  \E r \in Requests : \E ask \in Asks[r] :
    /\ ask.kind \in {"Bridge", "BridgeCall"}
    /\ (l = ask.a /\ m = ask.b) \/ (l = ask.b /\ m = ask.a)

\* The requests that bridge legs keep apart: however many there are, a leg is to be
\* bridged with one other leg only, and with none while it is the far leg of another.
\* What is promised of the transfer variables and of the recordings rests on it:
\* requests about overlapping legs overwrite each other's.
Apart ==
  \A l, m, n \in Legs :
    Pair(l, m) => l # m /\ (Pair(l, n) => n = m) /\ ~Pair(Bridged[l], n)

\* When the bridge of a BridgeCall ends the calls of the two former partners, each of
\* them already carries the leg it was transferred from, or to: their hangup reports
\* are made from these variables and come too soon for a handler that would set them
\* after the bridge.
TransferLinked ==
  \A l \in Legs :
    swept[l].pa # Nobody =>
      /\ l = swept[l].pa => from[l] = swept[l].b
      /\ l = swept[l].pb => to[l] = swept[l].a

\* A recording that follows transfers goes on after the bridge of a BridgeCall, in one
\* place: the leg that had it is ended by the bridge only after its recording has been
\* moved, unless the call it joins is recorded already.
RecordingGoesOn ==
  [][\A l \in Legs :
       LET t == swept'[l] IN
       (swept[l] # t /\ t.pa # Nobody /\ l = t.pa /\ l \in rec) => t.a \in rec \/ t.b \in rec]_vars

\* A leg made by Originate does not outlive the request when the leg it was made for
\* was gone by the time it answered, however long that took.
OriginateChecked ==
  \A r \in Requests : r \in missed /\ ~Busy(r) => r \notin born

\* Whatever requests work on it, a leg that has hung up is destroyed at last: every
\* handler returns its locks, the ones that wait for the leg's thread as well.
LegsFreed ==
  \A l \in Legs : life[l] = "hungup" ~> life[l] = "destroyed"
=============================================================================
