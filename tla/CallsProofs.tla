----------------------------- MODULE CallsProofs -----------------------------
(***************************************************************************)
(* Theorems about Calls, for any legs, requests and bounds.                *)
(***************************************************************************)
EXTENDS Calls, TLAPS

\* A request that joins two legs names both.
Named == \A r \in Requests : req[r].kind \in {"Bridge", "BridgeCall"} => req[r].b \in Legs

TypeInv == TypeOK /\ Named

\* What TypeInv says of the requests, and of all else.
RequestsTyped ==
  /\ req \in [Requests -> {Idle} \cup Records] /\ Named
  /\ asked \in [Requests -> Nat]
LegsTyped ==
  /\ life \in [Legs -> {"up", "hungup", "destroyed"}]
  /\ partner \in [Legs -> Some]
  /\ media \in [Legs -> {"none", "playing", "parked"}]
  /\ rec \subseteq Legs
  /\ from \in [Legs -> Some] /\ to \in [Legs -> Some]
  /\ bridges \subseteq Transfers
  /\ swept \in [Legs -> Transfers]
OriginateTyped == born \subseteq Requests /\ missed \subseteq Requests

LEMMA TypeParts == TypeInv <=> RequestsTyped /\ LegsTyped /\ OriginateTyped
  BY DEF TypeInv, TypeOK, RequestsTyped, LegsTyped, OriginateTyped

\* A request that is up to something has the record of a busy one.
LEMMA BusyRecord ==
  ASSUME RequestsTyped, NEW r \in Requests, req[r].kind # "none"
  PROVE  req[r] \in Records
  BY DEF RequestsTyped, Idle

\* A request that is taken up.
LEMMA StartRecord ==
  ASSUME RequestsTyped, NEW r \in Requests, NEW ask \in Asks[r],
         NEW pc \in Places, NEW locks \in SUBSET Legs, Start(r, ask, pc, locks)
  PROVE  /\ \E record \in Records :
              /\ req' = [req EXCEPT ![r] = record]
              /\ record.kind = ask.kind /\ record.pc = pc /\ record.locks = locks
              /\ record.a = ask.a /\ record.b = ask.b
         /\ RequestsTyped'
<1> DEFINE record == [kind |-> ask.kind, pc |-> pc, a |-> ask.a, b |-> ask.b,
                      pa |-> Nobody, pb |-> Nobody, locks |-> locks]
<1>1. /\ record \in Records
      /\ record.kind \in {"Bridge", "BridgeCall"} => record.b \in Legs
  BY CallsAssumption DEF Records, Some
<1>2. req' = [req EXCEPT ![r] = record]
  BY DEF Start
<1>3. asked' \in [Requests -> Nat]
  BY DEF Start, Take, RequestsTyped
<1> QED
  BY <1>1, <1>2, <1>3 DEF RequestsTyped, Named

\* A request that goes on in another place, with other locks.
LEMMA StepRecord ==
  ASSUME RequestsTyped, NEW r \in Requests, req[r].kind # "none",
         NEW pc \in Places, NEW locks \in SUBSET Legs, Step(r, pc, locks)
  PROVE  /\ \E record \in Records :
              /\ req' = [req EXCEPT ![r] = record]
              /\ record.kind = req[r].kind /\ record.pc = pc /\ record.locks = locks
              /\ record.a = req[r].a /\ record.b = req[r].b
              /\ record.pa = req[r].pa /\ record.pb = req[r].pb
         /\ RequestsTyped'
<1> DEFINE record == [req[r] EXCEPT !.pc = pc, !.locks = locks]
<1>1. /\ record \in Records
      /\ record.kind = req[r].kind /\ record.pc = pc /\ record.locks = locks
      /\ record.a = req[r].a /\ record.b = req[r].b
      /\ record.pa = req[r].pa /\ record.pb = req[r].pb
  BY BusyRecord DEF Records
<1>2. req' = [req EXCEPT ![r] = record] /\ asked' = asked
  BY DEF Step, RequestsTyped
<1> QED
  BY <1>1, <1>2 DEF RequestsTyped, Named

\* A request that ends.
LEMMA DoneRecord ==
  ASSUME RequestsTyped, NEW r \in Requests, Done(r)
  PROVE  req' = [req EXCEPT ![r] = Idle] /\ RequestsTyped'
  BY DEF Done, RequestsTyped, Named, Idle

-----------------------------------------------------------------------------
\* Legs that hang up stay typed.
LEMMA HangUpTyped ==
  ASSUME LegsTyped, NEW legs, HangUp(legs), UNCHANGED transferVars
  PROVE  LegsTyped'
  BY DEF LegsTyped, HangUp, transferVars, Some

\* A bridge that is accepted joins two legs, or no more is known of them.
LEMMA UuidBridgeTyped ==
  ASSUME LegsTyped, NEW t \in Transfers, UuidBridge(t), UNCHANGED <<legVars, from, to, swept>>
  PROVE  LegsTyped'
  BY DEF LegsTyped, UuidBridge, legVars

LEMMA TypeInvariant == Spec => []TypeInv
<1>1. Init => TypeInv
  BY CallsAssumption DEF Init, TypeInv, TypeOK, Named, Idle, NoTransfer, Transfers, Some
<1>2. TypeInv /\ [Next]_vars => TypeInv'
  <2> SUFFICES ASSUME RequestsTyped, LegsTyped, OriginateTyped, [Next]_vars
               PROVE  RequestsTyped' /\ LegsTyped' /\ OriginateTyped'
    BY TypeParts, PTL
  <2>1. ASSUME NEW l \in Legs, LegHangsUp(l)
       PROVE  RequestsTyped' /\ LegsTyped' /\ OriginateTyped'
    BY <2>1, HangUpTyped DEF LegHangsUp, RequestsTyped, Named, requestVars, OriginateTyped
  <2>2. ASSUME NEW l \in Legs, Destroy(l)
       PROVE  RequestsTyped' /\ LegsTyped' /\ OriginateTyped'
    BY <2>2 DEF Destroy, LegsTyped, NoTransfer, Transfers, Some, RequestsTyped, Named, requestVars,
       OriginateTyped
  <2>3. ASSUME NEW l \in Legs, LegPlays(l)
       PROVE  RequestsTyped' /\ LegsTyped' /\ OriginateTyped'
    BY <2>3 DEF LegPlays, LegsTyped, transferVars, RequestsTyped, Named, requestVars, OriginateTyped
  <2>4. ASSUME NEW t \in bridges, MakeBridge(t)
       PROVE  RequestsTyped' /\ LegsTyped' /\ OriginateTyped'
    <3>1. t \in Transfers /\ t.a \in Some /\ t.b \in Some
      BY DEF LegsTyped, Transfers
    <3>2. CASE life[t.a] = "up" /\ life[t.b] = "up"
      <4> DEFINE former == {l \in Legs \ {t.a, t.b} : partner[l] \in {t.a, t.b}}
      <4>1. /\ life' = [l \in Legs |-> IF l \in former THEN "hungup" ELSE life[l]]
            /\ partner' = [l \in Legs |-> CASE l = t.a -> t.b [] l = t.b -> t.a
                                             [] l \in former -> Nobody [] OTHER -> partner[l]]
            /\ media' = [l \in Legs |-> IF l \in former \cup {t.a, t.b} THEN "none" ELSE media[l]]
            /\ rec' = rec \ former
            /\ swept' = [l \in Legs |-> IF l \in former /\ t.pa # Nobody THEN t ELSE swept[l]]
        BY <2>4, <3>2 DEF MakeBridge
      <4>2. partner' \in [Legs -> Some]
        BY <4>1, <3>1 DEF LegsTyped, Some
      <4>3. /\ life' \in [Legs -> {"up", "hungup", "destroyed"}]
            /\ media' \in [Legs -> {"none", "playing", "parked"}]
            /\ rec' \subseteq Legs /\ swept' \in [Legs -> Transfers]
        BY <4>1, <3>1 DEF LegsTyped
      <4> QED
        BY <2>4, <4>2, <4>3 DEF MakeBridge, LegsTyped, RequestsTyped, Named, OriginateTyped, requestVars
    <3>3. CASE ~(life[t.a] = "up" /\ life[t.b] = "up")
      BY <2>4, <3>3 DEF MakeBridge, LegsTyped, RequestsTyped, Named, OriginateTyped, requestVars,
         legVars
    <3> QED
      BY <3>2, <3>3
  <2>5. ASSUME NEW r \in Requests, NEW ask \in Asks[r], HangupFind(r, ask)
       PROVE  RequestsTyped' /\ LegsTyped' /\ OriginateTyped'
    <3>1. RequestsTyped'
      BY <2>5, StartRecord, CallsAssumption DEF HangupFind, Places
    <3>2. LegsTyped' /\ OriginateTyped'
      BY <2>5 DEF HangupFind, LegsTyped, OriginateTyped, legVars, transferVars
    <3> QED
      BY <3>1, <3>2
  <2>6. ASSUME NEW r \in Requests, NEW ask \in Asks[r], HangupManyFind(r, ask)
       PROVE  RequestsTyped' /\ LegsTyped' /\ OriginateTyped'
    <3>1. RequestsTyped'
      BY <2>6, StartRecord, CallsAssumption DEF HangupManyFind, Places
    <3>2. LegsTyped' /\ OriginateTyped'
      BY <2>6 DEF HangupManyFind, LegsTyped, OriginateTyped, legVars, transferVars
    <3> QED
      BY <3>1, <3>2
  <2>7. ASSUME NEW r \in Requests, NEW ask \in Asks[r], StopPlaybackFind(r, ask)
       PROVE  RequestsTyped' /\ LegsTyped' /\ OriginateTyped'
    <3>1. RequestsTyped'
      BY <2>7, StartRecord, CallsAssumption DEF StopPlaybackFind, Places
    <3>2. LegsTyped' /\ OriginateTyped'
      BY <2>7 DEF StopPlaybackFind, LegsTyped, OriginateTyped, legVars, transferVars
    <3> QED
      BY <3>1, <3>2
  <2>8. ASSUME NEW r \in Requests, NEW ask \in Asks[r], BroadcastFind(r, ask)
       PROVE  RequestsTyped' /\ LegsTyped' /\ OriginateTyped'
    <3>1. RequestsTyped'
      BY <2>8, StartRecord, CallsAssumption DEF BroadcastFind, Places
    <3>2. LegsTyped' /\ OriginateTyped'
      BY <2>8 DEF BroadcastFind, LegsTyped, OriginateTyped, legVars, transferVars
    <3> QED
      BY <3>1, <3>2
  <2>9. ASSUME NEW r \in Requests, NEW ask \in Asks[r], QueueFind(r, ask)
       PROVE  RequestsTyped' /\ LegsTyped' /\ OriginateTyped'
    <3>1. RequestsTyped'
      BY <2>9, StartRecord, CallsAssumption DEF QueueFind, Places
    <3>2. LegsTyped' /\ OriginateTyped'
      BY <2>9 DEF QueueFind, LegsTyped, OriginateTyped, legVars, transferVars
    <3> QED
      BY <3>1, <3>2
  <2>10. ASSUME NEW r \in Requests, NEW ask \in Asks[r], BlindTransferFind(r, ask)
       PROVE  RequestsTyped' /\ LegsTyped' /\ OriginateTyped'
    <3>1. RequestsTyped'
      BY <2>10, StartRecord, CallsAssumption DEF BlindTransferFind, Places
    <3>2. LegsTyped' /\ OriginateTyped'
      BY <2>10 DEF BlindTransferFind, LegsTyped, OriginateTyped, legVars, transferVars
    <3> QED
      BY <3>1, <3>2
  <2>11. ASSUME NEW r \in Requests, NEW ask \in Asks[r], Originate(r, ask)
       PROVE  RequestsTyped' /\ LegsTyped' /\ OriginateTyped'
    <3>1. RequestsTyped'
      BY <2>11, StartRecord, CallsAssumption DEF Originate, Places
    <3>2. LegsTyped' /\ OriginateTyped'
      BY <2>11 DEF Originate, LegsTyped, OriginateTyped, legVars, transferVars
    <3> QED
      BY <3>1, <3>2
  <2>12. ASSUME NEW r \in Requests, NEW ask \in Asks[r], BridgeFind(r, ask)
       PROVE  RequestsTyped' /\ LegsTyped' /\ OriginateTyped'
    <3>1. RequestsTyped'
      BY <2>12, StartRecord, CallsAssumption DEF BridgeFind, Places
    <3>2. LegsTyped' /\ OriginateTyped'
      BY <2>12 DEF BridgeFind, LegsTyped, OriginateTyped, legVars, transferVars
    <3> QED
      BY <3>1, <3>2
  <2>13. ASSUME NEW r \in Requests, NEW ask \in Asks[r], BreakPark(r, ask)
       PROVE  RequestsTyped' /\ LegsTyped' /\ OriginateTyped'
    <3>1. RequestsTyped'
      BY <2>13 DEF BreakPark, Take, RequestsTyped, Named
    <3>2. LegsTyped' /\ OriginateTyped'
      BY <2>13 DEF BreakPark, LegsTyped, OriginateTyped, transferVars
    <3> QED
      BY <3>1, <3>2
  <2>14. ASSUME NEW r \in Requests, NEW ask \in Asks[r], BridgeCallFind(r, ask)
       PROVE  RequestsTyped' /\ LegsTyped' /\ OriginateTyped'
    <3> DEFINE record == [kind |-> "BridgeCall", pc |-> "link", a |-> ask.a, b |-> ask.b,
                          pa |-> partner[ask.a], pb |-> partner[ask.b], locks |-> {ask.a, ask.b}]
    <3>1. ask.a \in Legs /\ ask.b \in Legs
      BY <2>14, CallsAssumption DEF BridgeCallFind
    <3>2. record \in Records
      BY <3>1 DEF Records, Kinds, Places, Some, LegsTyped
    <3>3. req' = [req EXCEPT ![r] = record] /\ asked' \in [Requests -> Nat]
      BY <2>14 DEF BridgeCallFind, Take, RequestsTyped
    <3>4. RequestsTyped'
      BY <3>1, <3>2, <3>3 DEF RequestsTyped, Named
    <3> QED
      BY <2>14, <3>4 DEF BridgeCallFind, LegsTyped, OriginateTyped, legVars, transferVars
  <2>15. ASSUME NEW r \in Requests, HangupLate(r)
       PROVE  RequestsTyped' /\ LegsTyped' /\ OriginateTyped'
    BY <2>15, DoneRecord, HangUpTyped DEF HangupLate, OriginateTyped
  <2>16. ASSUME NEW r \in Requests, HangupManyHangup(r)
       PROVE  RequestsTyped' /\ LegsTyped' /\ OriginateTyped'
    BY <2>16, DoneRecord, HangUpTyped DEF HangupManyHangup, OriginateTyped
  <2>17. ASSUME NEW r \in Requests, StopPlaybackWait(r)
       PROVE  RequestsTyped' /\ LegsTyped' /\ OriginateTyped'
    BY <2>17, DoneRecord DEF StopPlaybackWait, LegsTyped, OriginateTyped, legVars, transferVars
  <2>18. ASSUME NEW r \in Requests, OriginateFails(r)
       PROVE  RequestsTyped' /\ LegsTyped' /\ OriginateTyped'
    BY <2>18, DoneRecord DEF OriginateFails, LegsTyped, OriginateTyped, legVars, transferVars
  <2>19. ASSUME NEW r \in Requests, BridgeWait(r)
       PROVE  RequestsTyped' /\ LegsTyped' /\ OriginateTyped'
    BY <2>19, DoneRecord DEF BridgeWait, LegsTyped, OriginateTyped, legVars, transferVars
  <2>20. ASSUME NEW r \in Requests, BroadcastWait(r)
       PROVE  RequestsTyped' /\ LegsTyped' /\ OriginateTyped'
    <3>1. RequestsTyped'
      BY <2>20, StepRecord DEF BroadcastWait, At, Places
    <3>2. LegsTyped' /\ OriginateTyped'
      BY <2>20 DEF BroadcastWait, LegsTyped, OriginateTyped, legVars, transferVars
    <3> QED
      BY <3>1, <3>2
  <2>21. ASSUME NEW r \in Requests, BroadcastPlay(r)
       PROVE  RequestsTyped' /\ LegsTyped' /\ OriginateTyped'
    BY <2>21, DoneRecord DEF BroadcastPlay, Play, LegsTyped, OriginateTyped, transferVars
  <2>22. ASSUME NEW r \in Requests, QueuePlay(r)
       PROVE  RequestsTyped' /\ LegsTyped' /\ OriginateTyped'
    BY <2>22, DoneRecord DEF QueuePlay, Play, LegsTyped, OriginateTyped, transferVars
  <2>23. ASSUME NEW r \in Requests, BlindTransferGo(r)
       PROVE  RequestsTyped' /\ LegsTyped' /\ OriginateTyped'
    BY <2>23, DoneRecord DEF BlindTransferGo, LegsTyped, Some, OriginateTyped, transferVars
  <2>24. ASSUME NEW r \in Requests, OriginateAnswered(r)
       PROVE  RequestsTyped' /\ LegsTyped' /\ OriginateTyped'
    <3>1. RequestsTyped'
      BY <2>24, StepRecord DEF OriginateAnswered, At, Places
    <3>2. LegsTyped' /\ OriginateTyped'
      BY <2>24 DEF OriginateAnswered, LegsTyped, OriginateTyped, legVars, transferVars
    <3> QED
      BY <3>1, <3>2
  <2>25. ASSUME NEW r \in Requests, OriginateCheck(r)
       PROVE  RequestsTyped' /\ LegsTyped' /\ OriginateTyped'
    BY <2>25, DoneRecord DEF OriginateCheck, Gone, LegsTyped, OriginateTyped, legVars, transferVars
  <2>26. ASSUME NEW r \in Requests, BornHangsUp(r)
       PROVE  RequestsTyped' /\ LegsTyped' /\ OriginateTyped'
    BY <2>26 DEF BornHangsUp, Gone, LegsTyped, OriginateTyped, RequestsTyped, Named, legVars,
       transferVars, requestVars
  <2>27. ASSUME NEW r \in Requests, BridgeAsk(r)
       PROVE  RequestsTyped' /\ LegsTyped' /\ OriginateTyped'
    <3> req[r] \in Records /\ req[r].kind # "none"
      BY <2>27, BusyRecord DEF BridgeAsk, At
    <3>1. RequestsTyped'
      BY <2>27, StepRecord, DoneRecord DEF BridgeAsk, Places
    <3>2. [NoTransfer EXCEPT !.a = req[r].a, !.b = req[r].b] \in Transfers
      BY DEF NoTransfer, Transfers, Some, Records
    <3>3. LegsTyped'
      BY <2>27, <3>2, UuidBridgeTyped DEF BridgeAsk
    <3> QED
      BY <2>27, <3>1, <3>3 DEF BridgeAsk, OriginateTyped
  <2>28. ASSUME NEW r \in Requests, BridgeFindB(r)
       PROVE  RequestsTyped' /\ LegsTyped' /\ OriginateTyped'
    <3> req[r] \in Records /\ req[r].kind # "none" /\ req[r].b \in Legs
      BY <2>28, BusyRecord DEF BridgeFindB, At, RequestsTyped, Named
    <3>1. RequestsTyped'
      BY <2>28, StepRecord, DoneRecord DEF BridgeFindB, Places
    <3> QED
      BY <2>28, <3>1 DEF BridgeFindB, LegsTyped, OriginateTyped, legVars, transferVars
  <2>29. ASSUME NEW r \in Requests, BridgeCallFrom(r)
       PROVE  RequestsTyped' /\ LegsTyped' /\ OriginateTyped'
    <3> req[r] \in Records /\ req[r].kind # "none"
      BY <2>29, BusyRecord DEF BridgeCallFrom, At
    <3>1. RequestsTyped'
      BY <2>29, StepRecord DEF BridgeCallFrom, Records, Places
    <3> QED
      BY <2>29, <3>1 DEF BridgeCallFrom, SetPartner, LegsTyped, OriginateTyped, Some, Records, legVars
  <2>30. ASSUME NEW r \in Requests, BridgeCallTo(r)
       PROVE  RequestsTyped' /\ LegsTyped' /\ OriginateTyped'
    <3> req[r] \in Records /\ req[r].kind # "none"
      BY <2>30, BusyRecord DEF BridgeCallTo, At
    <3>1. RequestsTyped'
      BY <2>30, StepRecord DEF BridgeCallTo, Records, Places
    <3> QED
      BY <2>30, <3>1 DEF BridgeCallTo, SetPartner, LegsTyped, OriginateTyped, Some, Records, legVars
  <2>31. ASSUME NEW r \in Requests, BridgeCallRecord(r)
       PROVE  RequestsTyped' /\ LegsTyped' /\ OriginateTyped'
    <3> req[r] \in Records /\ req[r].kind # "none"
      BY <2>31, BusyRecord DEF BridgeCallRecord, At
    <3>1. RequestsTyped'
      BY <2>31, StepRecord DEF BridgeCallRecord, Records, Places
    <3> QED
      BY <2>31, <3>1 DEF BridgeCallRecord, transferVars, LegsTyped, OriginateTyped, Some, Records,
         legVars
  <2>32. ASSUME NEW r \in Requests, BridgeCallBridge(r)
       PROVE  RequestsTyped' /\ LegsTyped' /\ OriginateTyped'
    <3> req[r] \in Records
      BY <2>32, BusyRecord DEF BridgeCallBridge, At
    <3>1. [a |-> req[r].a, b |-> req[r].b, pa |-> req[r].pa, pb |-> req[r].pb] \in Transfers
      BY DEF Records, Transfers, Some
    <3>2. LegsTyped'
      BY <2>32, <3>1, UuidBridgeTyped DEF BridgeCallBridge
    <3> QED
      BY <2>32, <3>2, DoneRecord DEF BridgeCallBridge, OriginateTyped
  <2>34. ASSUME NEW r \in Requests, NEW ask \in Asks[r], SetStateFind(r, ask)
       PROVE  RequestsTyped' /\ LegsTyped' /\ OriginateTyped'
    <3>1. RequestsTyped'
      BY <2>34, StartRecord, CallsAssumption DEF SetStateFind, Places
    <3>2. LegsTyped' /\ OriginateTyped'
      BY <2>34 DEF SetStateFind, LegsTyped, OriginateTyped, legVars, transferVars
    <3> QED
      BY <3>1, <3>2
  <2>35. ASSUME NEW r \in Requests, SetStateFire(r)
       PROVE  RequestsTyped' /\ LegsTyped' /\ OriginateTyped'
    BY <2>35, DoneRecord DEF SetStateFire, LegsTyped, OriginateTyped, legVars, transferVars
  <2>33. CASE UNCHANGED vars
    BY <2>33 DEF vars, legVars, transferVars, requestVars, LegsTyped, RequestsTyped, Named,
       OriginateTyped
  <2> QED
    BY <2>1, <2>2, <2>3, <2>4, <2>5, <2>6, <2>7, <2>8, <2>9, <2>10, <2>11, <2>12,
       <2>13, <2>14, <2>15, <2>16, <2>17, <2>18, <2>19, <2>20, <2>21, <2>22, <2>23, <2>24,
       <2>25, <2>26, <2>27, <2>28, <2>29, <2>30, <2>31, <2>32, <2>33, <2>34, <2>35
       DEF Next, Core, Begin, GoOn
<1>3. QED
  BY <1>1, <1>2, PTL DEF Spec

\* Every variable keeps its type.
THEOREM TypeCorrect == Spec => []TypeOK
<1>1. TypeInv => TypeOK
  BY DEF TypeInv
<1>2. QED
  BY TypeInvariant, <1>1, PTL

-----------------------------------------------------------------------------
(* A handler other than those of LateKinds works on the channel of a leg    *)
(* only while it holds the leg's read lock, and a lock is taken on a leg    *)
(* that is not destroyed.                                                   *)

Guarded(r) == IF req[r].kind \in LateKinds THEN {} ELSE Works(r)

Held == \A r \in Requests : Guarded(r) \subseteq req[r].locks
Alive == \A r \in Requests : \A l \in req[r].locks : life[l] # "destroyed"
LocksInv == Held /\ Alive

\* No step but Destroy destroys a leg.
LEMMA HangUpSpares ==
  ASSUME LegsTyped, NEW legs, HangUp(legs), NEW l \in Legs
  PROVE  life'[l] = "destroyed" => life[l] = "destroyed"
  BY DEF LegsTyped, HangUp

\* The locks of one request change, to those of legs that are not destroyed and
\* cover what it works on.
LEMMA RequestMoves ==
  ASSUME RequestsTyped, LocksInv, NEW r \in Requests,
         NEW record \in Records \cup {Idle}, req' = [req EXCEPT ![r] = record],
         \A l \in Legs : life'[l] = "destroyed" => life[l] = "destroyed",
         record.locks \subseteq {l \in Legs : life[l] # "destroyed"},
         Guarded(r)' \subseteq record.locks
  PROVE  LocksInv'
<1>1. \A q \in Requests \ {r} : req'[q] = req[q] /\ Guarded(q)' = Guarded(q)
  BY DEF Guarded, Works, LateKinds, RequestsTyped
<1>2. \A q \in Requests : req[q].locks \subseteq Legs
  BY DEF RequestsTyped, Records, Idle
<1>3. req'[r] = record
  BY DEF RequestsTyped
<1> QED
  BY <1>1, <1>2, <1>3 DEF LocksInv, Held, Alive

\* Nothing happens to the requests, and no leg is destroyed that one has locked.
LEMMA RequestsStay ==
  ASSUME RequestsTyped, LocksInv, UNCHANGED req,
         \A l \in Legs : life'[l] = "destroyed" =>
           life[l] = "destroyed" \/ \A r \in Requests : l \notin req[r].locks
  PROVE  LocksInv'
<1>1. \A q \in Requests : Guarded(q)' = Guarded(q) /\ req[q].locks \subseteq Legs
  BY DEF Guarded, Works, LateKinds, RequestsTyped, Records, Idle
<1> QED
  BY <1>1 DEF LocksInv, Held, Alive

LEMMA LocksInvariant == Spec => []LocksInv
<1>1. Init => LocksInv
  BY DEF Init, LocksInv, Held, Alive, Guarded, Works, LateKinds, Idle
<1>2. TypeInv /\ LocksInv /\ [Next]_vars => LocksInv'
  <2> SUFFICES ASSUME RequestsTyped, LegsTyped, LocksInv, [Next]_vars PROVE LocksInv'
    BY TypeParts
  <2>1. ASSUME NEW l \in Legs, LegHangsUp(l) PROVE LocksInv'
    BY <2>1, HangUpSpares, RequestsStay DEF LegHangsUp, requestVars
  <2>2. ASSUME NEW l \in Legs, Destroy(l) PROVE LocksInv'
    BY <2>2, RequestsStay DEF Destroy, LegsTyped, requestVars
  <2>3. ASSUME NEW l \in Legs, LegPlays(l) PROVE LocksInv'
    BY <2>3, RequestsStay DEF LegPlays, LegsTyped, requestVars
  <2>4. ASSUME NEW t \in bridges, MakeBridge(t) PROVE LocksInv'
    BY <2>4, RequestsStay DEF MakeBridge, LegsTyped, legVars, requestVars
  <2>5. ASSUME NEW r \in Requests, NEW ask \in Asks[r], HangupFind(r, ask) PROVE LocksInv'
    <3>1. PICK record \in Records, pc \in Places, locks \in SUBSET {ask.a} :
                 /\ req' = [req EXCEPT ![r] = record]
                 /\ record.kind = ask.kind /\ record.pc = pc /\ record.locks = locks
                 /\ record.a = ask.a /\ record.b = ask.b
                 /\ pc = "unlocked"
      BY <2>5, StartRecord, CallsAssumption DEF HangupFind, Places
    <3>2. Guarded(r)' \subseteq record.locks
      BY <2>5, <3>1 DEF HangupFind, Guarded, Works, LateKinds, RequestsTyped
    <3>3. ask.a \in Legs
      BY CallsAssumption
    <3> QED
      BY <2>5, <3>1, <3>2, <3>3, RequestMoves DEF HangupFind, Located, legVars
  <2>6. ASSUME NEW r \in Requests, NEW ask \in Asks[r], HangupManyFind(r, ask) PROVE LocksInv'
    <3>1. PICK record \in Records, pc \in Places, locks \in SUBSET {ask.a} :
                 /\ req' = [req EXCEPT ![r] = record]
                 /\ record.kind = ask.kind /\ record.pc = pc /\ record.locks = locks
                 /\ record.a = ask.a /\ record.b = ask.b
                 /\ locks = {ask.a}
      BY <2>6, StartRecord, CallsAssumption DEF HangupManyFind, Places
    <3>2. Guarded(r)' \subseteq record.locks
      BY <2>6, <3>1 DEF HangupManyFind, Guarded, Works, LateKinds, RequestsTyped
    <3>3. ask.a \in Legs
      BY CallsAssumption
    <3> QED
      BY <2>6, <3>1, <3>2, <3>3, RequestMoves DEF HangupManyFind, Located, legVars
  <2>7. ASSUME NEW r \in Requests, NEW ask \in Asks[r], StopPlaybackFind(r, ask) PROVE LocksInv'
    <3>1. PICK record \in Records, pc \in Places, locks \in SUBSET {ask.a} :
                 /\ req' = [req EXCEPT ![r] = record]
                 /\ record.kind = ask.kind /\ record.pc = pc /\ record.locks = locks
                 /\ record.a = ask.a /\ record.b = ask.b
                 /\ locks = {ask.a}
      BY <2>7, StartRecord, CallsAssumption DEF StopPlaybackFind, Places
    <3>2. Guarded(r)' \subseteq record.locks
      BY <2>7, <3>1 DEF StopPlaybackFind, Guarded, Works, LateKinds, RequestsTyped
    <3>3. ask.a \in Legs
      BY CallsAssumption
    <3> QED
      BY <2>7, <3>1, <3>2, <3>3, RequestMoves DEF StopPlaybackFind, Located, legVars
  <2>8. ASSUME NEW r \in Requests, NEW ask \in Asks[r], BroadcastFind(r, ask) PROVE LocksInv'
    <3>1. PICK record \in Records, pc \in Places, locks \in SUBSET {ask.a} :
                 /\ req' = [req EXCEPT ![r] = record]
                 /\ record.kind = ask.kind /\ record.pc = pc /\ record.locks = locks
                 /\ record.a = ask.a /\ record.b = ask.b
                 /\ locks = {ask.a} \/ pc = "unlocked"
      BY <2>8, StartRecord, CallsAssumption DEF BroadcastFind, Places
    <3>2. Guarded(r)' \subseteq record.locks
      BY <2>8, <3>1 DEF BroadcastFind, Guarded, Works, LateKinds, RequestsTyped
    <3>3. ask.a \in Legs
      BY CallsAssumption
    <3> QED
      BY <2>8, <3>1, <3>2, <3>3, RequestMoves DEF BroadcastFind, Located, legVars
  <2>9. ASSUME NEW r \in Requests, NEW ask \in Asks[r], QueueFind(r, ask) PROVE LocksInv'
    <3>1. PICK record \in Records, pc \in Places, locks \in SUBSET {ask.a} :
                 /\ req' = [req EXCEPT ![r] = record]
                 /\ record.kind = ask.kind /\ record.pc = pc /\ record.locks = locks
                 /\ record.a = ask.a /\ record.b = ask.b
                 /\ locks = {ask.a}
      BY <2>9, StartRecord, CallsAssumption DEF QueueFind, Places
    <3>2. Guarded(r)' \subseteq record.locks
      BY <2>9, <3>1 DEF QueueFind, Guarded, Works, LateKinds, RequestsTyped
    <3>3. ask.a \in Legs
      BY CallsAssumption
    <3> QED
      BY <2>9, <3>1, <3>2, <3>3, RequestMoves DEF QueueFind, ForceLocated, legVars
  <2>10. ASSUME NEW r \in Requests, NEW ask \in Asks[r], BlindTransferFind(r, ask) PROVE LocksInv'
    <3>1. PICK record \in Records, pc \in Places, locks \in SUBSET {ask.a} :
                 /\ req' = [req EXCEPT ![r] = record]
                 /\ record.kind = ask.kind /\ record.pc = pc /\ record.locks = locks
                 /\ record.a = ask.a /\ record.b = ask.b
                 /\ locks = {ask.a}
      BY <2>10, StartRecord, CallsAssumption DEF BlindTransferFind, Places
    <3>2. Guarded(r)' \subseteq record.locks
      BY <2>10, <3>1 DEF BlindTransferFind, Guarded, Works, LateKinds, RequestsTyped
    <3>3. ask.a \in Legs
      BY CallsAssumption
    <3> QED
      BY <2>10, <3>1, <3>2, <3>3, RequestMoves DEF BlindTransferFind, Located, legVars
  <2>11. ASSUME NEW r \in Requests, NEW ask \in Asks[r], Originate(r, ask) PROVE LocksInv'
    <3>1. PICK record \in Records, pc \in Places, locks \in SUBSET {ask.a} :
                 /\ req' = [req EXCEPT ![r] = record]
                 /\ record.kind = ask.kind /\ record.pc = pc /\ record.locks = locks
                 /\ record.a = ask.a /\ record.b = ask.b
                 /\ locks = {}
      BY <2>11, StartRecord, CallsAssumption DEF Originate, Places
    <3>2. Guarded(r)' \subseteq record.locks
      BY <2>11, <3>1 DEF Originate, Guarded, Works, LateKinds, RequestsTyped
    <3>3. ask.a \in Legs
      BY CallsAssumption
    <3> QED
      BY <2>11, <3>1, <3>2, <3>3, RequestMoves DEF Originate, Located, legVars
  <2>12. ASSUME NEW r \in Requests, NEW ask \in Asks[r], BridgeFind(r, ask) PROVE LocksInv'
    <3>1. PICK record \in Records, pc \in Places, locks \in SUBSET {ask.a} :
                 /\ req' = [req EXCEPT ![r] = record]
                 /\ record.kind = ask.kind /\ record.pc = pc /\ record.locks = locks
                 /\ record.a = ask.a /\ record.b = ask.b
                 /\ pc = "bridge" /\ locks = {}
      BY <2>12, StartRecord, CallsAssumption DEF BridgeFind, Places
    <3>2. Guarded(r)' \subseteq record.locks
      BY <2>12, <3>1 DEF BridgeFind, Guarded, Works, LateKinds, RequestsTyped
    <3>3. ask.a \in Legs
      BY CallsAssumption
    <3> QED
      BY <2>12, <3>1, <3>2, <3>3, RequestMoves DEF BridgeFind, Located, legVars
  <2>13. ASSUME NEW r \in Requests, NEW ask \in Asks[r], BreakPark(r, ask) PROVE LocksInv'
    BY <2>13, RequestsStay DEF BreakPark
  <2>14. ASSUME NEW r \in Requests, NEW ask \in Asks[r], BridgeCallFind(r, ask) PROVE LocksInv'
    <3> DEFINE record == [kind |-> "BridgeCall", pc |-> "link", a |-> ask.a, b |-> ask.b,
                          pa |-> partner[ask.a], pb |-> partner[ask.b], locks |-> {ask.a, ask.b}]
    <3>1. ask.a \in Legs /\ ask.b \in Legs
      BY <2>14, CallsAssumption DEF BridgeCallFind
    <3>2. record \in Records
      BY <3>1 DEF Records, Kinds, Places, Some, LegsTyped
    <3>3. req' = [req EXCEPT ![r] = record]
      BY <2>14 DEF BridgeCallFind
    <3>4. Guarded(r)' \subseteq record.locks
      BY <3>3 DEF Guarded, Works, LateKinds, RequestsTyped
    <3>5. record.locks \subseteq {l \in Legs : life[l] # "destroyed"}
      BY <2>14, <3>1 DEF BridgeCallFind, Located
    <3>6. UNCHANGED life
      BY <2>14 DEF BridgeCallFind, legVars
    <3> HIDE DEF record
    <3> QED
      BY <3>2, <3>3, <3>4, <3>5, <3>6, RequestMoves
  <2>15. ASSUME NEW r \in Requests, HangupLate(r) PROVE LocksInv'
    <3>1. req' = [req EXCEPT ![r] = Idle]
      BY <2>15, DoneRecord DEF HangupLate
    <3>2. Guarded(r)' \subseteq Idle.locks /\ Idle.locks = {}
      BY <3>1 DEF Guarded, Works, LateKinds, RequestsTyped, Idle
    <3> QED
      BY <2>15, <3>1, <3>2, RequestMoves, HangUpSpares DEF HangupLate, legVars
  <2>16. ASSUME NEW r \in Requests, HangupManyHangup(r) PROVE LocksInv'
    <3>1. req' = [req EXCEPT ![r] = Idle]
      BY <2>16, DoneRecord DEF HangupManyHangup
    <3>2. Guarded(r)' \subseteq Idle.locks /\ Idle.locks = {}
      BY <3>1 DEF Guarded, Works, LateKinds, RequestsTyped, Idle
    <3> QED
      BY <2>16, <3>1, <3>2, RequestMoves, HangUpSpares DEF HangupManyHangup, legVars
  <2>17. ASSUME NEW r \in Requests, StopPlaybackWait(r) PROVE LocksInv'
    <3>1. req' = [req EXCEPT ![r] = Idle]
      BY <2>17, DoneRecord DEF StopPlaybackWait
    <3>2. Guarded(r)' \subseteq Idle.locks /\ Idle.locks = {}
      BY <3>1 DEF Guarded, Works, LateKinds, RequestsTyped, Idle
    <3> QED
      BY <2>17, <3>1, <3>2, RequestMoves DEF StopPlaybackWait, legVars
  <2>18. ASSUME NEW r \in Requests, OriginateFails(r) PROVE LocksInv'
    <3>1. req' = [req EXCEPT ![r] = Idle]
      BY <2>18, DoneRecord DEF OriginateFails
    <3>2. Guarded(r)' \subseteq Idle.locks /\ Idle.locks = {}
      BY <3>1 DEF Guarded, Works, LateKinds, RequestsTyped, Idle
    <3> QED
      BY <2>18, <3>1, <3>2, RequestMoves DEF OriginateFails, legVars
  <2>19. ASSUME NEW r \in Requests, BridgeWait(r) PROVE LocksInv'
    <3>1. req' = [req EXCEPT ![r] = Idle]
      BY <2>19, DoneRecord DEF BridgeWait
    <3>2. Guarded(r)' \subseteq Idle.locks /\ Idle.locks = {}
      BY <3>1 DEF Guarded, Works, LateKinds, RequestsTyped, Idle
    <3> QED
      BY <2>19, <3>1, <3>2, RequestMoves DEF BridgeWait, legVars
  <2>20. ASSUME NEW r \in Requests, BroadcastWait(r) PROVE LocksInv'
    <3>1. PICK record \in Records :
                 /\ req' = [req EXCEPT ![r] = record]
                 /\ record.kind = req[r].kind /\ record.pc = "unlocked" /\ record.locks = {}
      BY <2>20, StepRecord DEF BroadcastWait, At, Places
    <3>2. Guarded(r)' \subseteq record.locks
      BY <2>20, <3>1 DEF BroadcastWait, At, Guarded, Works, LateKinds, RequestsTyped
    <3> QED
      BY <2>20, <3>1, <3>2, RequestMoves DEF BroadcastWait, legVars
  <2>21. ASSUME NEW r \in Requests, BroadcastPlay(r) PROVE LocksInv'
    <3>1. req' = [req EXCEPT ![r] = Idle]
      BY <2>21, DoneRecord DEF BroadcastPlay
    <3>2. Guarded(r)' \subseteq Idle.locks /\ Idle.locks = {}
      BY <3>1 DEF Guarded, Works, LateKinds, RequestsTyped, Idle
    <3> QED
      BY <2>21, <3>1, <3>2, RequestMoves DEF BroadcastPlay, legVars
  <2>22. ASSUME NEW r \in Requests, QueuePlay(r) PROVE LocksInv'
    <3>1. req' = [req EXCEPT ![r] = Idle]
      BY <2>22, DoneRecord DEF QueuePlay
    <3>2. Guarded(r)' \subseteq Idle.locks /\ Idle.locks = {}
      BY <3>1 DEF Guarded, Works, LateKinds, RequestsTyped, Idle
    <3> QED
      BY <2>22, <3>1, <3>2, RequestMoves DEF QueuePlay, legVars
  <2>23. ASSUME NEW r \in Requests, BlindTransferGo(r) PROVE LocksInv'
    <3>1. req' = [req EXCEPT ![r] = Idle]
      BY <2>23, DoneRecord DEF BlindTransferGo
    <3>2. Guarded(r)' \subseteq Idle.locks /\ Idle.locks = {}
      BY <3>1 DEF Guarded, Works, LateKinds, RequestsTyped, Idle
    <3> QED
      BY <2>23, <3>1, <3>2, RequestMoves DEF BlindTransferGo, legVars
  <2>24. ASSUME NEW r \in Requests, OriginateAnswered(r) PROVE LocksInv'
    <3>1. PICK record \in Records :
                 /\ req' = [req EXCEPT ![r] = record]
                 /\ record.kind = req[r].kind /\ record.pc = "check" /\ record.locks = {}
      BY <2>24, StepRecord DEF OriginateAnswered, At, Places
    <3>2. Guarded(r)' \subseteq record.locks
      BY <2>24, <3>1 DEF OriginateAnswered, At, Guarded, Works, LateKinds, RequestsTyped
    <3> QED
      BY <2>24, <3>1, <3>2, RequestMoves DEF OriginateAnswered, legVars
  <2>25. ASSUME NEW r \in Requests, OriginateCheck(r) PROVE LocksInv'
    <3>1. req' = [req EXCEPT ![r] = Idle]
      BY <2>25, DoneRecord DEF OriginateCheck
    <3>2. Guarded(r)' \subseteq Idle.locks /\ Idle.locks = {}
      BY <3>1 DEF Guarded, Works, LateKinds, RequestsTyped, Idle
    <3> QED
      BY <2>25, <3>1, <3>2, RequestMoves DEF OriginateCheck, legVars
  <2>26. ASSUME NEW r \in Requests, BornHangsUp(r) PROVE LocksInv'
    BY <2>26, RequestsStay DEF BornHangsUp, legVars, requestVars
  <2>27. ASSUME NEW r \in Requests, BridgeAsk(r) PROVE LocksInv'
    <3> req[r].kind = "Bridge" /\ req[r].b \in Legs
      BY <2>27 DEF BridgeAsk, At, RequestsTyped, Named
    <3>1. CASE Located(req[r].a) /\ Located(req[r].b)
      <4>1. PICK record \in Records :
                   /\ req' = [req EXCEPT ![r] = record]
                   /\ record.kind = "Bridge" /\ record.pc = "asked" /\ record.locks = {}
                   /\ record.b = req[r].b
        BY <2>27, <3>1, StepRecord DEF BridgeAsk, Places
      <4>2. Guarded(r)' \subseteq record.locks
        BY <4>1 DEF Guarded, Works, LateKinds, RequestsTyped
      <4> QED
        BY <2>27, <3>1, <4>1, <4>2, RequestMoves DEF BridgeAsk, Located, legVars
    <3>2. CASE ~(Located(req[r].a) /\ Located(req[r].b))
      <4>1. req' = [req EXCEPT ![r] = Idle]
        BY <2>27, <3>2, DoneRecord DEF BridgeAsk
      <4>2. Guarded(r)' \subseteq Idle.locks /\ Idle.locks = {}
        BY <4>1 DEF Guarded, Works, LateKinds, RequestsTyped, Idle
      <4> QED
        BY <2>27, <4>1, <4>2, RequestMoves DEF BridgeAsk, legVars
    <3> QED
      BY <3>1, <3>2
  <2>28. ASSUME NEW r \in Requests, BridgeFindB(r) PROVE LocksInv'
    <3> req[r].kind = "Bridge" /\ req[r].b \in Legs
      BY <2>28 DEF BridgeFindB, At, RequestsTyped, Named
    <3>1. CASE Located(req[r].b)
      <4>1. PICK record \in Records :
                   /\ req' = [req EXCEPT ![r] = record]
                   /\ record.kind = "Bridge" /\ record.pc = "wait" /\ record.locks = {req[r].b}
                   /\ record.b = req[r].b
        BY <2>28, <3>1, StepRecord DEF BridgeFindB, Places
      <4>2. Guarded(r)' \subseteq record.locks
        BY <4>1 DEF Guarded, Works, LateKinds, RequestsTyped
      <4> QED
        BY <2>28, <3>1, <4>1, <4>2, RequestMoves DEF BridgeFindB, Located, legVars
    <3>2. CASE ~(Located(req[r].b))
      <4>1. req' = [req EXCEPT ![r] = Idle]
        BY <2>28, <3>2, DoneRecord DEF BridgeFindB
      <4>2. Guarded(r)' \subseteq Idle.locks /\ Idle.locks = {}
        BY <4>1 DEF Guarded, Works, LateKinds, RequestsTyped, Idle
      <4> QED
        BY <2>28, <4>1, <4>2, RequestMoves DEF BridgeFindB, legVars
    <3> QED
      BY <3>1, <3>2
  <2>29. ASSUME NEW r \in Requests, BridgeCallFrom(r) PROVE LocksInv'
    <3>1. PICK record \in Records :
                 /\ req' = [req EXCEPT ![r] = record]
                 /\ record.kind = req[r].kind /\ record.locks = req[r].locks
                 /\ record.a = req[r].a /\ record.b = req[r].b
      BY <2>29, StepRecord, BusyRecord DEF BridgeCallFrom, At, Records, Places
    <3>2. Guarded(r)' \subseteq record.locks
      BY <2>29, <3>1 DEF BridgeCallFrom, At, Guarded, Works, LateKinds, RequestsTyped, LocksInv, Held
    <3>3. req[r].locks \subseteq {l \in Legs : life[l] # "destroyed"}
      BY DEF RequestsTyped, Records, Idle, LocksInv, Alive
    <3> QED
      BY <2>29, <3>1, <3>2, <3>3, RequestMoves DEF BridgeCallFrom, legVars
  <2>30. ASSUME NEW r \in Requests, BridgeCallTo(r) PROVE LocksInv'
    <3>1. PICK record \in Records :
                 /\ req' = [req EXCEPT ![r] = record]
                 /\ record.kind = req[r].kind /\ record.locks = req[r].locks
                 /\ record.a = req[r].a /\ record.b = req[r].b
      BY <2>30, StepRecord, BusyRecord DEF BridgeCallTo, At, Records, Places
    <3>2. Guarded(r)' \subseteq record.locks
      BY <2>30, <3>1 DEF BridgeCallTo, At, Guarded, Works, LateKinds, RequestsTyped, LocksInv, Held
    <3>3. req[r].locks \subseteq {l \in Legs : life[l] # "destroyed"}
      BY DEF RequestsTyped, Records, Idle, LocksInv, Alive
    <3> QED
      BY <2>30, <3>1, <3>2, <3>3, RequestMoves DEF BridgeCallTo, legVars
  <2>31. ASSUME NEW r \in Requests, BridgeCallRecord(r) PROVE LocksInv'
    <3>1. PICK record \in Records :
                 /\ req' = [req EXCEPT ![r] = record]
                 /\ record.kind = req[r].kind /\ record.locks = req[r].locks
                 /\ record.a = req[r].a /\ record.b = req[r].b
      BY <2>31, StepRecord, BusyRecord DEF BridgeCallRecord, At, Records, Places
    <3>2. Guarded(r)' \subseteq record.locks
      BY <2>31, <3>1 DEF BridgeCallRecord, At, Guarded, Works, LateKinds, RequestsTyped, LocksInv, Held
    <3>3. req[r].locks \subseteq {l \in Legs : life[l] # "destroyed"}
      BY DEF RequestsTyped, Records, Idle, LocksInv, Alive
    <3> QED
      BY <2>31, <3>1, <3>2, <3>3, RequestMoves DEF BridgeCallRecord, legVars
  <2>32. ASSUME NEW r \in Requests, BridgeCallBridge(r) PROVE LocksInv'
    <3>1. req' = [req EXCEPT ![r] = Idle]
      BY <2>32, DoneRecord DEF BridgeCallBridge
    <3>2. Guarded(r)' \subseteq Idle.locks /\ Idle.locks = {}
      BY <3>1 DEF Guarded, Works, LateKinds, RequestsTyped, Idle
    <3> QED
      BY <2>32, <3>1, <3>2, RequestMoves DEF BridgeCallBridge, legVars
  <2>34. ASSUME NEW r \in Requests, NEW ask \in Asks[r], SetStateFind(r, ask) PROVE LocksInv'
    <3>1. PICK record \in Records, pc \in Places, locks \in SUBSET {ask.a} :
                 /\ req' = [req EXCEPT ![r] = record]
                 /\ record.kind = ask.kind /\ record.pc = pc /\ record.locks = locks
                 /\ record.a = ask.a /\ record.b = ask.b
                 /\ pc = "unlocked"
      BY <2>34, StartRecord, CallsAssumption DEF SetStateFind, Places
    <3>2. Guarded(r)' \subseteq record.locks
      BY <2>34, <3>1 DEF SetStateFind, Guarded, Works, LateKinds, RequestsTyped
    <3>3. ask.a \in Legs
      BY CallsAssumption
    <3> QED
      BY <2>34, <3>1, <3>2, <3>3, RequestMoves DEF SetStateFind, Located, legVars
  <2>35. ASSUME NEW r \in Requests, SetStateFire(r) PROVE LocksInv'
    <3>1. req' = [req EXCEPT ![r] = Idle]
      BY <2>35, DoneRecord DEF SetStateFire
    <3>2. Guarded(r)' \subseteq Idle.locks /\ Idle.locks = {}
      BY <3>1 DEF Guarded, Works, LateKinds, RequestsTyped, Idle
    <3> QED
      BY <2>35, <3>1, <3>2, RequestMoves DEF SetStateFire, legVars
  <2>33. CASE UNCHANGED vars
    BY <2>33, RequestsStay DEF vars, legVars, requestVars
  <2> QED
    BY <2>1, <2>2, <2>3, <2>4, <2>5, <2>6, <2>7, <2>8, <2>9, <2>10, <2>11, <2>12,
       <2>13, <2>14, <2>15, <2>16, <2>17, <2>18, <2>19, <2>20, <2>21, <2>22, <2>23, <2>24,
       <2>25, <2>26, <2>27, <2>28, <2>29, <2>30, <2>31, <2>32, <2>33, <2>34, <2>35
       DEF Next, Core, Begin, GoOn
<1>3. QED
  BY <1>1, <1>2, TypeInvariant, PTL DEF Spec

\* No handler but Hangup and SetEavesdropState works on the channel of a session that
\* was destroyed: the read locks the others hold are enough, whatever ends the legs.
THEOREM LocksProtect == Spec => []WorksOnLegs
<1>1. LocksInv => WorksOnLegs
  BY DEF LocksInv, Held, Alive, Guarded, WorksOnLegs
<1>2. QED
  BY LocksInvariant, <1>1, PTL

-----------------------------------------------------------------------------
(* Originate.                                                              *)

\* While an Originate looks for the leg it was made for, missed says that it is gone.
MissedInv ==
  \A r \in missed : req[r].kind = "Originate" /\ req[r].pc = "check" /\ life[req[r].a] # "up"

LEMMA MissedInvariant == Spec => []MissedInv
<1>1. Init => MissedInv
  BY DEF Init, MissedInv
<1>2. TypeInv /\ MissedInv /\ [Next]_vars => MissedInv'
  <2> SUFFICES ASSUME RequestsTyped, LegsTyped, OriginateTyped, MissedInv, [Next]_vars PROVE MissedInv'
    BY TypeParts
  <2> USE DEF RequestsTyped, LegsTyped, OriginateTyped, MissedInv
  <2>1. ASSUME NEW l \in Legs, Core(l) PROVE MissedInv'
    <3>1. UNCHANGED <<req, missed>> /\ \A k \in Legs : life'[k] = "up" => life[k] = "up"
      BY <2>1 DEF Core, LegHangsUp, HangUp, Destroy, LegPlays, requestVars
    <3> QED
      BY <3>1, BusyRecord DEF Records
  <2>2. ASSUME NEW t \in bridges, MakeBridge(t) PROVE MissedInv'
    <3>1. UNCHANGED <<req, missed>> /\ \A k \in Legs : life'[k] = "up" => life[k] = "up"
      BY <2>2 DEF MakeBridge, requestVars, legVars
    <3> QED
      BY <3>1, BusyRecord DEF Records
  <2>3. ASSUME NEW r \in Requests, NEW ask \in Asks[r], Begin(r, ask) PROVE MissedInv'
    <3>1. /\ req[r] = Idle /\ UNCHANGED <<life, missed>>
          /\ \A q \in Requests \ {r} : req'[q] = req[q]
      BY <2>3 DEF Begin, HangupFind, HangupManyFind, StopPlaybackFind, BroadcastFind, QueueFind,
         BlindTransferFind, BreakPark, SetStateFind, Originate, BridgeFind, BridgeCallFind, Start,
         Take, legVars
    <3> QED
      BY <3>1 DEF Idle
  <2>4. ASSUME NEW r \in Requests, GoOn(r) PROVE MissedInv'
    <3>1. CASE OriginateAnswered(r)
      BY <3>1 DEF OriginateAnswered, At, Step, legVars, Records, Idle
    <3>2. CASE OriginateCheck(r)
      BY <3>2 DEF OriginateCheck, At, Done, Located, Gone, legVars
    <3>3. CASE ~OriginateAnswered(r) /\ ~OriginateCheck(r)
      <4>1. /\ ~At(r, "Originate", "check") /\ UNCHANGED missed
            /\ \A q \in Requests \ {r} : req'[q] = req[q]
        BY <2>4, <3>3 DEF GoOn, HangupLate, HangupManyHangup, StopPlaybackWait, BroadcastWait,
           BroadcastPlay, QueuePlay, BlindTransferGo, SetStateFire, OriginateFails, BridgeAsk,
           BridgeFindB,
           BridgeWait, BridgeCallFrom, BridgeCallTo, BridgeCallRecord, BridgeCallBridge, At, Done, Step
      <4>2. \A l \in Legs : life'[l] = "up" => life[l] = "up"
        BY <2>4, <3>3 DEF GoOn, HangupLate, HangupManyHangup, StopPlaybackWait, BroadcastWait,
           BroadcastPlay, QueuePlay, BlindTransferGo, SetStateFire, OriginateFails, BridgeAsk,
           BridgeFindB,
           BridgeWait, BridgeCallFrom, BridgeCallTo, BridgeCallRecord, BridgeCallBridge, HangUp, legVars
      <4> QED
        BY <4>1, <4>2 DEF At, Records, Idle
    <3> QED
      BY <3>1, <3>2, <3>3
  <2>5. ASSUME NEW r \in Requests, BornHangsUp(r) PROVE MissedInv'
    BY <2>5 DEF BornHangsUp, Gone, legVars, requestVars
  <2>6. CASE UNCHANGED vars
    BY <2>6 DEF vars, legVars, requestVars
  <2> QED
    BY <2>1, <2>2, <2>3, <2>4, <2>5, <2>6 DEF Next
<1>3. QED
  BY <1>1, <1>2, TypeInvariant, PTL DEF Spec

\* A leg made for one that was gone by then does not outlive its Originate: the check
\* comes after the answer, and a leg that has hung up is not found any more.
THEOREM OriginateIsChecked == Spec => []OriginateChecked
<1>1. MissedInv => OriginateChecked
  BY DEF MissedInv, OriginateChecked, Busy
<1>2. QED
  BY MissedInvariant, <1>1, PTL

-----------------------------------------------------------------------------
(* BridgeCall: its variables and the recording last until the bridge.      *)

\* A request bridges the leg.
Joined(l) == \E m \in Legs : Pair(l, m)

\* A pair is two legs, in either order.
LEMMA PairFacts ==
  ASSUME NEW l, NEW m, Pair(l, m)
  PROVE  l \in Legs /\ m \in Legs /\ Pair(m, l)
  BY CallsAssumption DEF Pair

\* What Apart says of one pair.
LEMMA ApartFacts ==
  ASSUME Apart, NEW l, NEW m, Pair(l, m)
  PROVE  /\ l # m /\ Joined(l) /\ ~Joined(Bridged[l])
         /\ \A n : Pair(l, n) => n = m
  BY PairFacts DEF Apart, Joined

\* Two legs that are bridged with each other are both up, and were bridged at first or
\* are a pair.
PartnersInv ==
  \A l \in Legs :
    partner[l] # Nobody =>
      /\ life[l] = "up"
      /\ partner[partner[l]] = l
      /\ partner[l] = Bridged[l] \/ Pair(l, partner[l])

\* While l is still with its former partner p, which the bridge with m will end, p
\* carries the variable and l, or m, its recording.
FromSet(l, m, p) == partner[l] = p /\ p # m => from[p] = m
ToSet(l, m, p)   == partner[l] = p /\ p # m => to[p] = m
Moved(l, m, p)   ==
  partner[l] = p /\ p # m /\ p \in rec /\ life[m] = "up" => l \in rec \/ m \in rec

\* The partners a BridgeCall, or its bridge, has on record.
Far(t) ==
  /\ t.pa \in Legs /\ t.pa \in {t.b, Bridged[t.a]}
  /\ t.pb \in Legs /\ t.pb \in {t.a, Bridged[t.b]}

\* What a request has done to the legs lasts until its next step.
RequestsInv ==
  \A r \in Requests :
    /\ req[r].kind \in {"Bridge", "BridgeCall"} => Pair(req[r].a, req[r].b)
    /\ req[r].kind = "BridgeCall" =>
         /\ Far(req[r])
         /\ req[r].pc \in {"linkTo", "record", "bridge"} => FromSet(req[r].a, req[r].b, req[r].pa)
         /\ req[r].pc \in {"record", "bridge"} => ToSet(req[r].b, req[r].a, req[r].pb)
         /\ req[r].pc = "bridge" => Moved(req[r].a, req[r].b, req[r].pa)

\* All of it lasts until the bridge is made.
Carried(t) ==
  /\ Far(t)
  /\ FromSet(t.a, t.b, t.pa) /\ ToSet(t.b, t.a, t.pb) /\ Moved(t.a, t.b, t.pa)

BridgesInv ==
  \A t \in bridges : Pair(t.a, t.b) /\ (t.pa # Nobody => Carried(t))

\* A leg that a bridge has ended left with its variables set.
Left(l) ==
  swept[l].pa # Nobody =>
    /\ life[l] # "up"
    /\ l = swept[l].pa => from[l] = swept[l].b
    /\ l = swept[l].pb => to[l] = swept[l].a

SweptInv == \A l \in Legs : Left(l)

LinksInv == PartnersInv /\ RequestsInv /\ BridgesInv /\ SweptInv

\* What no step does, of whatever request: a leg that is up again, a new partner that
\* is no pair, a variable of a bridged leg that names another than its partner's pair,
\* a recording lost by a leg of a pair that is up, or got by a leg of none.
Calm ==
  \A l \in Legs :
    /\ life'[l] = "up" => life[l] = "up"
    /\ partner'[l] # Nobody =>
         /\ life'[l] = "up" /\ partner'[partner'[l]] = l
         /\ partner'[l] = partner[l] \/ Pair(l, partner'[l])
    /\ from'[l] # from[l] => IF partner[l] = Nobody THEN swept'[l] = NoTransfer ELSE Pair(partner[l], from'[l])
    /\ to'[l] # to[l] => IF partner[l] = Nobody THEN swept'[l] = NoTransfer ELSE Pair(partner[l], to'[l])
    /\ l \in rec \ rec' => life'[l] # "up" \/ ~Joined(l)
    /\ l \in rec' \ rec => Joined(l)
    /\ swept'[l] # swept[l] => Left(l)'

\* A calm step keeps what was done for a pair.
LEMMA CalmKeeps ==
  ASSUME Apart, PartnersInv, Calm,
         NEW l, NEW m, NEW p \in Legs, Pair(l, m), p \in {m, Bridged[l]}
  PROVE  /\ FromSet(l, m, p) => FromSet(l, m, p)'
         /\ ToSet(l, m, p) => ToSet(l, m, p)'
         /\ Moved(l, m, p) => Moved(l, m, p)'
<1>1. l \in Legs /\ m \in Legs /\ Nobody \notin Legs
  BY PairFacts, CallsAssumption
<1>2. SUFFICES ASSUME partner'[l] = p, p # m
      PROVE  /\ from[p] = m => from'[p] = m
             /\ to[p] = m => to'[p] = m
             /\ p \in rec' /\ life'[m] = "up" /\ Moved(l, m, p) => l \in rec' \/ m \in rec'
  <2>1. partner'[l] = p /\ p # m => partner[l] = p
    BY <1>1, ApartFacts DEF Calm
  <2> QED
    BY <1>2, <2>1 DEF FromSet, ToSet, Moved
<1>3. partner[l] = p /\ partner[p] = l
  BY <1>1, <1>2, ApartFacts DEF Calm, PartnersInv
<1>4. (from[p] = m => from'[p] = m) /\ (to[p] = m => to'[p] = m)
  BY <1>1, <1>3, ApartFacts DEF Calm
<1>5. ASSUME p \in rec', life'[m] = "up", Moved(l, m, p)
      PROVE  l \in rec' \/ m \in rec'
  <2>1. p \in rec /\ life[m] = "up"
    BY <1>1, <1>2, <1>5, ApartFacts DEF Calm
  <2>2. l \in rec \/ m \in rec
    BY <2>1, <1>2, <1>3, <1>5 DEF Moved
  <2>3. Joined(l) /\ Joined(m) /\ life'[l] = "up"
    BY <1>1, <1>2, PairFacts, ApartFacts DEF Calm
  <2> QED
    BY <2>2, <2>3, <1>1, <1>5 DEF Calm
<1> QED
  BY <1>4, <1>5

\* Legs that hang up leave their partners without one.
LEMMA HangUpCalm ==
  ASSUME LegsTyped, PartnersInv, NEW legs, HangUp(legs), UNCHANGED transferVars
  PROVE  Calm
  BY CallsAssumption DEF LegsTyped, PartnersInv, HangUp, transferVars, Calm, Some

\* Every step is calm.
LEMMA CalmStep ==
  ASSUME Apart, RequestsTyped, LegsTyped, LinksInv, [Next]_vars
  PROVE  Calm
<1> USE DEF LinksInv
<1>1. ASSUME NEW l \in Legs, Core(l) PROVE Calm
  <2>1. CASE LegHangsUp(l)
    BY <2>1, HangUpCalm DEF LegHangsUp
  <2>2. CASE Destroy(l)
    BY <2>2 DEF Destroy, LegsTyped, PartnersInv, Calm, Left, NoTransfer
  <2>3. CASE LegPlays(l)
    BY <2>3 DEF LegPlays, transferVars, LegsTyped, PartnersInv, Calm
  <2> QED
    BY <1>1, <2>1, <2>2, <2>3 DEF Core
<1>2. ASSUME NEW t \in bridges, MakeBridge(t) PROVE Calm
  <2> DEFINE former == {l \in Legs \ {t.a, t.b} : partner[l] \in {t.a, t.b}}
  <2>1. t.a \in Legs /\ t.b \in Legs /\ t.a # t.b /\ Pair(t.a, t.b) /\ Pair(t.b, t.a)
        /\ Joined(t.a) /\ Joined(t.b) /\ Nobody \notin Legs
    BY PairFacts, ApartFacts, CallsAssumption DEF BridgesInv
  <2>2. CASE life[t.a] = "up" /\ life[t.b] = "up"
    <3>1. /\ life' = [l \in Legs |-> IF l \in former THEN "hungup" ELSE life[l]]
          /\ partner' = [l \in Legs |-> CASE l = t.a -> t.b [] l = t.b -> t.a
                                           [] l \in former -> Nobody [] OTHER -> partner[l]]
          /\ rec' = rec \ former
          /\ swept' = [l \in Legs |-> IF l \in former /\ t.pa # Nobody THEN t ELSE swept[l]]
          /\ UNCHANGED <<from, to>>
      BY <1>2, <2>2 DEF MakeBridge
    <3>2. \A l \in Legs : partner'[l] # Nobody =>
            /\ life'[l] = "up" /\ partner'[partner'[l]] = l
            /\ partner'[l] = partner[l] \/ Pair(l, partner'[l])
      BY <2>1, <2>2, <3>1 DEF PartnersInv, LegsTyped, Some
    <3>3. ASSUME NEW l \in former, t.pa # Nobody
          PROVE  /\ l = t.pa => from[l] = t.b
                 /\ l = t.pb => to[l] = t.a
      <4>1. l \in Legs /\ partner[l] \in {t.a, t.b} /\ partner[partner[l]] = l
            /\ (partner[l] = Bridged[l] \/ Pair(l, partner[l]))
        BY <2>1 DEF PartnersInv
      <4>2. partner[l] = Bridged[l] /\ Bridged[Bridged[l]] = l
        BY <2>1, <4>1, ApartFacts, PairFacts, CallsAssumption
      <4>3. l = t.pa => partner[l] = t.a
        BY <4>1, <4>2, <2>1, <3>3, CallsAssumption DEF BridgesInv, Carried, Far
      <4>4. l = t.pb => partner[l] = t.b
        BY <4>1, <4>2, <2>1, <3>3, CallsAssumption DEF BridgesInv, Carried, Far
      <4> QED
        BY <4>1, <4>3, <4>4, <2>1, <3>3 DEF BridgesInv, Carried, FromSet, ToSet
    <3>4. \A l \in Legs : swept'[l] # swept[l] => Left(l)'
      BY <3>1, <3>3 DEF Left
    <3> QED
      BY <3>1, <3>2, <3>4 DEF Calm, LegsTyped
  <2>3. CASE ~(life[t.a] = "up" /\ life[t.b] = "up")
    BY <1>2, <2>3 DEF MakeBridge, LegsTyped, PartnersInv, Calm, legVars
  <2> QED
    BY <2>2, <2>3
<1>3. ASSUME NEW r \in Requests, NEW ask \in Asks[r], Begin(r, ask) PROVE Calm
  <2>1. UNCHANGED <<life, partner, rec, from, to, swept>>
    BY <1>3 DEF Begin, HangupFind, HangupManyFind, StopPlaybackFind, BroadcastFind, QueueFind,
       BlindTransferFind, BreakPark, SetStateFind, Originate, BridgeFind, BridgeCallFind, legVars,
       transferVars
  <2> QED
    BY <2>1 DEF PartnersInv, Calm
<1>4. ASSUME NEW r \in Requests, GoOn(r) PROVE Calm
  <2>1. CASE HangupLate(r) \/ HangupManyHangup(r)
    BY <2>1, HangUpCalm DEF HangupLate, HangupManyHangup
  <2>2. CASE BlindTransferGo(r)
    BY <2>2, CallsAssumption DEF BlindTransferGo, transferVars, LegsTyped, PartnersInv, Calm, Some
  <2>3. CASE BridgeCallFrom(r)
    <3>1. Pair(req[r].a, req[r].b) /\ req[r].a \in Legs /\ Nobody \notin Legs
      BY <2>3, PairFacts, CallsAssumption DEF BridgeCallFrom, At, RequestsInv
    <3>2. UNCHANGED <<life, partner, rec, to, swept>>
      BY <2>3 DEF BridgeCallFrom, legVars
    <3>3. \A l \in Legs : from'[l] # from[l] => l = partner[req[r].a] /\ from'[l] = req[r].b
      BY <2>3 DEF BridgeCallFrom, SetPartner, LegsTyped
    <3>4. \A l \in Legs : from'[l] # from[l] => partner[l] = req[r].a /\ from'[l] = req[r].b
      BY <3>1, <3>3 DEF PartnersInv
    <3> QED
      BY <3>1, <3>2, <3>4 DEF PartnersInv, Calm
  <2>4. CASE BridgeCallTo(r)
    <3>1. Pair(req[r].b, req[r].a) /\ req[r].b \in Legs /\ Nobody \notin Legs
      BY <2>4, PairFacts, CallsAssumption DEF BridgeCallTo, At, RequestsInv
    <3>2. UNCHANGED <<life, partner, rec, from, swept>>
      BY <2>4 DEF BridgeCallTo, legVars
    <3>3. \A l \in Legs : to'[l] # to[l] => l = partner[req[r].b] /\ to'[l] = req[r].a
      BY <2>4 DEF BridgeCallTo, SetPartner, LegsTyped
    <3>4. \A l \in Legs : to'[l] # to[l] => partner[l] = req[r].b /\ to'[l] = req[r].a
      BY <3>1, <3>3 DEF PartnersInv
    <3> QED
      BY <3>1, <3>2, <3>4 DEF PartnersInv, Calm
  <2>5. CASE BridgeCallRecord(r)
    <3>1. /\ Pair(req[r].a, req[r].b) /\ Joined(req[r].a)
          /\ req[r].pa \in {req[r].b, Bridged[req[r].a]}
      BY <2>5, ApartFacts DEF BridgeCallRecord, At, RequestsInv, Far
    <3>2. /\ rec' = rec \/ (rec' = (rec \ {req[r].pa}) \cup {req[r].a} /\ req[r].b \notin rec /\ req[r].pa \in rec)
          /\ UNCHANGED <<life, partner, from, to, swept>>
      BY <2>5 DEF BridgeCallRecord, transferVars
    <3>3. ~Joined(Bridged[req[r].a])
      BY <3>1, ApartFacts
    <3> QED
      BY <3>1, <3>2, <3>3 DEF PartnersInv, Calm
  <2>6. CASE ~(\/ HangupLate(r) \/ HangupManyHangup(r) \/ BlindTransferGo(r) \/ BridgeCallFrom(r)
               \/ BridgeCallTo(r) \/ BridgeCallRecord(r))
    <3>1. UNCHANGED <<life, partner, rec, from, to, swept>>
      BY <1>4, <2>6 DEF GoOn, StopPlaybackWait, BroadcastWait,
           BroadcastPlay, QueuePlay, SetStateFire, OriginateFails, OriginateAnswered,
           OriginateCheck, BridgeAsk, BridgeFindB,
           BridgeWait, BridgeCallBridge, legVars, transferVars
    <3> QED
      BY <3>1 DEF PartnersInv, Calm
  <2> QED
    BY <2>1, <2>2, <2>3, <2>4, <2>5, <2>6
<1>5. ASSUME NEW r \in Requests, BornHangsUp(r) PROVE Calm
  BY <1>5 DEF BornHangsUp, legVars, transferVars, PartnersInv, Calm
<1>6. CASE UNCHANGED vars
  BY <1>6 DEF vars, legVars, transferVars, PartnersInv, Calm
<1> QED
  BY <1>1, <1>2, <1>3, <1>4, <1>5, <1>6 DEF Next

\* The invariant is inductive.
LEMMA LinksStep ==
  ASSUME Apart, RequestsTyped, LegsTyped, LinksInv, [Next]_vars
  PROVE  LinksInv'
<1> USE DEF LinksInv
<1>0. Calm /\ LegsTyped
  BY CalmStep
<1>1. PartnersInv'
  BY <1>0 DEF Calm, PartnersInv
<1>2. SweptInv'
  <2> SUFFICES ASSUME NEW l \in Legs, swept'[l] = swept[l], swept[l].pa # Nobody PROVE Left(l)'
    BY <1>0 DEF Calm, SweptInv, Left
  <2>1. Left(l) /\ life'[l] # "up" /\ partner[l] = Nobody
    BY <1>0 DEF Calm, SweptInv, Left, PartnersInv
  <2>2. swept[l] # NoTransfer
    BY DEF NoTransfer
  <2> QED
    BY <1>0, <2>1, <2>2 DEF Calm, Left
<1>3. ASSUME NEW t \in bridges PROVE Pair(t.a, t.b) /\ (t.pa # Nobody => Carried(t)')
  <2>1. Pair(t.a, t.b) /\ Pair(t.b, t.a) /\ (t.pa # Nobody => Carried(t))
    BY PairFacts DEF BridgesInv
  <2> QED
    BY <1>0, <2>1, CalmKeeps DEF Carried, Far
<1>4. ASSUME bridges' \subseteq bridges PROVE BridgesInv'
  BY <1>3, <1>4 DEF BridgesInv
<1> DEFINE Fine(q) ==
    /\ q.kind \in {"Bridge", "BridgeCall"} => Pair(q.a, q.b)
    /\ q.kind = "BridgeCall" =>
         /\ Far(q)
         /\ q.pc \in {"linkTo", "record", "bridge"} => FromSet(q.a, q.b, q.pa)
         /\ q.pc \in {"record", "bridge"} => ToSet(q.b, q.a, q.pb)
         /\ q.pc = "bridge" => Moved(q.a, q.b, q.pa)
<1>5. ASSUME NEW r \in Requests, req'[r] = req[r] PROVE Fine(req[r])'
  <2>1. Fine(req[r])
    BY DEF RequestsInv
  <2> QED
    BY <1>0, <1>5, <2>1, CalmKeeps, PairFacts DEF Far
<1>6. ASSUME NEW r \in Requests, \A q \in Requests \ {r} : req'[q] = req[q], Fine(req[r])'
      PROVE  RequestsInv'
  BY <1>5, <1>6 DEF RequestsInv
<1> HIDE DEF Fine
<1>7. ASSUME NEW l \in Legs, Core(l) PROVE RequestsInv' /\ BridgesInv'
  <2>1. UNCHANGED <<req, bridges>>
    BY <1>7 DEF Core, LegHangsUp, Destroy, LegPlays, requestVars, transferVars
  <2> QED
    BY <2>1, <1>4, <1>5 DEF RequestsInv, Fine
<1>8. ASSUME NEW t \in bridges, MakeBridge(t) PROVE RequestsInv' /\ BridgesInv'
  <2>1. UNCHANGED req /\ bridges' \subseteq bridges
    BY <1>8 DEF MakeBridge, requestVars
  <2> QED
    BY <2>1, <1>4, <1>5 DEF RequestsInv, Fine
<1>9. ASSUME NEW r \in Requests, NEW ask \in Asks[r], Begin(r, ask) PROVE RequestsInv' /\ BridgesInv'
  <2>1. UNCHANGED bridges /\ \A q \in Requests \ {r} : req'[q] = req[q]
    BY <1>9 DEF Begin, HangupFind, HangupManyFind, StopPlaybackFind, BroadcastFind, QueueFind,
         BlindTransferFind, BreakPark, SetStateFind, Originate, BridgeFind, BridgeCallFind, Start,
         Take, transferVars, RequestsTyped
  <2>2. CASE BridgeCallFind(r, ask)
    <3>1. /\ req'[r].kind = "BridgeCall" /\ req'[r].pc = "link"
          /\ req'[r].a = ask.a /\ req'[r].b = ask.b
          /\ req'[r].pa = partner[ask.a] /\ req'[r].pb = partner[ask.b]
          /\ partner[ask.a] # Nobody /\ partner[ask.b] # Nobody
          /\ ask.kind = "BridgeCall"
      BY <2>2 DEF BridgeCallFind, RequestsTyped
    <3>2. Pair(ask.a, ask.b) /\ Pair(ask.b, ask.a) /\ ask.a \in Legs /\ ask.b \in Legs
      BY <3>1, PairFacts, CallsAssumption DEF Pair
    <3>3. /\ partner[ask.a] \in Legs /\ partner[ask.a] \in {ask.b, Bridged[ask.a]}
          /\ partner[ask.b] \in Legs /\ partner[ask.b] \in {ask.a, Bridged[ask.b]}
      BY <3>1, <3>2, ApartFacts DEF PartnersInv, LegsTyped, Some
    <3>4. Fine(req[r])'
      BY <3>1, <3>2, <3>3 DEF Fine, Far
    <3> QED
      BY <2>1, <3>4, <1>4, <1>6
  <2>3. CASE BreakPark(r, ask)
    BY <2>1, <2>3, <1>4, <1>5, <1>6 DEF BreakPark
  <2>4. CASE ~BridgeCallFind(r, ask) /\ ~BreakPark(r, ask)
    <3>1. req'[r].kind = ask.kind /\ ask.kind # "BridgeCall" /\ req'[r].a = ask.a /\ req'[r].b = ask.b
      BY <1>9, <2>4 DEF Begin, HangupFind, HangupManyFind, StopPlaybackFind, BroadcastFind, QueueFind,
         BlindTransferFind, SetStateFind, Originate, BridgeFind, Start, RequestsTyped
    <3>2. Fine(req[r])'
      BY <3>1 DEF Fine, Pair
    <3> QED
      BY <2>1, <3>2, <1>4, <1>6
  <2> QED
    BY <2>2, <2>3, <2>4
<1>10. ASSUME NEW r \in Requests, GoOn(r) PROVE RequestsInv' /\ BridgesInv'
  <2>0. \A q \in Requests \ {r} : req'[q] = req[q]
    BY <1>10 DEF GoOn, HangupLate, HangupManyHangup, StopPlaybackWait, BroadcastWait,
           BroadcastPlay, QueuePlay, BlindTransferGo, SetStateFire, OriginateFails,
           OriginateAnswered, OriginateCheck,
           BridgeAsk, BridgeFindB,
           BridgeWait, BridgeCallFrom, BridgeCallTo, BridgeCallRecord, BridgeCallBridge, Done, Step,
           RequestsTyped
  <2>1. CASE BridgeCallFrom(r)
    <3>1. /\ req[r].kind = "BridgeCall" /\ UNCHANGED <<partner, bridges>>
          /\ Pair(req[r].a, req[r].b) /\ Far(req[r])
          /\ from' = SetPartner(from, req[r].a, req[r].b)
          /\ Step(r, "linkTo", req[r].locks)
      BY <2>1 DEF BridgeCallFrom, At, legVars, RequestsInv
    <3>2. req[r].locks \in SUBSET Legs
      BY <3>1, BusyRecord DEF Records
    <3>3. /\ req'[r].kind = "BridgeCall" /\ req'[r].pc = "linkTo" /\ req'[r].a = req[r].a
          /\ req'[r].b = req[r].b /\ req'[r].pa = req[r].pa /\ req'[r].pb = req[r].pb
      BY <3>1, <3>2, StepRecord DEF Places, RequestsTyped
    <3>4. FromSet(req[r].a, req[r].b, req[r].pa)'
      BY <3>1, <3>3, CallsAssumption DEF FromSet, SetPartner, LegsTyped, Far
    <3>5. Fine(req[r])'
      BY <3>1, <3>3, <3>4 DEF Fine, Far
    <3> QED
      BY <2>0, <3>1, <3>5, <1>4, <1>6
  <2>2. CASE BridgeCallTo(r)
    <3>1. /\ req[r].kind = "BridgeCall" /\ UNCHANGED <<partner, bridges>>
          /\ Pair(req[r].a, req[r].b) /\ Far(req[r])
          /\ FromSet(req[r].a, req[r].b, req[r].pa)
          /\ to' = SetPartner(to, req[r].b, req[r].a)
          /\ Step(r, "record", req[r].locks)
      BY <2>2 DEF BridgeCallTo, At, legVars, RequestsInv
    <3>2. req[r].locks \in SUBSET Legs
      BY <3>1, BusyRecord DEF Records
    <3>3. /\ req'[r].kind = "BridgeCall" /\ req'[r].pc = "record" /\ req'[r].a = req[r].a
          /\ req'[r].b = req[r].b /\ req'[r].pa = req[r].pa /\ req'[r].pb = req[r].pb
      BY <3>1, <3>2, StepRecord DEF Places, RequestsTyped
    <3>4. ToSet(req[r].b, req[r].a, req[r].pb)'
      BY <3>1, <3>3, CallsAssumption DEF ToSet, SetPartner, LegsTyped, Far
    <3>5. FromSet(req[r].a, req[r].b, req[r].pa)'
      BY <3>1, <3>3, <1>0, CalmKeeps DEF Far, FromSet
    <3>6. Fine(req[r])'
      BY <3>1, <3>3, <3>4, <3>5 DEF Fine, Far
    <3> QED
      BY <2>0, <3>1, <3>6, <1>4, <1>6
  <2>3. CASE BridgeCallRecord(r)
    <3>1. /\ req[r].kind = "BridgeCall" /\ UNCHANGED <<life, partner, from, to, bridges>>
          /\ Pair(req[r].a, req[r].b) /\ Far(req[r])
          /\ FromSet(req[r].a, req[r].b, req[r].pa) /\ ToSet(req[r].b, req[r].a, req[r].pb)
          /\ Step(r, "bridge", req[r].locks)
      BY <2>3 DEF BridgeCallRecord, At, transferVars, RequestsInv
    <3>2. req[r].locks \in SUBSET Legs
      BY <3>1, BusyRecord DEF Records
    <3>3. /\ req'[r].kind = "BridgeCall" /\ req'[r].pc = "bridge" /\ req'[r].a = req[r].a
          /\ req'[r].b = req[r].b /\ req'[r].pa = req[r].pa /\ req'[r].pb = req[r].pb
      BY <3>1, <3>2, StepRecord DEF Places, RequestsTyped
    <3>4. /\ FromSet(req[r].a, req[r].b, req[r].pa)'
          /\ ToSet(req[r].b, req[r].a, req[r].pb)'
      BY <3>1, <3>3 DEF FromSet, ToSet
    <3>5. Moved(req[r].a, req[r].b, req[r].pa)'
      <4>1. SUFFICES ASSUME partner[req[r].a] = req[r].pa, req[r].pa \in rec'
                     PROVE  req[r].a \in rec' \/ req[r].b \in rec'
        BY <3>1, <3>3 DEF Moved
      <4>2. life[req[r].a] = "up" /\ life[req[r].pa] = "up" /\ partner[req[r].a] # Nobody
        BY <3>1, <4>1, PairFacts, CallsAssumption DEF PartnersInv, Far
      <4> QED
        BY <2>3, <4>1, <4>2 DEF BridgeCallRecord, Located
    <3>6. Fine(req[r])'
      BY <3>1, <3>3, <3>4, <3>5 DEF Fine, Far
    <3> QED
      BY <2>0, <3>1, <3>6, <1>4, <1>6
  <2>4. CASE BridgeCallBridge(r)
    <3> PICK t : t = [a |-> req[r].a, b |-> req[r].b, pa |-> req[r].pa, pb |-> req[r].pb]
      OBVIOUS
    <3>1. /\ bridges' \subseteq bridges \cup {t} /\ req'[r] = Idle
          /\ UNCHANGED <<life, partner, rec, from, to>>
          /\ Pair(t.a, t.b) /\ Carried(t)
      BY <2>4 DEF BridgeCallBridge, At, Done, UuidBridge, legVars, RequestsInv, RequestsTyped,
         Carried, Far
    <3>2. Carried(t)'
      BY <3>1 DEF Carried, FromSet, ToSet, Moved
    <3>3. BridgesInv'
      BY <3>1, <3>2, <1>3 DEF BridgesInv
    <3>4. Fine(req[r])'
      BY <3>1 DEF Fine, Idle
    <3> QED
      BY <2>0, <3>3, <3>4, <1>6
  <2>5. CASE BridgeAsk(r)
    <3>1. Fine(req[r]) /\ req[r].kind = "Bridge" /\ Pair(req[r].a, req[r].b)
      BY <2>5 DEF BridgeAsk, At, RequestsInv, Fine
    <3>2. req'[r] = Idle \/ (req'[r].kind = "Bridge" /\ req'[r].a = req[r].a /\ req'[r].b = req[r].b)
      <4>1. req[r] \in Records
        BY <3>1, BusyRecord
      <4> QED
        BY <2>5, <3>1, <4>1 DEF BridgeAsk, Step, Done, RequestsTyped, Records
    <3>3. Fine(req[r])'
      BY <3>1, <3>2 DEF Fine, Idle
    <3>4. \A t \in bridges' \ bridges : t.pa = Nobody /\ Pair(t.a, t.b)
      BY <2>5, <3>1 DEF BridgeAsk, UuidBridge, NoTransfer
    <3>5. BridgesInv'
      BY <3>4, <1>3 DEF BridgesInv
    <3> QED
      BY <2>0, <3>3, <3>5, <1>6
  <2>6. CASE BridgeFindB(r)
    <3>1. req[r].kind = "Bridge" /\ Pair(req[r].a, req[r].b) /\ UNCHANGED bridges
      BY <2>6 DEF BridgeFindB, At, RequestsInv, transferVars
    <3>2. req'[r] = Idle \/ (req'[r].kind = "Bridge" /\ req'[r].a = req[r].a /\ req'[r].b = req[r].b)
      <4>1. req[r] \in Records
        BY <3>1, BusyRecord
      <4> QED
        BY <2>6, <3>1, <4>1 DEF BridgeFindB, Step, Done, RequestsTyped, Records
    <3>3. Fine(req[r])'
      BY <3>1, <3>2 DEF Fine, Idle
    <3> QED
      BY <2>0, <3>1, <3>3, <1>4, <1>6
  <2>7. CASE ~(\/ BridgeCallFrom(r) \/ BridgeCallTo(r) \/ BridgeCallRecord(r) \/ BridgeCallBridge(r)
               \/ BridgeAsk(r) \/ BridgeFindB(r))
    <3>1. UNCHANGED bridges
      BY <1>10, <2>7 DEF GoOn, HangupLate, HangupManyHangup, StopPlaybackWait, BroadcastWait,
           BroadcastPlay, QueuePlay, BlindTransferGo, SetStateFire, OriginateFails,
           OriginateAnswered, OriginateCheck,
           BridgeWait, transferVars
    <3>2. req'[r].kind \notin {"Bridge", "BridgeCall"}
      <4>1. CASE BroadcastWait(r) \/ OriginateAnswered(r)
        <5>1. req[r] \in Records /\ req[r].kind \notin {"Bridge", "BridgeCall"}
          BY <4>1, BusyRecord DEF BroadcastWait, OriginateAnswered, At
        <5> QED
          BY <4>1, <5>1 DEF BroadcastWait, OriginateAnswered, Step, RequestsTyped, Records
      <4>2. CASE Done(r)
        BY <4>2 DEF Done, Idle, RequestsTyped
      <4> QED
        BY <1>10, <2>7, <4>1, <4>2 DEF GoOn, HangupLate, HangupManyHangup, StopPlaybackWait,
           BroadcastPlay, QueuePlay, BlindTransferGo, SetStateFire, OriginateFails, OriginateCheck,
           BridgeWait
    <3>3. Fine(req[r])'
      BY <3>2 DEF Fine
    <3> QED
      BY <2>0, <3>1, <3>3, <1>4, <1>6
  <2> QED
    BY <2>1, <2>2, <2>3, <2>4, <2>5, <2>6, <2>7
<1>11. ASSUME NEW r \in Requests, BornHangsUp(r) PROVE RequestsInv' /\ BridgesInv'
  <2>1. UNCHANGED <<req, bridges>>
    BY <1>11 DEF BornHangsUp, requestVars, transferVars
  <2> QED
    BY <2>1, <1>4, <1>5 DEF RequestsInv, Fine
<1>12. ASSUME UNCHANGED vars PROVE RequestsInv' /\ BridgesInv'
  <2>1. UNCHANGED <<req, bridges>>
    BY <1>12 DEF vars, requestVars, transferVars
  <2> QED
    BY <2>1, <1>4, <1>5 DEF RequestsInv, Fine
<1> QED
  BY <1>1, <1>2, <1>7, <1>8, <1>9, <1>10, <1>11, <1>12 DEF Next

\* It holds of every instance whose requests keep apart.
LEMMA LinksInvariant == ASSUME Apart PROVE Spec => []LinksInv
<1>1. Init => LinksInv
  BY CallsAssumption DEF Init, LinksInv, PartnersInv, RequestsInv, BridgesInv, SweptInv, Left,
     Idle, NoTransfer
<1>2. TypeInv /\ LinksInv /\ [Next]_vars => LinksInv'
  BY TypeParts, LinksStep
<1>3. QED
  BY <1>1, <1>2, TypeInvariant, PTL DEF Spec

\* When a bridge ends the two former partners, they carry the legs they were transferred
\* from and to, whatever else happened to the four legs since the request began.
THEOREM TransfersAreLinked == ASSUME Apart PROVE Spec => []TransferLinked
<1>1. LinksInv => TransferLinked
  BY DEF LinksInv, SweptInv, Left, TransferLinked
<1>2. QED
  BY LinksInvariant, <1>1, PTL

\* The bridge ends no leg whose recording has no place to go on in.
THEOREM RecordingsGoOn == ASSUME Apart PROVE Spec => RecordingGoesOn
<1> DEFINE Ended == \A l \in Legs :
       LET t == swept'[l] IN
       (swept[l] # t /\ t.pa # Nobody /\ l = t.pa /\ l \in rec) => t.a \in rec \/ t.b \in rec
<1>1. TypeInv /\ LinksInv /\ [Next]_vars => [Ended]_vars
  <2> SUFFICES ASSUME RequestsTyped, LegsTyped, LinksInv, [Next]_vars,
                      NEW l \in Legs, swept'[l] # swept[l], swept'[l].pa # Nobody,
                      l = swept'[l].pa, l \in rec
               PROVE  swept'[l].a \in rec \/ swept'[l].b \in rec
    BY TypeParts
  <2>1. CASE \E t \in bridges : MakeBridge(t)
    <3>1. PICK t \in bridges : MakeBridge(t)
      BY <2>1
    <3>2. /\ life[t.a] = "up" /\ life[t.b] = "up" /\ t.pa # Nobody
          /\ swept'[l] = t /\ l \in Legs \ {t.a, t.b} /\ partner[l] \in {t.a, t.b}
      BY <3>1 DEF MakeBridge, LegsTyped
    <3>3. Pair(t.a, t.b) /\ Pair(t.b, t.a) /\ Carried(t) /\ t.a \in Legs /\ t.b \in Legs /\ t.pa = Bridged[t.a]
      BY <3>2, PairFacts DEF LinksInv, BridgesInv, Carried, Far
    <3>4. partner[partner[l]] = l /\ (partner[l] = Bridged[l] \/ Pair(l, partner[l])) /\ Nobody \notin Legs
      BY <3>2, <3>3, CallsAssumption DEF LinksInv, PartnersInv
    <3>5. partner[l] = t.a
      BY <3>2, <3>3, <3>4, ApartFacts, PairFacts, CallsAssumption
    <3> QED
      BY <3>2, <3>3, <3>4, <3>5 DEF Carried, Moved
  <2>2. CASE ~\E t \in bridges : MakeBridge(t)
    <3>1. ASSUME NEW k \in Legs, Core(k) PROVE swept' \in {swept, [swept EXCEPT ![k] = NoTransfer]}
      BY <3>1 DEF Core, LegHangsUp, Destroy, LegPlays, transferVars
    <3>2. ASSUME NEW r \in Requests, NEW ask \in Asks[r], Begin(r, ask) PROVE UNCHANGED swept
      BY <3>2 DEF Begin, HangupFind, HangupManyFind, StopPlaybackFind, BroadcastFind, QueueFind,
         BlindTransferFind, BreakPark, SetStateFind, Originate, BridgeFind, BridgeCallFind, transferVars
    <3>3. ASSUME NEW r \in Requests, GoOn(r) PROVE UNCHANGED swept
      BY <3>3 DEF GoOn, HangupLate, HangupManyHangup, StopPlaybackWait, BroadcastWait, BroadcastPlay,
         QueuePlay, BlindTransferGo, SetStateFire, OriginateFails, OriginateAnswered,
         OriginateCheck, BridgeAsk,
         BridgeFindB, BridgeWait, BridgeCallFrom, BridgeCallTo, BridgeCallRecord, BridgeCallBridge,
         transferVars
    <3>4. ASSUME NEW r \in Requests, BornHangsUp(r) PROVE UNCHANGED swept
      BY <3>4 DEF BornHangsUp, transferVars
    <3>5. swept' = swept \/ \E k \in Legs : swept' = [swept EXCEPT ![k] = NoTransfer]
      BY <2>2, <3>1, <3>2, <3>3, <3>4 DEF Next, vars, transferVars
    <3> QED
      BY <3>5 DEF LegsTyped, NoTransfer
  <2> QED
    BY <2>1, <2>2
<1>2. Spec => [][Ended]_vars
  BY <1>1, TypeInvariant, LinksInvariant, PTL DEF Spec
<1> QED
  BY <1>2 DEF RecordingGoesOn
=============================================================================
