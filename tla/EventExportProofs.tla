-------------------------- MODULE EventExportProofs --------------------------
(***************************************************************************)
(* Theorems about the export of events: about CallEvents, for every set of *)
(* legs, agents and requests, any number of holds and recordings and any   *)
(* length of the queue; and about HangupReport, for every set of causes    *)
(* and codes.                                                              *)
(***************************************************************************)
EXTENDS HangupReport, CallEvents, SequenceTheorems, TLAPS

(***************************************************************************)
(* CallEvents.                                                             *)
(***************************************************************************)

USE DEF Unmarked, BridgeEpoch

\* What TypeOK says of the legs, and of the dispatcher and the requests.
CoreTyped ==
  /\ chan \in [Legs -> {"none", "ringing", "answered", "unholding", "hungup", "reported", "destroyed"}]
  /\ flags \in [Legs -> SUBSET {"PROTO_HOLD", "LEG_HOLDING", "HANGUP_HELD"}]
  /\ quiet \in SUBSET Legs /\ numeric \in SUBSET Legs
  /\ media \in [Legs -> Media]
  /\ state \in [Legs -> States]
  /\ holds \in [Legs -> Nat] /\ records \in [Legs -> Nat]
  /\ recording \in [Legs -> BOOLEAN]
RecTyped == rec \in [Legs -> Spans]
QueueTyped == queue \in Seq(Events)
JobTyped ==
  \/ job = NoJob
  \/ job \in [pc : {"test", "post"}, event : Reported, lock : BOOLEAN,
              notice : Reported \cup {NoNotice}]
ReqTyped ==
  req \in [Requests -> {Idle} \cup [kind : {"Hold", "UnHold"}, leg : Legs, lock : {TRUE}]
                             \cup [kind : {"SetEavesdropState"}, leg : Legs, lock : BOOLEAN]]
ViewTyped ==
  /\ view \in [Legs -> {"none", "ringing", "active", "hold", "hangup"}]
  /\ span \in [Legs -> Spans]
  /\ told \in [Legs -> Types]
PastTyped == leaked \subseteq Legs /\ behind \subseteq Legs /\ late \subseteq Legs

LEMMA TypeParts ==
  TypeOK <=> CoreTyped /\ RecTyped /\ QueueTyped /\ JobTyped /\ ReqTyped /\ ViewTyped /\ PastTyped
  BY DEF TypeOK, CoreTyped, RecTyped, QueueTyped, JobTyped, ReqTyped, ViewTyped, PastTyped

-----------------------------------------------------------------------------
\* Events of one leg; what the queue and the job hold of a set of events.
Of(l, kinds) == {ev \in Events : ev.leg = l /\ ev.kind \in kinds}
NoneOf(B)    == \A i \in 1..Len(queue) : queue[i] \notin B
LastIs(G, B) ==
  \E i \in 1..Len(queue) : queue[i] \in G /\ \A j \in 1..Len(queue) : j > i => queue[j] \notin B
InJob(E) == job # NoJob /\ job.event \in E

\* The queue grows at its end, or loses its first event.
Grown(ev) ==
  /\ Len(queue) \in Nat /\ Len(queue') = Len(queue) + 1 /\ queue'[Len(queue) + 1] = ev
  /\ \A i \in 1..Len(queue) : queue'[i] = queue[i]
Shrunk(ev) ==
  /\ Len(queue) \in Nat /\ Len(queue) > 0 /\ Len(queue') = Len(queue) - 1 /\ queue[1] = ev
  /\ \A i \in 1..Len(queue') : queue'[i] = queue[i + 1]

LEMMA QueueGrows ==
  ASSUME QueueTyped, NEW ev \in Events, queue' = Append(queue, ev)
  PROVE  QueueTyped' /\ Grown(ev)
  BY AppendProperties, LenProperties DEF QueueTyped, Grown

LEMMA QueueShrinks ==
  ASSUME QueueTyped, queue # <<>>, queue' = Tail(queue)
  PROVE  QueueTyped' /\ Head(queue) \in Events /\ Shrunk(Head(queue))
<1>1. QueueTyped' /\ Head(queue) \in Events /\ Len(queue') = Len(queue) - 1
      /\ \A i \in 1..Len(queue') : queue'[i] = queue[i + 1]
  BY HeadTailProperties DEF QueueTyped
<1>2. Len(queue) \in Nat /\ Len(queue) > 0
  BY EmptySeq, LenProperties DEF QueueTyped
<1> QED
  BY <1>1, <1>2 DEF Shrunk

LEMMA FireGrows ==
  ASSUME QueueTyped, NEW ev \in Events, Fire(ev)
  PROVE  QueueTyped' /\ Grown(ev)
  BY QueueGrows DEF Fire

LEMMA TakeShrinks ==
  ASSUME QueueTyped, queue # <<>>, Take(Head(queue))
  PROVE  QueueTyped' /\ Head(queue) \in Events /\ Shrunk(Head(queue)) /\ job = NoJob
  BY QueueShrinks DEF Take

LEMMA LastGrown ==
  ASSUME NEW ev, Grown(ev), NEW G, NEW B, ev \in G
  PROVE  LastIs(G, B)'
  BY DEF Grown, LastIs

LEMMA NoneShrunk ==
  ASSUME NEW ev, Shrunk(ev), NEW B, NoneOf(B)
  PROVE  NoneOf(B)'
  BY DEF Shrunk, NoneOf

LEMMA LastShrunk ==
  ASSUME NEW ev, Shrunk(ev), NEW G, NEW B, LastIs(G, B)
  PROVE  LastIs(G, B)' \/ (ev \in G /\ NoneOf(B)')
<1>1. PICK i \in 1..Len(queue) : queue[i] \in G /\ \A j \in 1..Len(queue) : j > i => queue[j] \notin B
  BY DEF LastIs
<1>2. CASE i = 1
  BY <1>1, <1>2 DEF Shrunk, NoneOf
<1>3. CASE i # 1
  <2>1. i - 1 \in 1..Len(queue') /\ queue'[i - 1] = queue[i]
    BY <1>1, <1>3 DEF Shrunk
  <2>2. \A j \in 1..Len(queue') : j > i - 1 => queue'[j] \notin B
    BY <1>1, <1>3 DEF Shrunk
  <2> QED
    BY <1>1, <2>1, <2>2 DEF LastIs
<1> QED
  BY <1>2, <1>3

LEMMA EventTypes ==
  ASSUME CoreTyped, RecTyped, NEW l \in Legs
  PROVE  /\ \A kind \in {"CREATE", "ANSWER", "HOLD", "UNHOLD"} :
              Event(kind, l) \in Changes /\ Event(kind, l) \in Events
         /\ \A kind \in {"RECORD_START", "RECORD_STOP"}, n \in Nat : RecordEvent(kind, l, n) \in Events
         /\ HangupEvent(l) \in Events
         /\ \A st \in States, type \in Types :
              EavesdropEvent(l, st, type) \in Reported /\ EavesdropEvent(l, st, type) \in Events
<1>1. state[l] \in States /\ rec[l] \in Spans /\ media[l] \in Media
  BY DEF CoreTyped, RecTyped
<1> QED
  BY <1>1 DEF Event, RecordEvent, HangupEvent, EavesdropEvent, Changes, Reported, Events

LEMMA NoticeTyped ==
  ASSUME CoreTyped, RecTyped, NEW ev \in Reported
  PROVE  NoticeOf(ev) \in Reported \cup {NoNotice}
<1>1. ev.leg \in Legs /\ ev.state \in States
  BY DEF Reported, Changes
<1>2. ASSUME NEW type \in Types PROVE Notice(ev.leg, ev.state, type) \in Reported \cup {NoNotice}
  BY <1>1, EventTypes, AgentAssumption DEF Notice
<1>3. {"joined", "leave", ev.state} \subseteq Types
  BY <1>1 DEF Types
<1> QED
  BY <1>2, <1>3 DEF NoticeOf

\* What every step of the core, and of a request, leaves alone, and the events it fires.
CoreKinds == {"CREATE", "ANSWER", "HOLD", "UNHOLD", "RECORD_START", "RECORD_STOP"}
CoreEvents(l) == Of(l, CoreKinds \cup {"HANGUP"})
ApiEvents == {ev \in Events : ev.kind \in {"HOLD", "UNHOLD", "EAVESDROP"}}

Adds(E) == UNCHANGED queue \/ \E ev \in E : queue' = Append(queue, ev)

LEMMA AddsFrom ==
  ASSUME QueueTyped, NEW E \in SUBSET Events, Adds(E)
  PROVE  /\ QueueTyped'
         /\ Len(queue) \in Nat /\ Len(queue') \in Nat /\ Len(queue) <= Len(queue')
         /\ \A i \in 1..Len(queue) : queue'[i] = queue[i]
         /\ \A i \in 1..Len(queue') : i > Len(queue) => queue'[i] \in E
<1>1. CASE UNCHANGED queue
  BY <1>1, LenProperties DEF QueueTyped
<1>2. ASSUME NEW ev \in E, queue' = Append(queue, ev)
      PROVE  /\ QueueTyped'
             /\ Len(queue) \in Nat /\ Len(queue') \in Nat /\ Len(queue) <= Len(queue')
             /\ \A i \in 1..Len(queue) : queue'[i] = queue[i]
             /\ \A i \in 1..Len(queue') : i > Len(queue) => queue'[i] \in E
  BY <1>2, QueueGrows DEF Grown
<1> QED
  BY <1>1, <1>2 DEF Adds

LEMMA AddsNone ==
  ASSUME QueueTyped, NEW E \in SUBSET Events, Adds(E), NEW B, E \cap B = {}, NoneOf(B)
  PROVE  NoneOf(B)'
  BY AddsFrom DEF NoneOf

LEMMA AddsLast ==
  ASSUME QueueTyped, NEW E \in SUBSET Events, Adds(E), NEW G, NEW B, E \cap B = {}, LastIs(G, B)
  PROVE  LastIs(G, B)'
  BY AddsFrom DEF LastIs

LEMMA ToggleAdds ==
  ASSUME CoreTyped, RecTyped, NEW l \in Legs, NEW on \in BOOLEAN, ToggleHold(l, on)
  PROVE  /\ \/ UNCHANGED queue
            \/ Fire(Event("HOLD", l)) /\ Event("HOLD", l) \in CoreEvents(l) \cap ApiEvents
            \/ Fire(Event("UNHOLD", l)) /\ Event("UNHOLD", l) \in CoreEvents(l) \cap ApiEvents
         /\ flags' \in [Legs -> SUBSET {"PROTO_HOLD", "LEG_HOLDING", "HANGUP_HELD"}]
         /\ \A m \in Legs \ {l} : flags'[m] = flags[m]
<1>1. /\ Event("HOLD", l) \in CoreEvents(l) \cap ApiEvents
      /\ Event("UNHOLD", l) \in CoreEvents(l) \cap ApiEvents
  BY EventTypes DEF Event, CoreEvents, CoreKinds, Of, ApiEvents
<1>2. flags[l] \in SUBSET {"PROTO_HOLD", "LEG_HOLDING", "HANGUP_HELD"}
  BY DEF CoreTyped
<1>3. \/ UNCHANGED flags
      \/ flags' = [flags EXCEPT ![l] = @ \cup {"PROTO_HOLD", "LEG_HOLDING"}]
      \/ flags' = [flags EXCEPT ![l] = @ \ {"PROTO_HOLD", "LEG_HOLDING"}]
  BY DEF ToggleHold
<1>4. flags' \in [Legs -> SUBSET {"PROTO_HOLD", "LEG_HOLDING", "HANGUP_HELD"}]
  BY <1>2, <1>3 DEF CoreTyped
<1>5. \A m \in Legs \ {l} : flags'[m] = flags[m]
  BY <1>3 DEF CoreTyped
<1>6. UNCHANGED queue \/ Fire(Event("HOLD", l)) \/ Fire(Event("UNHOLD", l))
  BY DEF ToggleHold
<1> QED
  BY <1>1, <1>4, <1>5, <1>6

LEMMA CoreAdds ==
  ASSUME CoreTyped, RecTyped, NEW l \in Legs, Core(l)
  PROVE  /\ Adds(CoreEvents(l))
         /\ UNCHANGED <<rec, job, leaked, req, viewVars, late>>
         /\ quiet' = quiet /\ numeric' = numeric /\ state' = state
         /\ ReportHangup(l) \/ Adds(Of(l, CoreKinds))
<1>1. /\ UNCHANGED <<rec, job, leaked, req, viewVars, late>>
      /\ quiet' = quiet /\ numeric' = numeric /\ state' = state
  BY DEF Core, Create, Answer, StartRecord, StopRecord, Bridge, PhoneHold, BeginHangup, MarkHeld,
     ReportHangup, Destroy
<1>2. /\ \A kind \in {"CREATE", "ANSWER", "HOLD", "UNHOLD"} : Event(kind, l) \in Of(l, CoreKinds)
      /\ \A kind \in {"RECORD_START", "RECORD_STOP"}, n \in Nat :
           RecordEvent(kind, l, n) \in Of(l, CoreKinds)
      /\ HangupEvent(l) \in CoreEvents(l)
  BY EventTypes DEF Event, RecordEvent, HangupEvent, CoreEvents, CoreKinds, Of
<1>3. records[l] \in Nat /\ records[l] + 1 \in Nat
  BY DEF CoreTyped
<1>4. ASSUME NEW on \in BOOLEAN, PhoneHold(l, on) PROVE Adds(Of(l, CoreKinds))
  BY <1>2, <1>4, ToggleAdds DEF PhoneHold, Fire, Adds
<1>5. ASSUME StartRecord(l) \/ StopRecord(l) PROVE Adds(Of(l, CoreKinds))
  BY <1>2, <1>3, <1>5 DEF StartRecord, StopRecord, Fire, Adds
<1>6. ASSUME Create(l) \/ Answer(l) \/ BeginHangup(l) PROVE Adds(Of(l, CoreKinds))
  BY <1>2, <1>6 DEF Create, Answer, BeginHangup, Fire, Adds
<1>7. ASSUME MarkHeld(l) \/ Destroy(l) \/ Bridge(l) PROVE Adds(Of(l, CoreKinds))
  BY <1>7 DEF MarkHeld, Destroy, Bridge, Adds
<1>8. ReportHangup(l) => Adds(CoreEvents(l))
  BY <1>2 DEF ReportHangup, Fire, Adds
<1>9. Adds(Of(l, CoreKinds)) => Adds(CoreEvents(l))
  BY DEF CoreEvents, Of, Adds
<1> QED
  BY <1>1, <1>4, <1>5, <1>6, <1>7, <1>8, <1>9 DEF Core

LEMMA RequestTyped ==
  ASSUME CoreTyped, RecTyped, ReqTyped, NEW r \in Requests, req[r] # Idle
  PROVE  /\ req[r].leg \in Legs /\ req[r].lock \in BOOLEAN
         /\ req[r].kind \in {"Hold", "UnHold", "SetEavesdropState"}
         /\ req[r].kind # "SetEavesdropState" => req[r].lock
  BY DEF ReqTyped

LEMMA ApiAdds ==
  ASSUME CoreTyped, RecTyped, ReqTyped, NEW r \in Requests, Api(r)
  PROVE  /\ Adds(ApiEvents) /\ CoreTyped' /\ ReqTyped'
         /\ UNCHANGED <<rec, job, leaked, viewVars, behind, chan, quiet, numeric, media, records,
                        recording>>
         /\ late' \subseteq late \cup Legs
<1> DEFINE Goal == /\ Adds(ApiEvents) /\ CoreTyped' /\ ReqTyped'
                  /\ UNCHANGED <<rec, job, leaked, viewVars, behind, chan, quiet, numeric, media,
                                 records, recording>>
                  /\ late' \subseteq late \cup Legs
<1>1. ASSUME NEW l \in Legs, NEW kind \in {"Hold", "UnHold", "SetEavesdropState"}, Begin(r, l, kind)
      PROVE  Goal
  <2>1. CoreTyped'
    BY <1>1 DEF Begin, CoreTyped
  <2>2. ReqTyped'
    BY <1>1 DEF Begin, ReqTyped
  <2> QED
    BY <1>1, <2>1, <2>2 DEF Begin, Fire, Adds
<1>2. ASSUME SetHold(r) PROVE Goal
  <2>1. req[r].leg \in Legs
    BY <1>2, RequestTyped DEF SetHold, Idle
  <2>2. Adds(ApiEvents) /\ flags' \in [Legs -> SUBSET {"PROTO_HOLD", "LEG_HOLDING", "HANGUP_HELD"}]
    BY <1>2, <2>1, ToggleAdds DEF SetHold, Fire, Adds
  <2>3. ReqTyped'
    BY <1>2 DEF SetHold, ReqTyped
  <2> QED
    BY <1>2, <2>1, <2>2, <2>3 DEF SetHold, CoreTyped
<1>3. ASSUME SetState(r) PROVE Goal
  <2>0. req[r] # Idle
    BY <1>3 DEF SetState, Idle
  <2>1. req[r] \in [kind : {"SetEavesdropState"}, leg : Legs, lock : BOOLEAN]
    BY <1>3, <2>0 DEF SetState, ReqTyped
  <2>2. ReqTyped'
    BY <1>3, <2>1 DEF SetState, ReqTyped
  <2>3. CoreTyped'
    BY <1>3, <2>1 DEF SetState, CoreTyped, States
  <2> QED
    BY <1>3, <2>2, <2>3 DEF SetState, Fire, Adds
<1>4. ASSUME FireState(r) PROVE Goal
  <2>1. req[r].leg \in Legs
    BY <1>4, RequestTyped DEF FireState, Idle
  <2>2. PICK l \in Legs : l = req[r].leg
    BY <2>1
  <2>3. EavesdropEvent(l, state[l], "own") \in ApiEvents
    BY EventTypes DEF CoreTyped, Types, ApiEvents, EavesdropEvent
  <2>4. Adds(ApiEvents)
    BY <1>4, <2>2, <2>3 DEF FireState, Fire, Adds
  <2>5. CoreTyped'
    BY <1>4 DEF FireState, CoreTyped, coreVars
  <2>6. ReqTyped'
    BY <1>4 DEF FireState, ReqTyped
  <2> QED
    BY <1>4, <2>1, <2>4, <2>5, <2>6 DEF FireState, coreVars
<1> QED
  BY <1>1, <1>2, <1>3, <1>4 DEF Api

LEMMA PostTyped ==
  ASSUME CoreTyped, RecTyped, NEW ev \in Reported, NEW lock \in BOOLEAN, Post(ev, lock)
  PROVE  JobTyped'
<1>1. PICK n : n = NoticeOf(ev)
  OBVIOUS
<1>2. n \in Reported \cup {NoNotice}
  BY <1>1, NoticeTyped
<1>3. job' = [pc |-> "post", event |-> ev, lock |-> lock, notice |-> n]
  BY <1>1 DEF Post
<1> QED
  BY <1>2, <1>3 DEF JobTyped

\* What a report leaves the subscribers with.
Shown(kind, was) ==
  CASE kind = "CREATE" -> "ringing" [] kind \in {"ANSWER", "UNHOLD"} -> "active"
    [] kind = "HOLD" -> "hold" [] kind = "HANGUP" -> "hangup" [] OTHER -> was

LEMMA ReportSends ==
  ASSUME JobTyped, ViewTyped, Send
  PROVE  /\ ViewTyped' /\ job.event \in Reported /\ job.event.leg \in Legs
         /\ job # NoJob /\ job.notice \in Reported \cup {NoNotice}
         /\ view' = [view EXCEPT ![job.event.leg] = Shown(job.event.kind, @)]
         /\ span' = IF job.event.kind = "HANGUP"
                    THEN [span EXCEPT ![job.event.leg] = RecordOf(job.event)] ELSE span
         /\ told' = IF job.event.kind = "EAVESDROP"
                    THEN [told EXCEPT ![job.event.leg] = job.event.type] ELSE told
<1>1. /\ job.event \in Reported /\ job.event.leg \in Legs
      /\ job # NoJob /\ job.notice \in Reported \cup {NoNotice}
  BY DEF Send, JobTyped, NoJob, Reported, Changes
<1>2. PICK ev \in Reported : ev = job.event
  BY <1>1
<1>3. /\ ev.leg \in Legs
      /\ ev.kind \in {"CREATE", "ANSWER", "HOLD", "UNHOLD", "HANGUP", "EAVESDROP"}
      /\ ev.kind = "HANGUP" => ev.rec \in Spans /\ ev.media \in Media
      /\ ev.kind = "EAVESDROP" => ev.type \in Types
  BY DEF Reported, Changes
<1>4. Report(ev)
  BY <1>2 DEF Send
<1>5. view' = [view EXCEPT ![ev.leg] = Shown(ev.kind, @)]
  <2>1. CASE ev.kind = "EAVESDROP"
    BY <2>1, <1>3, <1>4 DEF Report, Shown, ViewTyped
  <2>2. CASE ev.kind # "EAVESDROP"
    BY <2>2, <1>3, <1>4 DEF Report, Shown
  <2> QED
    BY <2>1, <2>2
<1>6. /\ span' = IF ev.kind = "HANGUP" THEN [span EXCEPT ![ev.leg] = RecordOf(ev)] ELSE span
      /\ told' = IF ev.kind = "EAVESDROP" THEN [told EXCEPT ![ev.leg] = ev.type] ELSE told
  BY <1>4 DEF Report
<1>7. \A was : was \in {"none", "ringing", "active", "hold", "hangup"} =>
         Shown(ev.kind, was) \in {"none", "ringing", "active", "hold", "hangup"}
  BY <1>3 DEF Shown
<1>9. ev.kind = "HANGUP" => RecordOf(ev) \in Spans
  BY <1>3 DEF RecordOf, NoSpan, Spans
<1>8. ViewTyped'
  BY <1>3, <1>5, <1>6, <1>7, <1>9 DEF ViewTyped
<1> QED
  BY <1>1, <1>2, <1>5, <1>6, <1>8

LEMMA TypeInvariant == Spec => []TypeOK
<1>1. Init => TypeOK
  <2> SUFFICES ASSUME Init PROVE TypeOK
    OBVIOUS
  <2>1. PICK odd \in Oddities :
          /\ quiet = odd.quiet /\ numeric = Legs \ odd.bad
          /\ media = [l \in Legs |-> [waits |-> l \in odd.waits, bridged |-> FALSE]]
    BY DEF Init
  <2>2. odd \in [quiet : SUBSET Legs, bad : SUBSET Legs, waits : SUBSET Legs]
    BY AgentAssumption
  <2>3. quiet \in SUBSET Legs /\ numeric \in SUBSET Legs
    BY <2>1, <2>2
  <2>4. media \in [Legs -> Media]
    BY <2>1 DEF Media
  <2> QED
    BY <2>3, <2>4, AgentAssumption DEF Init, TypeOK, States, Types, Spans, NoSpan, Idle, NoJob
<1>2. TypeOK /\ [Next]_vars => TypeOK'
  <2> SUFFICES ASSUME CoreTyped, RecTyped, QueueTyped, JobTyped, ReqTyped, ViewTyped, PastTyped,
                      [Next]_vars
               PROVE  CoreTyped' /\ RecTyped' /\ QueueTyped' /\ JobTyped'
                      /\ ReqTyped' /\ ViewTyped' /\ PastTyped'
    BY TypeParts, PTL
  <2>1. ASSUME NEW l \in Legs, Core(l)
        PROVE  CoreTyped' /\ RecTyped' /\ QueueTyped' /\ JobTyped'
               /\ ReqTyped' /\ ViewTyped' /\ PastTyped'
    <3>1. UNCHANGED <<rec, job, leaked, req, viewVars, late>> /\ QueueTyped'
      BY <2>1, CoreAdds, AddsFrom DEF CoreEvents, Of
    <3>2. behind' \subseteq Legs
      BY <2>1 DEF Core, Create, Answer, StartRecord, StopRecord, Bridge, PhoneHold, BeginHangup,
         MarkHeld,
         ReportHangup, Destroy, PastTyped
    <3>3. CoreTyped'
      <4>1. ASSUME NEW on \in BOOLEAN, PhoneHold(l, on) PROVE CoreTyped'
        BY <4>1, ToggleAdds DEF PhoneHold, CoreTyped
      <4>2. ASSUME Create(l) \/ Answer(l) \/ ReportHangup(l) \/ Destroy(l) PROVE CoreTyped'
        BY <4>2 DEF Create, Answer, ReportHangup, Destroy, CoreTyped
      <4>6. ASSUME Bridge(l) PROVE CoreTyped'
        <5>1. media[l] \in Media /\ media' = [media EXCEPT ![l].bridged = TRUE]
          BY <4>6 DEF Bridge, CoreTyped
        <5>2. media' \in [Legs -> Media]
          BY <5>1 DEF CoreTyped, Media
        <5> QED
          BY <4>6, <5>2 DEF Bridge, CoreTyped
      <4>3. ASSUME StartRecord(l) PROVE CoreTyped'
        <5>1. records[l] + 1 \in Nat
          BY DEF CoreTyped
        <5> QED
          BY <4>3, <5>1 DEF StartRecord, CoreTyped
      <4>5. ASSUME StopRecord(l) PROVE CoreTyped'
        BY <4>5 DEF StopRecord, CoreTyped
      <4>4. ASSUME BeginHangup(l) \/ MarkHeld(l) PROVE CoreTyped'
        BY <4>4 DEF BeginHangup, MarkHeld, CoreTyped
      <4> QED
        BY <2>1, <4>1, <4>2, <4>3, <4>4, <4>5, <4>6 DEF Core
    <3> QED
      BY <3>1, <3>2, <3>3 DEF RecTyped, JobTyped, ReqTyped, ViewTyped, PastTyped, viewVars
  <2>2. ASSUME NEW r \in Requests, Api(r)
        PROVE  CoreTyped' /\ RecTyped' /\ QueueTyped' /\ JobTyped'
               /\ ReqTyped' /\ ViewTyped' /\ PastTyped'
    <3>1. CoreTyped' /\ ReqTyped' /\ QueueTyped'
      BY <2>2, ApiAdds, AddsFrom DEF ApiEvents
    <3> QED
      BY <2>2, <3>1, ApiAdds DEF RecTyped, JobTyped, ViewTyped, PastTyped, viewVars
  <2>3. ASSUME Dispatch
        PROVE  CoreTyped' /\ RecTyped' /\ QueueTyped' /\ JobTyped'
               /\ ReqTyped' /\ ViewTyped' /\ PastTyped'
    <3>1. ASSUME queue # <<>>, NEW ev, ev = Head(queue),
                 Drop(ev) \/ Handle(ev) \/ HandleUnhold(ev) \/ HandleRecordStart(ev) \/ HandleRecordStop(ev)
          PROVE  CoreTyped' /\ RecTyped' /\ QueueTyped' /\ JobTyped'
                 /\ ReqTyped' /\ ViewTyped' /\ PastTyped'
      <4>1. QueueTyped' /\ ev \in Events /\ ev.leg \in Legs
        BY <3>1, TakeShrinks DEF Drop, Handle, HandleUnhold, HandleRecordStart, HandleRecordStop,
           Events, Reported, Changes
      <4>2. UNCHANGED <<coreVars, leaked, req, viewVars, late>>
        BY <3>1 DEF Drop, Handle, HandleUnhold, HandleRecordStart, HandleRecordStop
      <4>3. RecTyped' /\ behind' \subseteq Legs
        <5>1. ev.kind \in {"RECORD_START", "RECORD_STOP"} => ev.n \in Nat
          BY <4>1 DEF Events, Reported, Changes
        <5>2. /\ behind' = behind \/ behind' = behind \cup {ev.leg}
              /\ \/ UNCHANGED rec
                 \/ rec' = [rec EXCEPT ![ev.leg].start = ev.n] /\ ev.kind = "RECORD_START"
                 \/ rec' = [rec EXCEPT ![ev.leg].stop = ev.n] /\ ev.kind = "RECORD_STOP"
          BY <3>1 DEF Drop, Handle, HandleUnhold, HandleRecordStart, HandleRecordStop
        <5> QED
          BY <4>1, <5>1, <5>2 DEF RecTyped, PastTyped, Spans
      <4>4. JobTyped'
        <5>1. ev.kind \notin {"RECORD_START", "RECORD_STOP"} => ev \in Reported
          BY <4>1 DEF Events
        <5>2. \/ UNCHANGED job
              \/ ev \in Reported /\ Post(ev, FALSE)
              \/ job' = NoJob
              \/ /\ ev \in Reported
                 /\ job' = [pc |-> "test", event |-> ev, lock |-> TRUE, notice |-> NoNotice]
          BY <3>1, <5>1 DEF Drop, Handle, HandleUnhold, HandleRecordStart, HandleRecordStop
        <5>3. ev \in Reported /\ Post(ev, FALSE) => JobTyped'
          BY PostTyped
        <5>4. ev \in Reported /\ job' = [pc |-> "test", event |-> ev, lock |-> TRUE,
                                         notice |-> NoNotice]
              => JobTyped'
          BY DEF JobTyped
        <5>5. UNCHANGED job \/ job' = NoJob => JobTyped'
          BY DEF JobTyped
        <5> QED
          BY <5>2, <5>3, <5>4, <5>5
      <4> QED
        BY <4>1, <4>2, <4>3, <4>4 DEF CoreTyped, ReqTyped, ViewTyped, PastTyped, coreVars, viewVars
    <3>2. ASSUME TestUnhold
          PROVE  CoreTyped' /\ RecTyped' /\ QueueTyped' /\ JobTyped'
                 /\ ReqTyped' /\ ViewTyped' /\ PastTyped'
      <4>1. job.event \in Reported /\ job.event.leg \in Legs
        BY <3>2 DEF TestUnhold, JobTyped, NoJob, Reported, Changes
      <4>2. Post(job.event, TRUE) => JobTyped'
        BY <4>1, PostTyped
      <4>3. (job' = NoJob \/ Post(job.event, TRUE)) /\ (leaked' = leaked \/ leaked' = leaked \cup {job.event.leg})
        BY <3>2 DEF TestUnhold
      <4>4. JobTyped' /\ leaked' \subseteq Legs
        BY <4>1, <4>2, <4>3 DEF JobTyped, PastTyped
      <4> QED
        BY <3>2, <4>4 DEF TestUnhold, CoreTyped, RecTyped, QueueTyped, ReqTyped, ViewTyped,
           PastTyped, coreVars, viewVars
    <3>3. ASSUME Send
          PROVE  CoreTyped' /\ RecTyped' /\ QueueTyped' /\ JobTyped'
                 /\ ReqTyped' /\ ViewTyped' /\ PastTyped'
      <4>1. job.event \in Reported /\ job.event.leg \in Legs /\ job.notice \in Reported \cup {NoNotice}
        BY <3>3 DEF Send, JobTyped, NoJob, Reported, Changes
      <4>2. QueueTyped'
        BY <3>3, <4>1, QueueGrows DEF Send, QueueTyped, Events
      <4>3. ViewTyped'
        BY <3>3, ReportSends
      <4> QED
        BY <3>3, <4>2, <4>3 DEF Send, CoreTyped, RecTyped, JobTyped, ReqTyped, PastTyped, coreVars
    <3> QED
      BY <2>3, <3>1, <3>2, <3>3 DEF Dispatch
  <2>4. CASE UNCHANGED vars
    BY <2>4 DEF vars, coreVars, viewVars, CoreTyped, RecTyped, QueueTyped, JobTyped, ReqTyped,
       ViewTyped, PastTyped
  <2> QED
    BY <2>1, <2>2, <2>3, <2>4 DEF Next
<1> QED
  BY <1>1, <1>2, PTL DEF Spec

\* Every variable keeps its type: only events of the six kinds are reported, and each report
\* is about a leg and what it names of it.
THEOREM TypeCorrect == Spec => []TypeOK
  BY TypeInvariant

-----------------------------------------------------------------------------
\* The dispatcher's steps, seen from the queue, the job and the report.
JobInv ==
  job # NoJob =>
    /\ job.pc = "test" => job.event.kind = "UNHOLD" /\ job.notice = NoNotice
    /\ job.notice # NoNotice =>
         /\ job.event.kind \in {"ANSWER", "UNHOLD", "HANGUP", "EAVESDROP"}
         /\ Agent[job.event.leg] # Nobody
         /\ job.notice.kind = "EAVESDROP" /\ job.notice.leg = Agent[job.event.leg]

Taken(ev) ==
  Drop(ev) \/ Handle(ev) \/ HandleUnhold(ev) \/ HandleRecordStart(ev) \/ HandleRecordStop(ev)

PostKinds == {"CREATE", "ANSWER", "HOLD", "HANGUP", "EAVESDROP"}

LEMMA TakeStep ==
  ASSUME TypeOK, queue # <<>>, NEW ev, ev = Head(queue), Taken(ev)
  PROVE  /\ ev \in Events /\ ev.leg \in Legs /\ Shrunk(ev) /\ job = NoJob
         /\ UNCHANGED <<coreVars, leaked, req, viewVars, late>>
         /\ \/ job' = NoJob
            \/ /\ job' # NoJob /\ ev \in Reported /\ ev.leg \in numeric
               /\ job'.event = ev /\ job'.pc = "post" /\ job'.notice = NoticeOf(ev)
               /\ ev.kind \in PostKinds
            \/ /\ job' # NoJob /\ ev \in Reported
               /\ job'.event = ev /\ job'.pc = "test" /\ job'.notice = NoNotice
               /\ ev.kind = "UNHOLD" /\ Located(ev.leg)
         /\ ev.leg \in numeric \ quiet /\ ev.kind \in PostKinds => job' # NoJob
         /\ ev.leg \in numeric \ quiet /\ ev.kind = "UNHOLD" /\ Located(ev.leg) => job' # NoJob
<1>1. ev \in Events /\ ev.leg \in Legs /\ Shrunk(ev) /\ job = NoJob
  BY TypeParts, TakeShrinks DEF Taken, Drop, Handle, HandleUnhold, HandleRecordStart, HandleRecordStop,
     Events, Reported, Changes
<1>2. UNCHANGED <<coreVars, leaked, req, viewVars, late>>
  BY DEF Taken, Drop, Handle, HandleUnhold, HandleRecordStart, HandleRecordStop
<1>3. ev.kind \notin {"RECORD_START", "RECORD_STOP"} => ev \in Reported
  BY <1>1 DEF Events
<1>4. ASSUME Handle(ev)
      PROVE  /\ job' # NoJob /\ ev \in Reported /\ ev.leg \in numeric
             /\ job'.event = ev /\ job'.pc = "post" /\ job'.notice = NoticeOf(ev)
             /\ ev.kind \in PostKinds
  BY <1>3, <1>4 DEF Handle, Post, NoJob, PostKinds
<1>5. ASSUME HandleUnhold(ev), job' # NoJob
      PROVE  /\ ev \in Reported /\ job'.event = ev /\ job'.pc = "test" /\ job'.notice = NoNotice
             /\ ev.kind = "UNHOLD" /\ Located(ev.leg)
  BY <1>3, <1>5 DEF HandleUnhold
<1>6. ASSUME HandleUnhold(ev), Located(ev.leg) PROVE job' # NoJob
  BY <1>6 DEF HandleUnhold, NoJob
<1>7. ASSUME Drop(ev) \/ HandleRecordStart(ev) \/ HandleRecordStop(ev)
      PROVE  job' = NoJob /\ ~(ev.leg \in numeric \ quiet /\ ev.kind \in PostKinds \cup {"UNHOLD"})
  BY <1>1, <1>7 DEF Drop, HandleRecordStart, HandleRecordStop, Skipped, PostKinds
<1>8. HandleUnhold(ev) => ev.kind = "UNHOLD"
  BY DEF HandleUnhold
<1> QED
  BY <1>1, <1>2, <1>4, <1>5, <1>6, <1>7, <1>8 DEF Taken, PostKinds

LEMMA TestStep ==
  ASSUME TypeOK, JobInv, TestUnhold
  PROVE  /\ job # NoJob /\ job.event \in Reported /\ job.event.leg \in Legs /\ job.event.kind = "UNHOLD"
         /\ job.pc = "test" /\ UNCHANGED <<coreVars, rec, queue, req, viewVars, behind, late>>
         /\ \/ job' = NoJob
            \/ /\ job' # NoJob /\ job'.event = job.event /\ job'.pc = "post"
               /\ job'.notice = NoticeOf(job.event)
         /\ "PROTO_HOLD" \in flags[job.event.leg] => job' = NoJob
         /\ {"HANGUP_HELD", "PROTO_HOLD"} \cap flags[job.event.leg] = {} /\ job.event.leg \in numeric
               => job' # NoJob
<1>1. /\ job # NoJob /\ job.event \in Reported /\ job.event.leg \in Legs /\ job.event.kind = "UNHOLD"
      /\ job.pc = "test"
  BY DEF TestUnhold, TypeOK, NoJob, Reported, Changes, JobInv
<1>2. PICK ev : ev = job.event
  OBVIOUS
<1>3. UNCHANGED <<coreVars, rec, queue, req, viewVars, behind, late>>
  BY DEF TestUnhold
<1>4. \/ job' = NoJob
      \/ Post(ev, TRUE) /\ {"HANGUP_HELD", "PROTO_HOLD"} \cap flags[ev.leg] = {}
  BY <1>2 DEF TestUnhold
<1>5. Post(ev, TRUE) => job' # NoJob /\ job'.event = ev /\ job'.pc = "post" /\ job'.notice = NoticeOf(ev)
  BY DEF Post, NoJob
<1>6. {"HANGUP_HELD", "PROTO_HOLD"} \cap flags[ev.leg] = {} /\ ev.leg \in numeric => Post(ev, TRUE)
  BY <1>2 DEF TestUnhold
<1> QED
  BY <1>1, <1>2, <1>3, <1>4, <1>5, <1>6

LEMMA SendStep ==
  ASSUME TypeOK, JobInv, Send
  PROVE  /\ job.event \in Reported /\ job.event.leg \in Legs
         /\ job # NoJob /\ job.pc = "post" /\ job' = NoJob
         /\ UNCHANGED <<coreVars, rec, leaked, req, behind, late>>
         /\ \A l \in Legs :
              /\ view'[l] = IF l = job.event.leg THEN Shown(job.event.kind, view[l]) ELSE view[l]
              /\ span'[l] = IF l = job.event.leg /\ job.event.kind = "HANGUP"
                            THEN RecordOf(job.event) ELSE span[l]
              /\ told'[l] = IF l = job.event.leg /\ job.event.kind = "EAVESDROP" THEN job.event.type ELSE told[l]
         /\ job.notice = NoNotice => UNCHANGED queue
         /\ job.notice # NoNotice =>
              /\ job.notice \in Of(Agent[job.event.leg], {"EAVESDROP"}) /\ Agent[job.event.leg] \in Legs
              /\ queue' = Append(queue, job.notice)
<1>1. /\ job.event \in Reported /\ job.event.leg \in Legs
      /\ job # NoJob /\ job.notice \in Reported \cup {NoNotice}
      /\ view' = [view EXCEPT ![job.event.leg] = Shown(job.event.kind, @)]
      /\ span' = IF job.event.kind = "HANGUP"
                 THEN [span EXCEPT ![job.event.leg] = RecordOf(job.event)] ELSE span
      /\ told' = IF job.event.kind = "EAVESDROP"
                 THEN [told EXCEPT ![job.event.leg] = job.event.type] ELSE told
  BY TypeParts, ReportSends
<1>2. UNCHANGED <<coreVars, rec, leaked, req, behind, late>> /\ job.pc = "post" /\ job' = NoJob
  BY DEF Send
<1>3. \A l \in Legs :
        /\ view'[l] = IF l = job.event.leg THEN Shown(job.event.kind, view[l]) ELSE view[l]
        /\ span'[l] = IF l = job.event.leg /\ job.event.kind = "HANGUP"
                      THEN RecordOf(job.event) ELSE span[l]
        /\ told'[l] = IF l = job.event.leg /\ job.event.kind = "EAVESDROP" THEN job.event.type ELSE told[l]
  BY <1>1 DEF TypeOK
<1>4. job.notice = NoNotice => UNCHANGED queue
  BY DEF Send
<1>5. ASSUME job.notice # NoNotice
      PROVE  /\ job.notice \in Of(Agent[job.event.leg], {"EAVESDROP"}) /\ Agent[job.event.leg] \in Legs
             /\ queue' = Append(queue, job.notice)
  <2>1. queue' = Append(queue, job.notice)
    BY <1>5 DEF Send
  <2>2. /\ Agent[job.event.leg] # Nobody
        /\ job.notice.kind = "EAVESDROP" /\ job.notice.leg = Agent[job.event.leg]
    BY <1>1, <1>5 DEF JobInv
  <2>3. Agent[job.event.leg] \in Legs
    BY <1>1, <2>2, AgentAssumption
  <2> QED
    BY <1>1, <1>5, <2>1, <2>2, <2>3 DEF Of, Events
<1> QED
  BY <1>1, <1>2, <1>3, <1>4, <1>5

LEMMA NoticeShape ==
  ASSUME NEW ev \in Reported, NoticeOf(ev) # NoNotice
  PROVE  /\ ev.kind \in {"ANSWER", "UNHOLD", "HANGUP", "EAVESDROP"}
         /\ Agent[ev.leg] # Nobody
         /\ NoticeOf(ev).kind = "EAVESDROP" /\ NoticeOf(ev).leg = Agent[ev.leg]
<1>1. ASSUME NEW type
      PROVE  Notice(ev.leg, ev.state, type) # NoNotice =>
               /\ Agent[ev.leg] # Nobody
               /\ Notice(ev.leg, ev.state, type).kind = "EAVESDROP"
               /\ Notice(ev.leg, ev.state, type).leg = Agent[ev.leg]
  BY DEF Notice, EavesdropEvent
<1> QED
  BY <1>1 DEF NoticeOf

LEMMA JobInvariant == Spec => []JobInv
<1>1. Init => JobInv
  BY DEF Init, JobInv
<1>2. TypeOK /\ JobInv /\ [Next]_vars => JobInv'
  <2> SUFFICES ASSUME TypeOK, JobInv, [Next]_vars PROVE JobInv'
    BY PTL
  <2>1. CASE UNCHANGED job
    BY <2>1 DEF JobInv
  <2>2. ASSUME queue # <<>>, NEW ev, ev = Head(queue), Taken(ev) PROVE JobInv'
    <3>1. ev \in Reported /\ NoticeOf(ev) # NoNotice =>
            /\ ev.kind \in {"ANSWER", "UNHOLD", "HANGUP", "EAVESDROP"} /\ Agent[ev.leg] # Nobody
            /\ NoticeOf(ev).kind = "EAVESDROP" /\ NoticeOf(ev).leg = Agent[ev.leg]
      BY NoticeShape
    <3> QED
      BY <2>2, <3>1, TakeStep DEF JobInv
  <2>3. ASSUME TestUnhold PROVE JobInv'
    <3>1. PICK ev : ev = job.event
      OBVIOUS
    <3>2. ev \in Reported /\ NoticeOf(ev) # NoNotice =>
            /\ ev.kind \in {"ANSWER", "UNHOLD", "HANGUP", "EAVESDROP"} /\ Agent[ev.leg] # Nobody
            /\ NoticeOf(ev).kind = "EAVESDROP" /\ NoticeOf(ev).leg = Agent[ev.leg]
      BY NoticeShape
    <3>3. \/ job' = NoJob
          \/ job'.event = ev /\ ev \in Reported /\ job'.pc = "post" /\ job'.notice = NoticeOf(ev)
      BY <2>3, <3>1, TestStep
    <3> QED
      BY <3>2, <3>3 DEF JobInv
  <2>4. ASSUME Send PROVE JobInv'
    BY <2>4, SendStep DEF JobInv
  <2>5. UNCHANGED job \/ Dispatch
    <3>1. ASSUME NEW l \in Legs, Core(l) PROVE UNCHANGED job
      BY <3>1, TypeParts, CoreAdds
    <3>2. ASSUME NEW r \in Requests, Api(r) PROVE UNCHANGED job
      BY <3>2, TypeParts, ApiAdds
    <3> QED
      BY <3>1, <3>2 DEF Next, vars
  <2> QED
    BY <2>1, <2>2, <2>3, <2>4, <2>5 DEF Dispatch, Taken
<1> QED
  BY <1>1, <1>2, TypeInvariant, PTL DEF Spec

-----------------------------------------------------------------------------
\* A leg is held after its answer only, and marked by its hangup only.
FlagsInv ==
  \A l \in Legs :
    /\ chan[l] \in {"none", "ringing"} => flags[l] = {}
    /\ "LEG_HOLDING" \in flags[l] => "PROTO_HOLD" \in flags[l]
    /\ chan[l] = "answered" /\ "PROTO_HOLD" \in flags[l] => "LEG_HOLDING" \in flags[l]
    /\ "HANGUP_HELD" \in flags[l] => chan[l] \in {"hungup", "reported", "destroyed"}

LEMMA ToggleFlags ==
  ASSUME TypeOK, NEW l \in Legs, NEW on \in BOOLEAN, ToggleHold(l, on)
  PROVE  /\ \A m \in Legs \ {l} : flags'[m] = flags[m]
         /\ \/ flags'[l] = flags[l]
            \/ /\ on /\ chan[l] \notin {"none", "ringing"} /\ "PROTO_HOLD" \notin flags[l]
               /\ flags'[l] = flags[l] \cup {"PROTO_HOLD", "LEG_HOLDING"}
            \/ /\ ~on /\ flags'[l] = flags[l] \ {"PROTO_HOLD", "LEG_HOLDING"}
  BY DEF ToggleHold, TypeOK

LEMMA FlagsInvariant == Spec => []FlagsInv
<1>1. Init => FlagsInv
  BY DEF Init, FlagsInv
<1>2. TypeOK /\ FlagsInv /\ [Next]_vars => FlagsInv'
  <2> SUFFICES ASSUME TypeOK, FlagsInv, [Next]_vars PROVE FlagsInv'
    BY PTL
  <2>1. CASE UNCHANGED <<chan, flags>>
    BY <2>1 DEF FlagsInv
  <2>2. ASSUME NEW l \in Legs, Core(l) PROVE FlagsInv'
    <3>1. ASSUME NEW on \in BOOLEAN, PhoneHold(l, on) PROVE FlagsInv'
      BY <3>1, ToggleFlags DEF PhoneHold, FlagsInv
    <3>2. ASSUME Create(l) \/ Answer(l) \/ ReportHangup(l) \/ Destroy(l) PROVE FlagsInv'
      BY <3>2 DEF Create, Answer, ReportHangup, Destroy, FlagsInv, TypeOK
    <3>3. ASSUME BeginHangup(l) PROVE FlagsInv'
      <4>1. /\ \A m \in Legs \ {l} : chan'[m] = chan[m] /\ flags'[m] = flags[m]
            /\ chan[l] \in {"ringing", "answered"}
            /\ \/ /\ "LEG_HOLDING" \in flags[l] /\ chan'[l] = "unholding"
                  /\ flags'[l] = flags[l] \ {"LEG_HOLDING"}
               \/ "LEG_HOLDING" \notin flags[l] /\ chan'[l] = "hungup" /\ flags'[l] = flags[l]
        BY <3>3 DEF BeginHangup, TypeOK
      <4> QED
        BY <4>1 DEF FlagsInv
    <3>4. ASSUME MarkHeld(l) PROVE FlagsInv'
      BY <3>4 DEF MarkHeld, FlagsInv, TypeOK
    <3>5. ASSUME StartRecord(l) \/ StopRecord(l) \/ Bridge(l) PROVE UNCHANGED <<chan, flags>>
      BY <3>5 DEF StartRecord, StopRecord, Bridge
    <3> QED
      BY <2>1, <2>2, <3>1, <3>2, <3>3, <3>4, <3>5 DEF Core
  <2>3. ASSUME NEW r \in Requests, SetHold(r) PROVE FlagsInv'
    <3>1. PICK l \in Legs, on \in BOOLEAN : UNCHANGED chan /\ ToggleHold(l, on)
      <4>1. req[r].leg \in Legs
        BY <2>3, TypeParts, RequestTyped DEF SetHold, Idle
      <4> QED
        BY <2>3, <4>1 DEF SetHold
    <3> QED
      BY <3>1, ToggleFlags DEF FlagsInv
  <2>4. UNCHANGED <<chan, flags>> \/ (\E l \in Legs : Core(l)) \/ (\E r \in Requests : SetHold(r))
    <3>1. ASSUME NEW r \in Requests, Api(r), ~SetHold(r) PROVE UNCHANGED <<chan, flags>>
      BY <3>1 DEF Api, Begin, SetState, FireState, coreVars
    <3>2. Dispatch => UNCHANGED <<chan, flags>>
      BY DEF Dispatch, Drop, Handle, HandleUnhold, HandleRecordStart, HandleRecordStop, TestUnhold,
         Send, coreVars
    <3> QED
      BY <3>1, <3>2 DEF Next, vars, coreVars
  <2> QED
    BY <2>1, <2>2, <2>3, <2>4
<1> QED
  BY <1>1, <1>2, TypeInvariant, PTL DEF Spec

-----------------------------------------------------------------------------
\* The report of a hangup is not made, handled or sent before the core has the leg hung up.
Ended(l) == chan[l] \in {"reported", "destroyed"}

HangupInv ==
  \A l \in Legs : \/ Ended(l)
                  \/ view[l] # "hangup" /\ NoneOf(Of(l, {"HANGUP"})) /\ ~InJob(Of(l, {"HANGUP"}))

LEMMA CoreOthers ==
  ASSUME TypeOK, NEW l \in Legs, Core(l)
  PROVE  /\ \A m \in Legs \ {l} :
              /\ chan'[m] = chan[m] /\ flags'[m] = flags[m]
              /\ records'[m] = records[m] /\ recording'[m] = recording[m]
              /\ media'[m] = media[m]
         /\ \A m \in Legs : Ended(m) => Ended(m)'
<1> DEFINE Goal == /\ \A m \in Legs \ {l} :
                        /\ chan'[m] = chan[m] /\ flags'[m] = flags[m]
                        /\ records'[m] = records[m] /\ recording'[m] = recording[m]
                        /\ media'[m] = media[m]
                   /\ \A m \in Legs : Ended(m) => Ended(m)'
<1>1. ASSUME Create(l) \/ Answer(l) \/ ReportHangup(l) \/ Destroy(l) PROVE Goal
  BY <1>1 DEF Create, Answer, ReportHangup, Destroy, Ended, TypeOK
<1>2. ASSUME StartRecord(l) \/ StopRecord(l) \/ Bridge(l) PROVE Goal
  BY <1>2 DEF StartRecord, StopRecord, Bridge, Ended, TypeOK
<1>3. ASSUME BeginHangup(l) \/ MarkHeld(l) PROVE Goal
  BY <1>3 DEF BeginHangup, MarkHeld, Ended, TypeOK
<1>4. ASSUME NEW on \in BOOLEAN, PhoneHold(l, on) PROVE Goal
  BY <1>4, ToggleFlags DEF PhoneHold, Ended
<1> QED
  BY <1>1, <1>2, <1>3, <1>4 DEF Core

\* A step of the dispatcher takes an event, tests the leg of an UNHOLD, or sends a report.
LEMMA DispatchSplits == Dispatch <=> (queue # <<>> /\ Taken(Head(queue))) \/ TestUnhold \/ Send
  BY DEF Dispatch, Taken

LEMMA InitEmpty ==
  ASSUME Init
  PROVE  \A B : NoneOf(B) /\ ~InJob(B)
<1>1. queue = <<>> /\ job = NoJob
  BY DEF Init
<1> QED
  BY <1>1 DEF NoneOf, InJob

LEMMA HangupInvariant == Spec => []HangupInv
<1>1. Init => HangupInv
  <2> SUFFICES ASSUME Init PROVE HangupInv
    OBVIOUS
  <2>1. ASSUME NEW l \in Legs PROVE view[l] # "hangup"
    BY DEF Init
  <2> QED
    BY <2>1, InitEmpty DEF HangupInv
<1>2. TypeOK /\ JobInv /\ HangupInv /\ [Next]_vars => HangupInv'
  <2> SUFFICES ASSUME TypeOK, JobInv, HangupInv, [Next]_vars PROVE HangupInv'
    BY PTL
  <2> SUFFICES ASSUME NEW m \in Legs, view[m] # "hangup" /\ NoneOf(Of(m, {"HANGUP"})) /\ ~InJob(Of(m, {"HANGUP"})),
                      ~Ended(m), ~Ended(m)'
               PROVE  (view[m] # "hangup" /\ NoneOf(Of(m, {"HANGUP"})) /\ ~InJob(Of(m, {"HANGUP"})))'
    <3>1. ASSUME NEW m \in Legs, Ended(m) PROVE Ended(m)'
      <4>1. ASSUME NEW l \in Legs, Core(l) PROVE Ended(m)'
        BY <3>1, <4>1, CoreOthers
      <4>2. ASSUME UNCHANGED chan PROVE Ended(m)'
        BY <3>1, <4>2 DEF Ended
      <4>3. (\E r \in Requests : Api(r)) \/ Dispatch \/ UNCHANGED vars => UNCHANGED chan
        BY <3>1, TypeParts, ApiAdds DEF Dispatch, Drop, Handle, HandleUnhold, HandleRecordStart,
           HandleRecordStop, TestUnhold, Send, vars, coreVars
      <4> QED
        BY <3>1, <4>1, <4>2, <4>3 DEF Next
    <3> QED
      BY <3>1 DEF HangupInv
  <2>1. ASSUME NEW l \in Legs, Core(l)
        PROVE  (view[m] # "hangup" /\ NoneOf(Of(m, {"HANGUP"})) /\ ~InJob(Of(m, {"HANGUP"})))'
    <3>1. UNCHANGED <<job, view>> /\ Adds(CoreEvents(l)) /\ (ReportHangup(l) \/ Adds(Of(l, CoreKinds)))
      BY <2>1, TypeParts, CoreAdds DEF viewVars
    <3>2. ReportHangup(l) => l # m
      BY DEF ReportHangup, TypeOK, Ended
    <3>3. NoneOf(Of(m, {"HANGUP"}))'
      BY <3>1, <3>2, TypeParts, AddsNone DEF CoreEvents, CoreKinds, Of
    <3> QED
      BY <3>1, <3>3 DEF InJob
  <2>2. ASSUME NEW r \in Requests, Api(r)
        PROVE  (view[m] # "hangup" /\ NoneOf(Of(m, {"HANGUP"})) /\ ~InJob(Of(m, {"HANGUP"})))'
    <3>1. UNCHANGED <<job, view>> /\ Adds(ApiEvents)
      BY <2>2, TypeParts, ApiAdds DEF viewVars
    <3>2. NoneOf(Of(m, {"HANGUP"}))'
      BY <3>1, TypeParts, AddsNone DEF ApiEvents, Of
    <3> QED
      BY <3>1, <3>2 DEF InJob
  <2>3. ASSUME queue # <<>>, NEW ev, ev = Head(queue), Taken(ev)
        PROVE  (view[m] # "hangup" /\ NoneOf(Of(m, {"HANGUP"})) /\ ~InJob(Of(m, {"HANGUP"})))'
    <3>1. Shrunk(ev) /\ UNCHANGED view /\ (job' = NoJob \/ job'.event = ev)
      BY <2>3, TakeStep DEF viewVars
    <3>2. ev \notin Of(m, {"HANGUP"}) /\ NoneOf(Of(m, {"HANGUP"}))'
      BY <3>1, NoneShrunk DEF Shrunk, NoneOf
    <3> QED
      BY <3>1, <3>2 DEF InJob
  <2>4. ASSUME TestUnhold
        PROVE  (view[m] # "hangup" /\ NoneOf(Of(m, {"HANGUP"})) /\ ~InJob(Of(m, {"HANGUP"})))'
    <3>1. job' = NoJob \/ (job # NoJob /\ job'.event = job.event)
      BY <2>4, TestStep
    <3>2. UNCHANGED <<view, queue>>
      BY <2>4 DEF TestUnhold, viewVars
    <3> QED
      BY <3>1, <3>2 DEF InJob, NoneOf
  <2>5. ASSUME Send
        PROVE  (view[m] # "hangup" /\ NoneOf(Of(m, {"HANGUP"})) /\ ~InJob(Of(m, {"HANGUP"})))'
    <3>1. Adds({ev \in Events : ev.kind = "EAVESDROP"}) /\ job' = NoJob
      BY <2>5, SendStep DEF Adds, Of
    <3>2. NoneOf(Of(m, {"HANGUP"}))'
      BY <3>1, TypeParts, AddsNone DEF Of
    <3>3. job # NoJob /\ job.event \in Reported /\ job.event \in Events
          /\ view'[m] = IF m = job.event.leg THEN Shown(job.event.kind, view[m]) ELSE view[m]
      BY <2>5, SendStep DEF Events
    <3>4. m = job.event.leg => job.event.kind # "HANGUP"
      BY <3>3 DEF InJob, Of
    <3>5. view'[m] # "hangup"
      BY <3>3, <3>4 DEF Shown
    <3> QED
      BY <3>1, <3>2, <3>5 DEF InJob
  <2>6. CASE UNCHANGED vars
    BY <2>6 DEF vars, viewVars, InJob, NoneOf
  <2> QED
    BY <2>1, <2>2, <2>3, <2>4, <2>5, <2>6, DispatchSplits DEF Next
<1> QED
  BY <1>1, <1>2, TypeInvariant, JobInvariant, PTL DEF Spec

-----------------------------------------------------------------------------
\* The subscribers see, or will see, that the leg is held: a HOLD is the last status to come,
\* or none is to come and the last one told fits; an UNHOLD in the job is still to be tested.
HeldShown(l) ==
  \/ LastIs(Of(l, {"HOLD"}), Of(l, {"CREATE", "ANSWER"}))
  \/ /\ NoneOf(Of(l, {"CREATE", "ANSWER"}))
     /\ \/ InJob(Of(l, {"HOLD"}))
        \/ /\ view[l] \in {"hold", "hangup"}
           /\ ~InJob(Of(l, {"CREATE", "ANSWER"}))
           /\ InJob(Of(l, {"UNHOLD"})) => job.pc = "test"

\* The same for a leg that is answered and not held.
ActiveShown(l) ==
  \/ LastIs(Of(l, {"ANSWER", "UNHOLD"}), Of(l, {"CREATE", "HOLD"}))
  \/ /\ NoneOf(Of(l, {"CREATE", "HOLD"}))
     /\ \/ InJob(Of(l, {"ANSWER", "UNHOLD"}))
        \/ view[l] = "active" /\ ~InJob(Of(l, {"CREATE", "HOLD"}))

\* What is to come, and what was told, fits the leg's flags of now.
ShownInv ==
  \A l \in numeric \ quiet :
    /\ "PROTO_HOLD" \in flags[l] => HeldShown(l)
    /\ chan[l] = "answered" /\ "PROTO_HOLD" \notin flags[l] => ActiveShown(l)

LEMMA HeldKept ==
  ASSUME QueueTyped, NEW l \in Legs, NEW E \in SUBSET Events, Adds(E),
         E \cap Of(l, {"CREATE", "ANSWER"}) = {},
         UNCHANGED job, view'[l] = view[l], HeldShown(l)
  PROVE  HeldShown(l)'
<1>1. /\ LastIs(Of(l, {"HOLD"}), Of(l, {"CREATE", "ANSWER"})) =>
            LastIs(Of(l, {"HOLD"}), Of(l, {"CREATE", "ANSWER"}))'
      /\ NoneOf(Of(l, {"CREATE", "ANSWER"})) => NoneOf(Of(l, {"CREATE", "ANSWER"}))'
  BY AddsLast, AddsNone
<1>2. \A B : InJob(B)' <=> InJob(B)
  BY DEF InJob
<1> QED
  BY <1>1, <1>2 DEF HeldShown

LEMMA ActiveKept ==
  ASSUME QueueTyped, NEW l \in Legs, NEW E \in SUBSET Events, Adds(E),
         E \cap Of(l, {"CREATE", "HOLD"}) = {},
         UNCHANGED job, view'[l] = view[l], ActiveShown(l)
  PROVE  ActiveShown(l)'
<1>1. /\ LastIs(Of(l, {"ANSWER", "UNHOLD"}), Of(l, {"CREATE", "HOLD"})) =>
            LastIs(Of(l, {"ANSWER", "UNHOLD"}), Of(l, {"CREATE", "HOLD"}))'
      /\ NoneOf(Of(l, {"CREATE", "HOLD"})) => NoneOf(Of(l, {"CREATE", "HOLD"}))'
  BY AddsLast, AddsNone
<1>2. \A B : InJob(B)' <=> InJob(B)
  BY DEF InJob
<1> QED
  BY <1>1, <1>2 DEF ActiveShown

\* What ShownInv says of one leg.
ShownOf(l) ==
  /\ "PROTO_HOLD" \in flags[l] => HeldShown(l)
  /\ chan[l] = "answered" /\ "PROTO_HOLD" \notin flags[l] => ActiveShown(l)

LEMMA ToggleShown ==
  ASSUME TypeOK, FlagsInv, NEW l \in Legs, NEW on \in BOOLEAN, ToggleHold(l, on),
         UNCHANGED <<chan, job, view>>, ShownOf(l)
  PROVE  ShownOf(l)'
<1>1. flags[l] \in SUBSET {"PROTO_HOLD", "LEG_HOLDING", "HANGUP_HELD"} /\ QueueTyped
  BY TypeParts DEF TypeOK
<1>2. CASE UNCHANGED flags
  <2>1. UNCHANGED queue \/ ~UNCHANGED queue
    OBVIOUS
  <2>2. UNCHANGED queue
    BY <1>1, <1>2 DEF ToggleHold, TypeOK
  <2> QED
    BY <1>2, <2>2 DEF ShownOf, HeldShown, ActiveShown, LastIs, NoneOf, InJob
<1>3. CASE /\ on /\ chan[l] \notin {"none", "ringing"} /\ "PROTO_HOLD" \notin flags[l]
           /\ flags' = [flags EXCEPT ![l] = @ \cup {"PROTO_HOLD", "LEG_HOLDING"}]
  <2>1. Fire(Event("HOLD", l)) /\ Event("HOLD", l) \in Of(l, {"HOLD"})
    BY <1>3, TypeParts, EventTypes DEF ToggleHold, FlagsInv, Of, Event
  <2>2. LastIs(Of(l, {"HOLD"}), Of(l, {"CREATE", "ANSWER"}))'
    BY <1>1, <2>1, FireGrows, LastGrown DEF Of
  <2>3. "PROTO_HOLD" \in flags'[l]
    BY <1>3 DEF TypeOK
  <2> QED
    BY <2>2, <2>3 DEF ShownOf, HeldShown
<1>4. CASE /\ ~on /\ "PROTO_HOLD" \in flags[l]
           /\ flags' = [flags EXCEPT ![l] = @ \ {"PROTO_HOLD", "LEG_HOLDING"}]
  <2>1. "PROTO_HOLD" \notin flags'[l]
    BY <1>4 DEF TypeOK
  <2>2. CASE chan[l] = "answered"
    <3>1. Fire(Event("UNHOLD", l)) /\ Event("UNHOLD", l) \in Of(l, {"ANSWER", "UNHOLD"})
      BY <1>4, <2>2, TypeParts, EventTypes DEF ToggleHold, FlagsInv, Of, Event
    <3>2. LastIs(Of(l, {"ANSWER", "UNHOLD"}), Of(l, {"CREATE", "HOLD"}))'
      BY <1>1, <3>1, FireGrows, LastGrown DEF Of
    <3> QED
      BY <2>1, <3>2 DEF ShownOf, ActiveShown
  <2> QED
    BY <2>1, <2>2 DEF ShownOf
<1> QED
  BY <1>2, <1>3, <1>4 DEF ToggleHold

LEMMA ShownCore ==
  ASSUME TypeOK, FlagsInv, NEW l \in Legs, Core(l), NEW m \in Legs, ShownOf(m)
  PROVE  ShownOf(m)'
<1>1. UNCHANGED <<job, view>> /\ Adds(CoreEvents(l)) /\ QueueTyped
  BY TypeParts, CoreAdds DEF viewVars
<1>2. CASE m # l
  <2>1. chan'[m] = chan[m] /\ flags'[m] = flags[m]
    BY <1>2, CoreOthers
  <2>2. CoreEvents(l) \in SUBSET Events /\ \A kinds : CoreEvents(l) \cap Of(m, kinds) = {}
    BY <1>2 DEF CoreEvents, Of
  <2>3. HeldShown(m) => HeldShown(m)'
    BY <1>1, <2>2, HeldKept
  <2>4. ActiveShown(m) => ActiveShown(m)'
    BY <1>1, <2>2, ActiveKept
  <2> QED
    BY <2>1, <2>3, <2>4 DEF ShownOf
<1>3. CASE m = l
  <2>1. ASSUME Create(l) PROVE ShownOf(l)'
    BY <2>1 DEF Create, FlagsInv, ShownOf, TypeOK
  <2>2. ASSUME Answer(l) PROVE ShownOf(l)'
    <3>1. "PROTO_HOLD" \notin flags'[l]
      BY <2>2 DEF Answer, FlagsInv
    <3>2. Fire(Event("ANSWER", l)) /\ Event("ANSWER", l) \in Of(l, {"ANSWER", "UNHOLD"})
      BY <2>2, TypeParts, EventTypes DEF Answer, Of, Event
    <3>3. LastIs(Of(l, {"ANSWER", "UNHOLD"}), Of(l, {"CREATE", "HOLD"}))'
      BY <1>1, <3>2, FireGrows, LastGrown DEF Of
    <3> QED
      BY <3>1, <3>3 DEF ShownOf, ActiveShown
  <2>3. ASSUME NEW on \in BOOLEAN, PhoneHold(l, on) PROVE ShownOf(l)'
    BY <1>1, <1>3, <2>3, ToggleShown DEF PhoneHold
  <2>4. ASSUME BeginHangup(l) \/ MarkHeld(l) \/ ReportHangup(l) \/ Destroy(l) PROVE ShownOf(l)'
    <3>1. /\ chan'[l] # "answered" /\ ("PROTO_HOLD" \in flags'[l] => "PROTO_HOLD" \in flags[l])
      BY <2>4 DEF BeginHangup, MarkHeld, ReportHangup, Destroy, TypeOK
    <3>2. UNCHANGED queue \/ Fire(Event("UNHOLD", l)) \/ Fire(HangupEvent(l))
      BY <2>4 DEF BeginHangup, MarkHeld, ReportHangup, Destroy
    <3>3. /\ {Event("UNHOLD", l), HangupEvent(l)} \in SUBSET Events
          /\ {Event("UNHOLD", l), HangupEvent(l)} \cap Of(l, {"CREATE", "ANSWER"}) = {}
          /\ Adds({Event("UNHOLD", l), HangupEvent(l)})
      <4>1. Event("UNHOLD", l) \in Events /\ HangupEvent(l) \in Events
        BY TypeParts, EventTypes
      <4>2. Event("UNHOLD", l).kind = "UNHOLD" /\ HangupEvent(l).kind = "HANGUP"
        BY DEF Event, HangupEvent
      <4>3. Adds({Event("UNHOLD", l), HangupEvent(l)})
        BY <3>2 DEF Fire, Adds
      <4> QED
        BY <4>1, <4>2, <4>3 DEF Of
    <3>4. HeldShown(l) => HeldShown(l)'
      BY <1>1, <3>3, HeldKept
    <3> QED
      BY <1>3, <3>1, <3>4 DEF ShownOf
  <2>5. ASSUME StartRecord(l) \/ StopRecord(l) \/ Bridge(l) PROVE ShownOf(l)'
    <3>1. /\ UNCHANGED <<chan, flags>> /\ Adds(Of(l, {"RECORD_START", "RECORD_STOP"}))
      <4>1. records[l] \in Nat /\ records[l] + 1 \in Nat
        BY DEF TypeOK
      <4>2. \A kind \in {"RECORD_START", "RECORD_STOP"}, n \in Nat :
              RecordEvent(kind, l, n) \in Of(l, {"RECORD_START", "RECORD_STOP"})
        BY TypeParts, EventTypes DEF Of, RecordEvent
      <4> QED
        BY <2>5, <4>1, <4>2 DEF StartRecord, StopRecord, Bridge, Fire, Adds
    <3>2. /\ Of(l, {"RECORD_START", "RECORD_STOP"}) \in SUBSET Events
          /\ Of(l, {"RECORD_START", "RECORD_STOP"}) \cap Of(l, {"CREATE", "ANSWER"}) = {}
          /\ Of(l, {"RECORD_START", "RECORD_STOP"}) \cap Of(l, {"CREATE", "HOLD"}) = {}
      BY DEF Of
    <3>3. (HeldShown(l) => HeldShown(l)') /\ (ActiveShown(l) => ActiveShown(l)')
      BY <1>1, <3>1, <3>2, HeldKept, ActiveKept
    <3> QED
      BY <1>3, <3>1, <3>3 DEF ShownOf
  <2> QED
    BY <1>3, <2>1, <2>2, <2>3, <2>4, <2>5 DEF Core
<1> QED
  BY <1>2, <1>3

LEMMA ShownApi ==
  ASSUME TypeOK, FlagsInv, NEW r \in Requests, Api(r), NEW m \in Legs, ShownOf(m)
  PROVE  ShownOf(m)'
<1>1. UNCHANGED <<job, view, chan>> /\ QueueTyped
  BY TypeParts, ApiAdds DEF viewVars
<1>2. ASSUME SetHold(r), req[r].leg = m PROVE ShownOf(m)'
  BY <1>1, <1>2, ToggleShown DEF SetHold
<1>3. ASSUME NEW E \in SUBSET Events, Adds(E), \A ev \in E : ev.leg # m \/ ev.kind = "EAVESDROP",
             flags'[m] = flags[m]
      PROVE  ShownOf(m)'
  <2>1. E \cap Of(m, {"CREATE", "ANSWER"}) = {} /\ E \cap Of(m, {"CREATE", "HOLD"}) = {}
    BY <1>3 DEF Of
  <2>2. (HeldShown(m) => HeldShown(m)') /\ (ActiveShown(m) => ActiveShown(m)')
    BY <1>1, <1>3, <2>1, HeldKept, ActiveKept
  <2> QED
    BY <1>1, <1>3, <2>2 DEF ShownOf
<1>4. ASSUME SetHold(r), req[r].leg # m PROVE ShownOf(m)'
  <2>1. PICK l \in Legs, on \in BOOLEAN : l # m /\ ToggleHold(l, on)
    <3>1. req[r].leg \in Legs
      BY <1>4, TypeParts, RequestTyped DEF SetHold, Idle
    <3> QED
      BY <1>4, <3>1 DEF SetHold
  <2>2. Adds(Of(l, {"HOLD", "UNHOLD"})) /\ flags'[m] = flags[m]
    BY <2>1, TypeParts, ToggleAdds DEF Adds, Fire, CoreEvents, CoreKinds, ApiEvents, Of
  <2> QED
    BY <1>3, <2>1, <2>2 DEF Of
<1>5. ASSUME ~SetHold(r) PROVE ShownOf(m)'
  <2>1. UNCHANGED flags /\ Adds({ev \in Events : ev.kind = "EAVESDROP"})
    <3>1. ASSUME FireState(r) PROVE Adds({ev \in Events : ev.kind = "EAVESDROP"})
      <4>1. req[r].leg \in Legs
        BY <3>1, TypeParts, RequestTyped DEF FireState, Idle
      <4>2. PICK l \in Legs : l = req[r].leg
        BY <4>1
      <4>3. state[l] \in States /\ "own" \in Types
        BY DEF TypeOK, Types
      <4>4. EavesdropEvent(l, state[l], "own") \in {ev \in Events : ev.kind = "EAVESDROP"}
        BY <4>3, TypeParts, EventTypes DEF EavesdropEvent
      <4> QED
        BY <3>1, <4>2, <4>4 DEF FireState, Fire, Adds
    <3> QED
      BY <1>5, <3>1 DEF Api, Begin, SetState, FireState, Adds, coreVars
  <2> QED
    BY <1>3, <2>1
<1> QED
  BY <1>2, <1>4, <1>5

\* The event of a numeric leg that is not quiet is handled.
LEMMA ShownTaken ==
  ASSUME TypeOK, FlagsInv, queue # <<>>, NEW ev, ev = Head(queue), Taken(ev),
         NEW m \in numeric \ quiet, ShownOf(m)
  PROVE  ShownOf(m)'
<1>1. /\ m \in Legs /\ ev \in Events /\ Shrunk(ev) /\ job = NoJob
      /\ job' # NoJob => job'.event = ev /\ (ev.kind = "UNHOLD" => job'.pc = "test")
      /\ ev.leg = m /\ ev.kind \in PostKinds => job' # NoJob
      /\ ev.leg = m /\ ev.kind = "UNHOLD" /\ Located(m) => job' # NoJob
  <2>1. m \in Legs
    BY DEF TypeOK
  <2>2. ev \in Events /\ Shrunk(ev) /\ job = NoJob
    BY TakeStep
  <2>3. job' # NoJob => job'.event = ev
    BY TakeStep
  <2>4. job' # NoJob /\ ev.kind = "UNHOLD" => job'.pc = "test"
    BY TakeStep DEF PostKinds
  <2>5. /\ ev.leg = m /\ ev.kind \in PostKinds => job' # NoJob
        /\ ev.leg = m /\ ev.kind = "UNHOLD" /\ Located(m) => job' # NoJob
    BY TakeStep
  <2> QED
    BY <2>1, <2>2, <2>3, <2>4, <2>5
<1>2. UNCHANGED <<chan, flags, view>>
  BY TakeStep DEF coreVars, viewVars
<1>3. \A B : ~InJob(B)
  BY <1>1 DEF InJob
<1>4. \A B : InJob(B)' => ev \in B
  BY <1>1 DEF InJob
<1>5. \A B : NoneOf(B) => ev \notin B /\ NoneOf(B)'
  BY <1>1, NoneShrunk DEF Shrunk, NoneOf
<1>6. HeldShown(m) => HeldShown(m)'
  <2>1. CASE LastIs(Of(m, {"HOLD"}), Of(m, {"CREATE", "ANSWER"}))
    <3>1. \/ LastIs(Of(m, {"HOLD"}), Of(m, {"CREATE", "ANSWER"}))'
          \/ ev \in Of(m, {"HOLD"}) /\ NoneOf(Of(m, {"CREATE", "ANSWER"}))'
      BY <1>1, <2>1, LastShrunk
    <3>2. ev \in Of(m, {"HOLD"}) => InJob(Of(m, {"HOLD"}))'
      BY <1>1 DEF InJob, Of, PostKinds
    <3> QED
      BY <3>1, <3>2 DEF HeldShown
  <2>2. CASE NoneOf(Of(m, {"CREATE", "ANSWER"})) /\ view[m] \in {"hold", "hangup"}
    <3>1. InJob(Of(m, {"UNHOLD"}))' => job'.pc = "test"
      BY <1>1 DEF InJob, Of
    <3> QED
      BY <1>2, <1>4, <1>5, <2>2, <3>1 DEF HeldShown
  <2> QED
    BY <1>3, <2>1, <2>2 DEF HeldShown
<1>7. ASSUME chan[m] = "answered" PROVE ActiveShown(m) => ActiveShown(m)'
  <2>1. CASE LastIs(Of(m, {"ANSWER", "UNHOLD"}), Of(m, {"CREATE", "HOLD"}))
    <3>1. \/ LastIs(Of(m, {"ANSWER", "UNHOLD"}), Of(m, {"CREATE", "HOLD"}))'
          \/ ev \in Of(m, {"ANSWER", "UNHOLD"}) /\ NoneOf(Of(m, {"CREATE", "HOLD"}))'
      BY <1>1, <2>1, LastShrunk
    <3>2. ev \in Of(m, {"ANSWER", "UNHOLD"}) => InJob(Of(m, {"ANSWER", "UNHOLD"}))'
      BY <1>1, <1>7 DEF InJob, Of, PostKinds, Located
    <3> QED
      BY <3>1, <3>2 DEF ActiveShown
  <2>2. CASE NoneOf(Of(m, {"CREATE", "HOLD"})) /\ view[m] = "active"
    BY <1>2, <1>4, <1>5, <2>2 DEF ActiveShown
  <2> QED
    BY <1>3, <2>1, <2>2 DEF ActiveShown
<1> QED
  BY <1>2, <1>6, <1>7 DEF ShownOf

LEMMA ShownTested ==
  ASSUME TypeOK, JobInv, FlagsInv, TestUnhold, NEW m \in numeric \ quiet, ShownOf(m)
  PROVE  ShownOf(m)'
<1>1. /\ job # NoJob /\ job.event \in Reported /\ job.event.kind = "UNHOLD" /\ job.pc = "test"
      /\ job' # NoJob => job'.event = job.event
      /\ "PROTO_HOLD" \in flags[job.event.leg] => job' = NoJob
      /\ {"HANGUP_HELD", "PROTO_HOLD"} \cap flags[job.event.leg] = {} /\ job.event.leg \in numeric
            => job' # NoJob
  BY TestStep
<1>2. UNCHANGED <<chan, flags, view, queue>> /\ m \in Legs
  BY DEF TestUnhold, coreVars, viewVars, TypeOK
<1>3. \A B : LastIs(Of(m, {"HOLD"}), B)' <=> LastIs(Of(m, {"HOLD"}), B)
  BY <1>2 DEF LastIs
<1>4. \A B : LastIs(Of(m, {"ANSWER", "UNHOLD"}), B)' <=> LastIs(Of(m, {"ANSWER", "UNHOLD"}), B)
  BY <1>2 DEF LastIs
<1>5. \A B : NoneOf(B)' <=> NoneOf(B)
  BY <1>2 DEF NoneOf
<1>6. \A B : InJob(B)' => InJob(B)
  BY <1>1 DEF InJob
<1>7. ASSUME "PROTO_HOLD" \in flags[m] PROVE HeldShown(m) => HeldShown(m)'
  <2>1. ~InJob(Of(m, {"HOLD"})) /\ ~InJob(Of(m, {"UNHOLD"}))'
    BY <1>1, <1>7 DEF InJob, Of
  <2> QED
    BY <1>2, <1>3, <1>5, <1>6, <2>1 DEF HeldShown
<1>8. ASSUME chan[m] = "answered", "PROTO_HOLD" \notin flags[m] PROVE ActiveShown(m) => ActiveShown(m)'
  <2>1. InJob(Of(m, {"ANSWER", "UNHOLD"})) => InJob(Of(m, {"ANSWER", "UNHOLD"}))'
    <3>1. "HANGUP_HELD" \notin flags[m]
      BY <1>2, <1>8 DEF FlagsInv
    <3> QED
      BY <1>1, <1>8, <3>1 DEF InJob, Of
  <2> QED
    BY <1>2, <1>4, <1>5, <1>6, <2>1 DEF ActiveShown
<1> QED
  BY <1>2, <1>7, <1>8 DEF ShownOf

LEMMA ShownSent ==
  ASSUME TypeOK, JobInv, HangupInv, Send, NEW m \in numeric \ quiet, ShownOf(m)
  PROVE  ShownOf(m)'
<1>1. /\ job # NoJob /\ job.event \in Reported /\ job.pc = "post" /\ job' = NoJob
      /\ m \in Legs
      /\ view'[m] = IF m = job.event.leg THEN Shown(job.event.kind, view[m]) ELSE view[m]
  BY SendStep DEF TypeOK
<1>2. UNCHANGED <<chan, flags>>
  BY DEF Send, coreVars
<1>3. Adds({ev \in Events : ev.kind = "EAVESDROP"}) /\ QueueTyped
  BY TypeParts, SendStep DEF Adds, Of
<1>4. PICK ev \in Events : ev = job.event
  BY <1>1 DEF Events
<1>5. \A B : InJob(B) <=> ev \in B
  BY <1>1, <1>4 DEF InJob
<1>6. \A B : ~InJob(B)'
  BY <1>1 DEF InJob
<1>7. HeldShown(m) => HeldShown(m)'
  <2> DEFINE E == {e \in Events : e.kind = "EAVESDROP"}
             B == Of(m, {"CREATE", "ANSWER"})
  <2>1. E \in SUBSET Events /\ E \cap B = {}
    BY DEF Of
  <2>2. /\ LastIs(Of(m, {"HOLD"}), B) => LastIs(Of(m, {"HOLD"}), B)'
        /\ NoneOf(B) => NoneOf(B)'
    BY <1>3, <2>1, AddsLast, AddsNone
  <2>3. ASSUME ~LastIs(Of(m, {"HOLD"}), B), HeldShown(m) PROVE view'[m] \in {"hold", "hangup"}
    <3>1. ev \in Of(m, {"HOLD"}) \/ (view[m] \in {"hold", "hangup"} /\ ev \notin B \cup Of(m, {"UNHOLD"}))
      BY <1>1, <1>5, <2>3 DEF HeldShown
    <3>2. ev.leg = m => ev.kind \notin {"CREATE", "ANSWER", "UNHOLD"}
      BY <3>1 DEF Of
    <3>3. view[m] \in {"hold", "hangup"} \/ (ev.leg = m /\ ev.kind = "HOLD")
      BY <3>1 DEF Of
    <3> QED
      BY <1>1, <1>4, <3>2, <3>3 DEF Shown
  <2> QED
    BY <1>6, <2>2, <2>3 DEF HeldShown
<1>8. ASSUME chan[m] = "answered" PROVE ActiveShown(m) => ActiveShown(m)'
  <2> DEFINE E == {e \in Events : e.kind = "EAVESDROP"}
             B == Of(m, {"CREATE", "HOLD"})
             G == Of(m, {"ANSWER", "UNHOLD"})
  <2>1. E \in SUBSET Events /\ E \cap B = {}
    BY DEF Of
  <2>2. /\ LastIs(G, B) => LastIs(G, B)'
        /\ NoneOf(B) => NoneOf(B)'
    BY <1>3, <2>1, AddsLast, AddsNone
  <2>3. ASSUME ~LastIs(G, B), ActiveShown(m) PROVE view'[m] = "active"
    <3>1. ev \in G \/ (view[m] = "active" /\ ev \notin B)
      BY <1>5, <2>3 DEF ActiveShown
    <3>2. ev \notin Of(m, {"HANGUP"})
      BY <1>1, <1>5, <1>8 DEF HangupInv, Ended
    <3> QED
      BY <1>1, <1>4, <3>1, <3>2 DEF Shown, Of
  <2> QED
    BY <1>6, <2>2, <2>3 DEF ActiveShown
<1> QED
  BY <1>2, <1>7, <1>8 DEF ShownOf

LEMMA ShownInvariant == Spec => []ShownInv
<1>1. Init => ShownInv
  <2> SUFFICES ASSUME Init, NEW l \in numeric \ quiet PROVE ShownOf(l)
    BY DEF ShownInv, ShownOf
  <2>1. flags[l] = {} /\ (chan[l] = "answered" => view[l] = "active")
    BY DEF Init
  <2> QED
    BY <2>1, InitEmpty DEF ShownOf, ActiveShown
<1>2. TypeOK /\ JobInv /\ FlagsInv /\ HangupInv /\ ShownInv /\ [Next]_vars => ShownInv'
  <2> SUFFICES ASSUME TypeOK, JobInv, FlagsInv, HangupInv, ShownInv, [Next]_vars PROVE ShownInv'
    BY PTL
  <2>1. UNCHANGED <<numeric, quiet>>
    <3>1. (\E l \in Legs : Core(l)) \/ (\E r \in Requests : Api(r)) => UNCHANGED <<numeric, quiet>>
      BY TypeParts, CoreAdds, ApiAdds
    <3>2. Dispatch => UNCHANGED <<numeric, quiet>>
      BY DEF Dispatch, Drop, Handle, HandleUnhold, HandleRecordStart, HandleRecordStop, TestUnhold,
         Send, coreVars
    <3> QED
      BY <3>1, <3>2 DEF Next, vars, coreVars
  <2> SUFFICES ASSUME NEW m \in numeric \ quiet PROVE ShownOf(m)'
    BY <2>1 DEF ShownInv, ShownOf
  <2>2. ShownOf(m) /\ m \in Legs
    BY DEF ShownInv, ShownOf, TypeOK
  <2>3. ASSUME queue # <<>>, Taken(Head(queue)) PROVE ShownOf(m)'
    BY <2>2, <2>3, ShownTaken
  <2>4. CASE UNCHANGED vars
    BY <2>2, <2>4 DEF vars, coreVars, viewVars, ShownOf, HeldShown, ActiveShown, LastIs, NoneOf, InJob
  <2> QED
    BY <2>2, <2>3, <2>4, ShownCore, ShownApi, ShownTested, ShownSent, DispatchSplits DEF Next
<1> QED
  BY <1>1, <1>2, TypeInvariant, JobInvariant, FlagsInvariant, HangupInvariant, PTL DEF Spec

\* A subscriber's picture of a call catches up with it: see ViewSettles.
THEOREM ViewIsSettled == Spec => []ViewSettles
<1>1. TypeOK /\ FlagsInv /\ HangupInv /\ ShownInv => ViewSettles
  <2> SUFFICES ASSUME TypeOK, FlagsInv, HangupInv, ShownInv,
                      NEW l \in Legs, l \in numeric, l \notin quiet, ~Pending(l, {"ANSWER", "HOLD", "UNHOLD"})
               PROVE  /\ chan[l] = "answered" =>
                           view[l] = IF "PROTO_HOLD" \in flags[l] THEN "hold" ELSE "active"
                      /\ {"PROTO_HOLD", "HANGUP_HELD"} \subseteq flags[l] => view[l] # "active"
    BY DEF ViewSettles
  <2>1. ASSUME NEW kinds \in SUBSET {"ANSWER", "HOLD", "UNHOLD"}
        PROVE  NoneOf(Of(l, kinds)) /\ ~InJob(Of(l, kinds))
    <3>1. DOMAIN queue = 1..Len(queue)
      BY DEF TypeOK
    <3> QED
      BY <2>1, <3>1 DEF Pending, NoneOf, InJob, Of
  <2>2. \A B : NoneOf(Of(l, {"HOLD"})) => ~LastIs(Of(l, {"HOLD"}), B)
    BY DEF NoneOf, LastIs
  <2>3. \A B : NoneOf(Of(l, {"ANSWER", "UNHOLD"})) => ~LastIs(Of(l, {"ANSWER", "UNHOLD"}), B)
    BY DEF NoneOf, LastIs
  <2>4. "PROTO_HOLD" \in flags[l] => view[l] \in {"hold", "hangup"}
    BY <2>1, <2>2 DEF ShownInv, HeldShown
  <2>5. chan[l] = "answered" /\ "PROTO_HOLD" \notin flags[l] => view[l] = "active"
    BY <2>1, <2>3 DEF ShownInv, ActiveShown
  <2>6. chan[l] = "answered" => view[l] # "hangup"
    BY DEF HangupInv, Ended
  <2> QED
    BY <2>4, <2>5, <2>6
<1> QED
  BY <1>1, TypeInvariant, FlagsInvariant, HangupInvariant, ShownInvariant, PTL

-----------------------------------------------------------------------------
\* A leg's RECORD events, and the whole of its recordings.
Starts(l) == Of(l, {"RECORD_START"})
Stops(l)  == Of(l, {"RECORD_STOP"})
Whole(l) == IF records[l] = 0 THEN NoSpan ELSE [start |-> 1, stop |-> records[l]]

\* A leg is recorded from its answer on; its events are numbered in order.
RecBegins(l) ==
  /\ chan[l] \in {"none", "ringing"} => records[l] = 0
  /\ records[l] = 0 => ~recording[l] /\ rec[l] = NoSpan
RecQueued(l) ==
  /\ \A i \in 1..Len(queue) : queue[i] \in Starts(l) \cup Stops(l) => queue[i].n \in 1..records[l]
  /\ \A i, j \in 1..Len(queue) :
       queue[i] \in Starts(l) /\ queue[j] \in Starts(l) /\ i < j => queue[i].n < queue[j].n
\* The first start, and the last stop, is in the variables or still to come.
RecFirst(l) ==
  rec[l].start =
    IF records[l] = 0 \/ \E i \in 1..Len(queue) : queue[i] \in Starts(l) /\ queue[i].n = 1 THEN 0 ELSE 1
LastStops(l) == {ev \in Stops(l) : ev.n = records[l]}
RecLast(l) ==
  records[l] > 0 /\ ~recording[l] =>
    \/ LastIs(LastStops(l), Stops(l))
    \/ NoneOf(Stops(l)) /\ rec[l].stop = records[l]
\* The event of the hangup, and its report, have them all.
RecReport(l) ==
  /\ Ended(l) => ~recording[l] /\ NoneOf(Starts(l) \cup Stops(l))
  /\ \A i \in 1..Len(queue) : queue[i] \in Of(l, {"HANGUP"}) =>
       queue[i].rec = Whole(l) /\ queue[i].media = media[l]
  /\ InJob(Of(l, {"HANGUP"})) => job.event.rec = Whole(l) /\ job.event.media = media[l]
  /\ view[l] = "hangup" => span[l] = Recorded(l)

RecInv(l) == RecBegins(l) /\ RecQueued(l) /\ RecFirst(l) /\ RecLast(l) /\ RecReport(l)
\* This holds while the dispatcher was not too late with the leg.
RecordInv == \A l \in Legs \ quiet : l \notin behind => RecInv(l)

\* Events of other legs, or of other kinds, change nothing.
RecEvents(l) == Of(l, {"RECORD_START", "RECORD_STOP", "HANGUP"})

LEMMA RecKept ==
  ASSUME QueueTyped, NEW l \in Legs, NEW E \in SUBSET Events, Adds(E), E \cap RecEvents(l) = {},
         RecInv(l),
         UNCHANGED job \/ job' = NoJob \/ (job # NoJob /\ job'.event = job.event),
         records'[l] = records[l], recording'[l] = recording[l], rec'[l] = rec[l],
         media'[l] = media[l],
         chan'[l] \in {"none", "ringing"} => chan[l] \in {"none", "ringing"}, Ended(l)' <=> Ended(l),
         view'[l] = "hangup" => span'[l] = Recorded(l)
  PROVE  RecInv(l)'
<1>1. /\ Len(queue) \in Nat /\ Len(queue') \in Nat /\ Len(queue) <= Len(queue')
      /\ \A i \in 1..Len(queue) : queue'[i] = queue[i]
      /\ \A i \in 1..Len(queue') : i > Len(queue) => queue'[i] \notin RecEvents(l)
  BY AddsFrom
<1>2. /\ Starts(l) \subseteq RecEvents(l) /\ Stops(l) \subseteq RecEvents(l)
      /\ Of(l, {"HANGUP"}) \subseteq RecEvents(l)
      /\ LastStops(l)' = LastStops(l) /\ Whole(l)' = Whole(l) /\ Recorded(l)' = Recorded(l)
  BY DEF Starts, Stops, Of, RecEvents, LastStops, Whole, Recorded
<1>3. \A i \in 1..Len(queue') :
         queue'[i] \in RecEvents(l) => i \in 1..Len(queue) /\ queue'[i] = queue[i]
  BY <1>1
<1>4. RecBegins(l)'
  BY DEF RecInv, RecBegins
<1>5. RecQueued(l)'
  BY <1>1, <1>2, <1>3 DEF RecInv, RecQueued
<1>6. RecFirst(l)'
  <2>1. (\E i \in 1..Len(queue') : queue'[i] \in Starts(l) /\ queue'[i].n = 1)
        <=> (\E i \in 1..Len(queue) : queue[i] \in Starts(l) /\ queue[i].n = 1)
    BY <1>1, <1>2, <1>3
  <2> QED
    BY <2>1 DEF RecInv, RecFirst
<1>7. RecLast(l)'
  <2>1. /\ LastIs(LastStops(l), Stops(l)) => LastIs(LastStops(l), Stops(l))'
        /\ NoneOf(Stops(l)) => NoneOf(Stops(l))'
    <3>1. E \cap Stops(l) = {}
      BY <1>2
    <3>2. PICK G, B : G = LastStops(l) /\ B = Stops(l)
      OBVIOUS
    <3>3. (LastIs(G, B) => LastIs(G, B)') /\ (NoneOf(B) => NoneOf(B)')
      BY <3>1, <3>2, AddsLast, AddsNone
    <3> QED
      BY <1>2, <3>2, <3>3 DEF LastIs, NoneOf
  <2> QED
    BY <2>1 DEF RecInv, RecLast
<1>8. RecReport(l)'
  <2>1. NoneOf(Starts(l) \cup Stops(l)) => NoneOf(Starts(l) \cup Stops(l))'
    BY <1>1, <1>2, <1>3 DEF NoneOf
  <2>2. \A i \in 1..Len(queue') : queue'[i] \in Of(l, {"HANGUP"}) =>
          queue'[i].rec = Whole(l) /\ queue'[i].media = media[l]
    BY <1>1, <1>2, <1>3 DEF RecInv, RecReport
  <2>3. (InJob(Of(l, {"HANGUP"})) => job.event.rec = Whole(l) /\ job.event.media = media[l])'
    BY <1>2 DEF RecInv, RecReport, InJob
  <2> QED
    BY <1>2, <2>1, <2>2, <2>3 DEF RecInv, RecReport
<1> QED
  BY <1>4, <1>5, <1>6, <1>7, <1>8 DEF RecInv

\* Before the hangup is reported there is no report of it.
LEMMA RecOpen ==
  ASSUME HangupInv, NEW l \in Legs, RecInv(l), ~Ended(l)
  PROVE  /\ view[l] # "hangup" /\ ~InJob(Of(l, {"HANGUP"}))
         /\ \A i \in 1..Len(queue) : queue[i] \notin Of(l, {"HANGUP"})
  BY DEF HangupInv, RecInv, RecReport, NoneOf

LEMMA RecStarts ==
  ASSUME TypeOK, HangupInv, NEW l \in Legs, RecInv(l), StartRecord(l)
  PROVE  RecInv(l)'
<1>1. PICK n \in Nat : n = records[l]
  BY DEF TypeOK
<1>2. PICK ev : ev = RecordEvent("RECORD_START", l, n + 1)
  OBVIOUS
<1>3. /\ ev \in Events /\ ev \in Starts(l) /\ ev.n = n + 1 /\ ev.kind = "RECORD_START"
  BY <1>2, TypeParts, EventTypes DEF RecordEvent, Starts, Of
<1>4. /\ records'[l] = n + 1 /\ recording'[l] /\ ~recording[l] /\ chan[l] = "answered"
      /\ UNCHANGED <<chan, rec, job, span, view>> /\ Fire(ev)
  BY <1>1, <1>2 DEF StartRecord, viewVars, TypeOK
<1>5. Grown(ev)
  BY <1>3, <1>4, TypeParts, FireGrows
<1>6. \A i \in 1..Len(queue') :
        \/ i \in 1..Len(queue) /\ queue'[i] = queue[i]
        \/ i = Len(queue) + 1 /\ queue'[i] = ev
  BY <1>5 DEF Grown
<1>7. /\ ~Ended(l) /\ ~Ended(l)'
      /\ view[l] # "hangup" /\ ~InJob(Of(l, {"HANGUP"}))
      /\ \A i \in 1..Len(queue) : queue[i] \notin Of(l, {"HANGUP"})
  BY <1>4, RecOpen DEF Ended
<1>8. RecBegins(l)' /\ RecLast(l)'
  BY <1>1, <1>4 DEF RecBegins, RecLast
<1>9. RecQueued(l)'
  <2>1. /\ \A i \in 1..Len(queue) : queue[i] \in Starts(l) \cup Stops(l) => queue[i].n \in 1..n
        /\ \A i, k \in 1..Len(queue) :
             queue[i] \in Starts(l) /\ queue[k] \in Starts(l) /\ i < k => queue[i].n < queue[k].n
    BY <1>1 DEF RecInv, RecQueued
  <2>2. ASSUME NEW i \in 1..Len(queue'), queue'[i] \in Starts(l) \cup Stops(l)
        PROVE  queue'[i].n \in 1..(n + 1)
    BY <1>3, <1>6, <2>1, <2>2
  <2>3. ASSUME NEW i \in 1..Len(queue'), NEW k \in 1..Len(queue'),
               queue'[i] \in Starts(l), queue'[k] \in Starts(l), i < k
        PROVE  queue'[i].n < queue'[k].n
    <3>1. i \in 1..Len(queue) /\ queue'[i] = queue[i] /\ queue[i].n \in 1..n
      BY <1>5, <1>6, <2>1, <2>3 DEF Grown
    <3> QED
      BY <1>3, <1>6, <2>1, <2>3, <3>1
  <2> QED
    BY <1>4, <2>2, <2>3 DEF RecQueued
<1>10. RecFirst(l)'
  <2>1. CASE n = 0
    <3>1. rec[l].start = 0
      BY <1>1, <2>1 DEF RecInv, RecFirst
    <3>2. Len(queue) + 1 \in 1..Len(queue') /\ queue'[Len(queue) + 1] = ev
      BY <1>5 DEF Grown
    <3>3. \E i \in 1..Len(queue') : queue'[i] \in Starts(l) /\ queue'[i].n = 1
      BY <1>3, <2>1, <3>2
    <3> QED
      BY <1>4, <3>1, <3>3 DEF RecFirst
  <2>2. CASE n # 0
    <3>1. (\E i \in 1..Len(queue') : queue'[i] \in Starts(l) /\ queue'[i].n = 1)
          <=> (\E i \in 1..Len(queue) : queue[i] \in Starts(l) /\ queue[i].n = 1)
      BY <1>3, <1>5, <1>6, <2>2 DEF Grown
    <3> QED
      BY <1>1, <1>4, <2>2, <3>1 DEF RecInv, RecFirst
  <2> QED
    BY <2>1, <2>2
<1>11. RecReport(l)'
  <2>1. \A i \in 1..Len(queue') : queue'[i] \notin Of(l, {"HANGUP"})
    BY <1>3, <1>6, <1>7 DEF Of
  <2>2. ~InJob(Of(l, {"HANGUP"}))'
    BY <1>4, <1>7 DEF InJob
  <2> QED
    BY <1>4, <1>7, <2>1, <2>2 DEF RecReport
<1> QED
  BY <1>8, <1>9, <1>10, <1>11 DEF RecInv

LEMMA RecStops ==
  ASSUME TypeOK, HangupInv, NEW l \in Legs, RecInv(l), StopRecord(l)
  PROVE  RecInv(l)'
<1>1. PICK n \in Nat : n = records[l]
  BY DEF TypeOK
<1>2. PICK ev : ev = RecordEvent("RECORD_STOP", l, n)
  OBVIOUS
<1>3. /\ ev \in Events /\ ev \in Stops(l) /\ ev.n = n /\ ev.kind = "RECORD_STOP" /\ ev \notin Starts(l)
  BY <1>2, TypeParts, EventTypes DEF RecordEvent, Starts, Stops, Of
<1>4. /\ ~recording'[l] /\ recording[l]
      /\ UNCHANGED <<chan, rec, records, job, span, view>> /\ Fire(ev)
  BY <1>1, <1>2 DEF StopRecord, viewVars, TypeOK
<1>5. Grown(ev)
  BY <1>3, <1>4, TypeParts, FireGrows
<1>6. \A i \in 1..Len(queue') :
        \/ i \in 1..Len(queue) /\ queue'[i] = queue[i]
        \/ i = Len(queue) + 1 /\ queue'[i] = ev
  BY <1>5 DEF Grown
<1>7. ~Ended(l) /\ n # 0
  BY <1>1, <1>4 DEF RecInv, RecReport, RecBegins
<1>8. /\ ~Ended(l)'
      /\ view[l] # "hangup" /\ ~InJob(Of(l, {"HANGUP"}))
      /\ \A i \in 1..Len(queue) : queue[i] \notin Of(l, {"HANGUP"})
  BY <1>4, <1>7, RecOpen DEF Ended
<1>9. RecBegins(l)'
  BY <1>1, <1>4, <1>7 DEF RecInv, RecBegins
<1>10. RecQueued(l)'
  <2>1. /\ \A i \in 1..Len(queue) : queue[i] \in Starts(l) \cup Stops(l) => queue[i].n \in 1..n
        /\ \A i, k \in 1..Len(queue) :
             queue[i] \in Starts(l) /\ queue[k] \in Starts(l) /\ i < k => queue[i].n < queue[k].n
    BY <1>1 DEF RecInv, RecQueued
  <2>2. ASSUME NEW i \in 1..Len(queue'), queue'[i] \in Starts(l) \cup Stops(l)
        PROVE  queue'[i].n \in 1..n
    BY <1>3, <1>6, <1>7, <2>1, <2>2
  <2>3. ASSUME NEW i \in 1..Len(queue'), NEW k \in 1..Len(queue'),
               queue'[i] \in Starts(l), queue'[k] \in Starts(l), i < k
        PROVE  queue'[i].n < queue'[k].n
    BY <1>3, <1>6, <2>1, <2>3
  <2> QED
    BY <1>1, <1>4, <2>2, <2>3 DEF RecQueued
<1>11. RecFirst(l)'
  <2>1. (\E i \in 1..Len(queue') : queue'[i] \in Starts(l) /\ queue'[i].n = 1)
        <=> (\E i \in 1..Len(queue) : queue[i] \in Starts(l) /\ queue[i].n = 1)
    BY <1>3, <1>5, <1>6 DEF Grown
  <2> QED
    BY <1>4, <2>1 DEF RecInv, RecFirst
<1>12. RecLast(l)'
  <2>1. ev \in LastStops(l) /\ LastStops(l)' = LastStops(l)
    BY <1>1, <1>3, <1>4 DEF LastStops
  <2>2. PICK G : G = LastStops(l)
    OBVIOUS
  <2>3. LastIs(G, Stops(l))'
    BY <1>5, <2>1, <2>2, LastGrown
  <2> QED
    BY <2>1, <2>2, <2>3 DEF RecLast, LastIs
<1>13. RecReport(l)'
  <2>1. \A i \in 1..Len(queue') : queue'[i] \notin Of(l, {"HANGUP"})
    BY <1>3, <1>6, <1>8 DEF Of
  <2>2. ~InJob(Of(l, {"HANGUP"}))'
    BY <1>4, <1>8 DEF InJob
  <2> QED
    BY <1>4, <1>8, <2>1, <2>2 DEF RecReport
<1> QED
  BY <1>9, <1>10, <1>11, <1>12, <1>13 DEF RecInv

LEMMA RecHangs ==
  ASSUME TypeOK, HangupInv, NEW l \in Legs, RecInv(l), ReportHangup(l), l \notin behind'
  PROVE  RecInv(l)'
<1>1. PICK n \in Nat : n = records[l]
  BY DEF TypeOK
<1>2. PICK ev : ev = HangupEvent(l)
  OBVIOUS
<1>3. /\ ev \in Events /\ ev.leg = l /\ ev.kind = "HANGUP" /\ ev.rec = rec[l] /\ ev.media = media[l]
      /\ ev \notin Starts(l) \cup Stops(l)
  BY <1>2, TypeParts, EventTypes DEF HangupEvent, Starts, Stops, Of
<1>4. /\ ~recording[l] /\ chan[l] = "hungup"
      /\ UNCHANGED <<rec, media, records, recording, job, span, view>> /\ Fire(ev)
  BY <1>2 DEF ReportHangup, viewVars
<1>5. chan'[l] = "reported" /\ Ended(l)' /\ ~Ended(l)
  BY DEF ReportHangup, TypeOK, Ended
<1>6. Grown(ev)
  BY <1>3, <1>4, TypeParts, FireGrows
<1>7. \A i \in 1..Len(queue') :
        \/ i \in 1..Len(queue) /\ queue'[i] = queue[i]
        \/ i = Len(queue) + 1 /\ queue'[i] = ev
  BY <1>6 DEF Grown
<1>8. /\ view[l] # "hangup" /\ ~InJob(Of(l, {"HANGUP"}))
      /\ \A i \in 1..Len(queue) : queue[i] \notin Of(l, {"HANGUP"})
  BY <1>5, RecOpen
<1>9. NoneOf(Starts(l) \cup Stops(l))
  <2>1. DOMAIN queue = 1..Len(queue)
    BY DEF TypeOK
  <2> QED
    BY <2>1 DEF ReportHangup, NoneOf, Starts, Stops, Of
<1>10. rec[l] = Whole(l)
  <2>1. n # 0 => rec[l].start = 1
    BY <1>1, <1>9 DEF RecInv, RecFirst, NoneOf
  <2>2. n # 0 => rec[l].stop = n
    <3>1. ~LastIs(LastStops(l), Stops(l))
      BY <1>9 DEF LastIs, NoneOf, LastStops
    <3> QED
      BY <1>1, <1>4, <3>1 DEF RecInv, RecLast
  <2>3. n = 0 => rec[l] = NoSpan
    BY <1>1 DEF RecInv, RecBegins
  <2>4. rec[l] \in Spans
    BY DEF TypeOK
  <2> QED
    BY <1>1, <2>1, <2>2, <2>3, <2>4 DEF Whole, Spans
<1>11. NoneOf(Starts(l) \cup Stops(l))'
  BY <1>3, <1>7, <1>9 DEF NoneOf
<1>12. RecBegins(l)' /\ RecQueued(l)'
  BY <1>4, <1>5, <1>11 DEF RecInv, RecBegins, RecQueued, NoneOf
<1>13. RecFirst(l)'
  BY <1>4, <1>9, <1>11 DEF RecInv, RecFirst, NoneOf
<1>14. RecLast(l)'
  <2>1. n # 0 => rec[l].stop = n
    BY <1>1, <1>10 DEF Whole
  <2>2. NoneOf(Stops(l))'
    BY <1>11 DEF NoneOf
  <2> QED
    BY <1>1, <1>4, <2>1, <2>2 DEF RecLast
<1>15. RecReport(l)'
  <2>1. Whole(l)' = Whole(l)
    BY <1>4 DEF Whole
  <2>2. \A i \in 1..Len(queue') : queue'[i] \in Of(l, {"HANGUP"}) =>
          queue'[i].rec = Whole(l) /\ queue'[i].media = media[l]
    BY <1>3, <1>7, <1>8, <1>10
  <2>3. ~InJob(Of(l, {"HANGUP"}))'
    BY <1>4, <1>8 DEF InJob
  <2> QED
    BY <1>4, <1>5, <1>8, <1>11, <2>1, <2>2, <2>3 DEF RecReport
<1> QED
  BY <1>12, <1>13, <1>14, <1>15 DEF RecInv

\* A bridge is made before the hangup.
LEMMA RecBridges ==
  ASSUME TypeOK, HangupInv, NEW l \in Legs, RecInv(l), Bridge(l)
  PROVE  RecInv(l)'
<1>1. /\ UNCHANGED <<chan, records, recording, rec, queue, job, span, view>>
      /\ chan[l] = "answered"
  BY DEF Bridge, viewVars
<1>2. ~Ended(l) /\ ~Ended(l)'
  BY <1>1 DEF Ended
<1>3. /\ view[l] # "hangup" /\ ~InJob(Of(l, {"HANGUP"}))
      /\ \A i \in 1..Len(queue) : queue[i] \notin Of(l, {"HANGUP"})
  BY <1>2, RecOpen
<1>4. RecBegins(l)' /\ RecQueued(l)' /\ RecFirst(l)'
  BY <1>1 DEF RecInv, RecBegins, RecQueued, RecFirst
<1>5. RecLast(l)'
  BY <1>1 DEF RecInv, RecLast, LastIs, NoneOf, LastStops
<1>6. RecReport(l)'
  BY <1>1, <1>2, <1>3 DEF RecReport, InJob
<1> QED
  BY <1>4, <1>5, <1>6 DEF RecInv

LEMMA RecCore ==
  ASSUME TypeOK, HangupInv, NEW l \in Legs, Core(l), NEW m \in Legs, RecInv(m), m \notin behind'
  PROVE  RecInv(m)'
<1>1. /\ UNCHANGED <<job, view, rec, span>> /\ Adds(CoreEvents(l)) /\ QueueTyped
      /\ ReportHangup(l) \/ Adds(Of(l, CoreKinds))
  BY TypeParts, CoreAdds DEF viewVars
<1>2. view[m] = "hangup" => span[m] = Recorded(m)
  BY DEF RecInv, RecReport
<1>3. CASE m # l
  <2>1. /\ chan'[m] = chan[m] /\ records'[m] = records[m] /\ recording'[m] = recording[m]
        /\ media'[m] = media[m] /\ (Ended(m)' <=> Ended(m))
    BY <1>3, CoreOthers DEF Ended
  <2>2. CoreEvents(l) \in SUBSET Events /\ CoreEvents(l) \cap RecEvents(m) = {}
    BY <1>3 DEF CoreEvents, RecEvents, Of
  <2> QED
    BY <1>1, <1>2, <2>1, <2>2, RecKept
<1>4. CASE m = l /\ (StartRecord(l) \/ StopRecord(l) \/ Bridge(l) \/ ReportHangup(l))
  BY <1>4, RecStarts, RecStops, RecBridges, RecHangs
<1>5. CASE m = l /\ ~(StartRecord(l) \/ StopRecord(l) \/ Bridge(l) \/ ReportHangup(l))
  <2> DEFINE Goal == /\ records'[l] = records[l] /\ recording'[l] = recording[l]
                     /\ media'[l] = media[l]
                     /\ chan'[l] \in {"none", "ringing"} => chan[l] \in {"none", "ringing"}
                     /\ Ended(l)' <=> Ended(l)
                     /\ Adds(Of(l, {"CREATE", "ANSWER", "HOLD", "UNHOLD"}))
  <2>1. \A kind \in {"CREATE", "ANSWER", "HOLD", "UNHOLD"} :
          Event(kind, l) \in Of(l, {"CREATE", "ANSWER", "HOLD", "UNHOLD"})
    BY TypeParts, EventTypes DEF Event, Of
  <2>2. ASSUME Create(l) \/ Answer(l) PROVE Goal
    BY <2>1, <2>2 DEF Create, Answer, Fire, Adds, TypeOK, Ended
  <2>3. ASSUME BeginHangup(l) PROVE Goal
    BY <2>1, <2>3 DEF BeginHangup, Fire, Adds, TypeOK, Ended
  <2>4. ASSUME MarkHeld(l) \/ Destroy(l) PROVE Goal
    BY <2>4 DEF MarkHeld, Destroy, Adds, TypeOK, Ended
  <2>5. ASSUME NEW on \in BOOLEAN, PhoneHold(l, on) PROVE Goal
    <3>1. Adds(Of(l, {"CREATE", "ANSWER", "HOLD", "UNHOLD"}))
      BY <2>1, <2>5, TypeParts, ToggleAdds DEF PhoneHold, Fire, Adds
    <3> QED
      BY <2>5, <3>1 DEF PhoneHold, Ended
  <2>6. Goal
    BY <1>5, <2>2, <2>3, <2>4, <2>5 DEF Core
  <2>7. /\ Of(l, {"CREATE", "ANSWER", "HOLD", "UNHOLD"}) \in SUBSET Events
        /\ Of(l, {"CREATE", "ANSWER", "HOLD", "UNHOLD"}) \cap RecEvents(l) = {}
    BY DEF Of, RecEvents
  <2> QED
    BY <1>1, <1>2, <1>5, <2>6, <2>7, RecKept
<1> QED
  BY <1>3, <1>4, <1>5

LEMMA RecApi ==
  ASSUME TypeOK, NEW r \in Requests, Api(r), NEW m \in Legs, RecInv(m)
  PROVE  RecInv(m)'
<1>1. /\ UNCHANGED <<job, view, rec, span, chan, media, records, recording>> /\ QueueTyped
      /\ Adds(ApiEvents) /\ ApiEvents \in SUBSET Events /\ ApiEvents \cap RecEvents(m) = {}
  BY TypeParts, ApiAdds DEF viewVars, ApiEvents, RecEvents, Of
<1>2. /\ view[m] = "hangup" => span[m] = Recorded(m)
      /\ Ended(m)' <=> Ended(m)
  BY <1>1 DEF RecInv, RecReport, Ended
<1> QED
  BY <1>1, <1>2, RecKept

\* What is left of the queue is numbered as it was.
LEMMA QueuedShrunk ==
  ASSUME NEW ev, Shrunk(ev), NEW m \in Legs, records' = records, RecQueued(m)
  PROVE  RecQueued(m)'
<1>1. \A i \in 1..Len(queue') : i + 1 \in 1..Len(queue) /\ queue'[i] = queue[i + 1]
  BY DEF Shrunk
<1>2. Starts(m)' = Starts(m) /\ Stops(m)' = Stops(m)
  BY DEF Starts, Stops
<1>3. \A i \in 1..Len(queue') :
        queue'[i] \in Starts(m) \cup Stops(m) => queue'[i].n \in 1..records[m]
  BY <1>1 DEF RecQueued
<1>4. ASSUME NEW i \in 1..Len(queue'), NEW j \in 1..Len(queue'),
             queue'[i] \in Starts(m), queue'[j] \in Starts(m), i < j
      PROVE  queue'[i].n < queue'[j].n
  <2>1. /\ i + 1 \in 1..Len(queue) /\ queue[i + 1] \in Starts(m) /\ queue'[i] = queue[i + 1]
        /\ j + 1 \in 1..Len(queue) /\ queue[j + 1] \in Starts(m) /\ queue'[j] = queue[j + 1]
        /\ i + 1 < j + 1
    BY <1>1, <1>4
  <2> QED
    BY <2>1 DEF RecQueued
<1> QED
  BY <1>2, <1>3, <1>4 DEF RecQueued

\* The first event leaves the queue and the variables stay: it is no RECORD event of the leg.
LEMMA RecPassed ==
  ASSUME TypeOK, queue # <<>>, NEW ev, ev = Head(queue), Taken(ev),
         NEW m \in Legs, RecInv(m), ev \notin Starts(m) \cup Stops(m), rec'[m] = rec[m]
  PROVE  RecInv(m)'
<1>1. /\ Shrunk(ev) /\ job = NoJob /\ (job' # NoJob => job'.event = ev)
      /\ UNCHANGED <<chan, media, records, recording, span, view>>
  BY TakeStep DEF coreVars, viewVars
<1>2. /\ LastStops(m)' = LastStops(m) /\ Whole(m)' = Whole(m) /\ Ended(m)' = Ended(m)
      /\ Recorded(m)' = Recorded(m)
  BY <1>1 DEF LastStops, Whole, Ended, Recorded
<1>3. RecBegins(m)' /\ RecQueued(m)'
  <2>1. RecBegins(m)'
    BY <1>1 DEF RecInv, RecBegins
  <2> QED
    BY <1>1, <2>1, QueuedShrunk DEF RecInv
<1>4. RecFirst(m)'
  <2>1. (\E i \in 1..Len(queue') : queue'[i] \in Starts(m) /\ queue'[i].n = 1)
        <=> (\E i \in 1..Len(queue) : queue[i] \in Starts(m) /\ queue[i].n = 1)
    <3>1. ASSUME NEW i \in 1..Len(queue), queue[i] \in Starts(m)
          PROVE  i - 1 \in 1..Len(queue') /\ queue'[i - 1] = queue[i]
      BY <1>1, <3>1 DEF Shrunk
    <3> QED
      BY <1>1, <3>1 DEF Shrunk
  <2> QED
    BY <1>1, <2>1 DEF RecInv, RecFirst
<1>5. RecLast(m)'
  <2>1. PICK G : G = LastStops(m)
    OBVIOUS
  <2>2. ev \notin G
    BY <2>1 DEF LastStops
  <2>3. /\ LastIs(G, Stops(m)) => LastIs(G, Stops(m))'
        /\ NoneOf(Stops(m)) => NoneOf(Stops(m))'
    BY <1>1, <2>2, LastShrunk, NoneShrunk
  <2> QED
    BY <1>1, <1>2, <2>1, <2>3 DEF RecInv, RecLast, LastIs
<1>6. RecReport(m)'
  <2>1. NoneOf(Starts(m) \cup Stops(m)) => NoneOf(Starts(m) \cup Stops(m))'
    BY <1>1, NoneShrunk
  <2>2. \A i \in 1..Len(queue) : queue[i] \in Of(m, {"HANGUP"}) =>
          queue[i].rec = Whole(m) /\ queue[i].media = media[m]
    BY DEF RecInv, RecReport
  <2>3. \A i \in 1..Len(queue') : queue'[i] \in Of(m, {"HANGUP"}) =>
          queue'[i].rec = Whole(m) /\ queue'[i].media = media[m]
    BY <1>1, <2>2 DEF Shrunk
  <2>4. InJob(Of(m, {"HANGUP"}))' => job'.event.rec = Whole(m) /\ job'.event.media = media[m]
    BY <1>1, <2>2 DEF Shrunk, InJob
  <2> QED
    BY <1>1, <1>2, <2>1, <2>3, <2>4 DEF RecInv, RecReport
<1> QED
  BY <1>3, <1>4, <1>5, <1>6 DEF RecInv

LEMMA RecStartTaken ==
  ASSUME TypeOK, queue # <<>>, NEW ev, ev = Head(queue), Taken(ev),
         NEW m \in Legs \ quiet, RecInv(m), ev \in Starts(m), m \notin behind'
  PROVE  RecInv(m)'
<1>1. /\ Shrunk(ev) /\ job = NoJob /\ job' = NoJob
      /\ UNCHANGED <<chan, media, records, recording, span, view>>
  BY TakeStep DEF coreVars, viewVars, PostKinds, Starts, Of
<1>2. /\ ev.leg = m /\ ev.kind = "RECORD_START" /\ ev \notin Stops(m) /\ ev.n \in Nat
  BY DEF Starts, Stops, Of, Events, Reported, Changes
<1>3. rec' = IF rec[m].start = 0 THEN [rec EXCEPT ![m].start = ev.n] ELSE rec
  BY <1>2 DEF Taken, Drop, Skipped, Handle, HandleUnhold, HandleRecordStart, HandleRecordStop
<1>4. rec[m] \in Spans /\ records[m] \in Nat
  BY DEF TypeOK
<1>5. /\ rec'[m].start = IF rec[m].start = 0 THEN ev.n ELSE rec[m].start
      /\ rec'[m].stop = rec[m].stop
  BY <1>2, <1>3, <1>4 DEF TypeOK, Spans
<1>6. /\ LastStops(m)' = LastStops(m) /\ Whole(m)' = Whole(m) /\ Ended(m)' = Ended(m)
      /\ Recorded(m)' = Recorded(m)
  BY <1>1 DEF LastStops, Whole, Ended, Recorded
<1>7. /\ 1 \in 1..Len(queue) /\ queue[1] = ev /\ ev.n \in 1..records[m]
      /\ \A i \in 1..Len(queue') : queue'[i] \in Starts(m) => ev.n < queue'[i].n
  BY <1>1 DEF Shrunk, RecInv, RecQueued
<1>8. RecBegins(m)' /\ RecQueued(m)'
  <2>1. records[m] # 0
    BY <1>4, <1>7
  <2>2. RecBegins(m)'
    BY <1>1, <2>1 DEF RecInv, RecBegins
  <2>3. RecQueued(m)'
    BY <1>1, QueuedShrunk DEF RecInv
  <2> QED
    BY <2>2, <2>3
<1>9. RecFirst(m)'
  <2>1. ~\E i \in 1..Len(queue') : queue'[i] \in Starts(m) /\ queue'[i].n = 1
    BY <1>2, <1>4, <1>7, <1>8, <1>1 DEF RecQueued
  <2>2. rec[m].start = 0 => ev.n = 1
    <3>1. ASSUME rec[m].start = 0
          PROVE  \E i \in 1..Len(queue) : queue[i] \in Starts(m) /\ queue[i].n = 1
      BY <1>4, <1>7, <3>1 DEF RecInv, RecFirst
    <3>2. \A i \in 1..Len(queue) : queue[i] \in Starts(m) /\ i # 1 => ev.n < queue[i].n
      BY <1>7 DEF RecInv, RecQueued
    <3> QED
      BY <1>2, <1>4, <1>7, <3>1, <3>2
  <2>3. rec[m].start \in {0, 1}
    BY DEF RecInv, RecFirst
  <2>4. rec'[m].start = 1 /\ records'[m] # 0
    BY <1>1, <1>4, <1>5, <1>7, <2>2, <2>3
  <2> QED
    BY <2>1, <2>4 DEF RecFirst
<1>10. RecLast(m)'
  <2>1. PICK G : G = LastStops(m)
    OBVIOUS
  <2>2. ev \notin G
    BY <1>2, <2>1 DEF LastStops
  <2>3. /\ LastIs(G, Stops(m)) => LastIs(G, Stops(m))'
        /\ NoneOf(Stops(m)) => NoneOf(Stops(m))'
    BY <1>1, <2>2, LastShrunk, NoneShrunk
  <2> QED
    BY <1>1, <1>5, <1>6, <2>1, <2>3 DEF RecInv, RecLast, LastIs
<1>11. RecReport(m)'
  <2>1. NoneOf(Starts(m) \cup Stops(m)) => NoneOf(Starts(m) \cup Stops(m))'
    BY <1>1, NoneShrunk
  <2>2. \A i \in 1..Len(queue') : queue'[i] \in Of(m, {"HANGUP"}) =>
          queue'[i].rec = Whole(m) /\ queue'[i].media = media[m]
    BY <1>1 DEF RecInv, RecReport, Shrunk
  <2> QED
    BY <1>1, <1>6, <2>1, <2>2 DEF RecInv, RecReport, InJob
<1> QED
  BY <1>8, <1>9, <1>10, <1>11 DEF RecInv

LEMMA RecStopTaken ==
  ASSUME TypeOK, queue # <<>>, NEW ev, ev = Head(queue), Taken(ev),
         NEW m \in Legs \ quiet, RecInv(m), ev \in Stops(m)
  PROVE  RecInv(m)'
<1>1. /\ Shrunk(ev) /\ job = NoJob /\ job' = NoJob
      /\ UNCHANGED <<chan, media, records, recording, span, view>>
  BY TakeStep DEF coreVars, viewVars, PostKinds, Stops, Of
<1>2. /\ ev.leg = m /\ ev.kind = "RECORD_STOP" /\ ev \notin Starts(m) /\ ev.n \in Nat
  BY DEF Starts, Stops, Of, Events, Reported, Changes
<1>3. rec[m] \in Spans /\ records[m] \in Nat
  BY DEF TypeOK
<1>4. /\ LastStops(m)' = LastStops(m) /\ Whole(m)' = Whole(m) /\ Ended(m)' = Ended(m)
      /\ Recorded(m)' = Recorded(m)
  BY <1>1 DEF LastStops, Whole, Ended, Recorded
<1>5. 1 \in 1..Len(queue) /\ queue[1] = ev /\ ev.n \in 1..records[m]
  BY <1>1 DEF Shrunk, RecInv, RecQueued
<1>6. ForceLocated(m)
  <2>1. ~Ended(m)
    BY <1>5 DEF RecInv, RecReport, NoneOf
  <2>2. chan[m] # "none"
    BY <1>3, <1>5 DEF RecInv, RecBegins
  <2> QED
    BY <2>1, <2>2 DEF ForceLocated, Located, Ended, TypeOK
<1>7. rec' = [rec EXCEPT ![m].stop = ev.n]
  BY <1>2, <1>6 DEF Taken, Drop, Skipped, Handle, HandleUnhold, HandleRecordStart, HandleRecordStop
<1>8. rec'[m].start = rec[m].start /\ rec'[m].stop = ev.n
  BY <1>2, <1>3, <1>7 DEF TypeOK, Spans
<1>9. RecBegins(m)' /\ RecQueued(m)'
  <2>1. records[m] # 0
    BY <1>3, <1>5
  <2>2. RecBegins(m)'
    BY <1>1, <2>1 DEF RecInv, RecBegins
  <2>3. RecQueued(m)'
    BY <1>1, QueuedShrunk DEF RecInv
  <2> QED
    BY <2>2, <2>3
<1>10. RecFirst(m)'
  <2>1. (\E i \in 1..Len(queue') : queue'[i] \in Starts(m) /\ queue'[i].n = 1)
        <=> (\E i \in 1..Len(queue) : queue[i] \in Starts(m) /\ queue[i].n = 1)
    <3>1. ASSUME NEW i \in 1..Len(queue), queue[i] \in Starts(m)
          PROVE  i - 1 \in 1..Len(queue') /\ queue'[i - 1] = queue[i]
      BY <1>1, <1>2, <3>1 DEF Shrunk
    <3>2. ASSUME NEW i \in 1..Len(queue'), queue'[i] \in Starts(m)
          PROVE  i + 1 \in 1..Len(queue) /\ queue[i + 1] = queue'[i]
      BY <1>1 DEF Shrunk
    <3>3. ASSUME NEW i \in 1..Len(queue), queue[i] \in Starts(m), queue[i].n = 1
          PROVE  \E k \in 1..Len(queue') : queue'[k] \in Starts(m) /\ queue'[k].n = 1
      <4>1. i - 1 \in 1..Len(queue') /\ queue'[i - 1] = queue[i]
        BY <3>1, <3>3
      <4> QED
        BY <3>3, <4>1
    <3>4. ASSUME NEW i \in 1..Len(queue'), queue'[i] \in Starts(m), queue'[i].n = 1
          PROVE  \E k \in 1..Len(queue) : queue[k] \in Starts(m) /\ queue[k].n = 1
      <4>1. i + 1 \in 1..Len(queue) /\ queue[i + 1] = queue'[i]
        BY <3>2, <3>4
      <4> QED
        BY <3>4, <4>1
    <3> QED
      BY <3>3, <3>4
  <2> QED
    BY <1>1, <1>8, <2>1 DEF RecInv, RecFirst
<1>11. RecLast(m)'
  <2>1. PICK G : G = LastStops(m)
    OBVIOUS
  <2>2. LastIs(G, Stops(m)) => LastIs(G, Stops(m))' \/ (ev \in G /\ NoneOf(Stops(m))')
    BY <1>1, LastShrunk
  <2>3. ~NoneOf(Stops(m))
    BY <1>5 DEF NoneOf
  <2>4. ev \in G => ev.n = records[m]
    BY <2>1 DEF LastStops
  <2> QED
    BY <1>1, <1>4, <1>8, <2>1, <2>2, <2>3, <2>4 DEF RecInv, RecLast, LastIs
<1>12. RecReport(m)'
  <2>1. NoneOf(Starts(m) \cup Stops(m)) => NoneOf(Starts(m) \cup Stops(m))'
    BY <1>1, NoneShrunk
  <2>2. \A i \in 1..Len(queue') : queue'[i] \in Of(m, {"HANGUP"}) =>
          queue'[i].rec = Whole(m) /\ queue'[i].media = media[m]
    BY <1>1 DEF RecInv, RecReport, Shrunk
  <2> QED
    BY <1>1, <1>4, <2>1, <2>2 DEF RecInv, RecReport, InJob
<1> QED
  BY <1>9, <1>10, <1>11, <1>12 DEF RecInv

\* What a report makes of the whole of a leg's recordings.
LEMMA RecordNamed ==
  ASSUME NEW l \in Legs, records[l] \in Nat, NEW ev, ev.rec = Whole(l), ev.media = media[l]
  PROVE  RecordOf(ev) = Recorded(l)
<1>1. CASE records[l] = 0
  BY <1>1 DEF RecordOf, Recorded, Whole, NoSpan
<1>2. CASE records[l] # 0
  <2>1. ev.rec = [start |-> 1, stop |-> records[l]] /\ ev.rec.start = 1
    BY <1>2 DEF Whole
  <2>2. CASE media[l].waits
    <3>1. RecordOf(ev) = [ev.rec EXCEPT !.start = IF media[l].bridged THEN BridgeEpoch ELSE Unmarked]
      BY <2>1, <2>2 DEF RecordOf
    <3>2. Recorded(l) = [start |-> IF media[l].bridged THEN BridgeEpoch ELSE Unmarked, stop |-> records[l]]
      BY <1>2, <2>2 DEF Recorded
    <3> QED
      BY <2>1, <3>1, <3>2
  <2>3. CASE ~media[l].waits
    <3>1. RecordOf(ev) = ev.rec
      BY <2>1, <2>3 DEF RecordOf
    <3>2. Recorded(l) = [start |-> 1, stop |-> records[l]]
      BY <1>2, <2>3 DEF Recorded
    <3> QED
      BY <2>1, <3>1, <3>2
  <2> QED
    BY <2>2, <2>3
<1> QED
  BY <1>1, <1>2

LEMMA RecSent ==
  ASSUME TypeOK, JobInv, HangupInv, Send, NEW m \in Legs, RecInv(m)
  PROVE  RecInv(m)'
<1>1. /\ job # NoJob /\ job.event \in Reported /\ job' = NoJob
      /\ view'[m] = IF m = job.event.leg THEN Shown(job.event.kind, view[m]) ELSE view[m]
      /\ span'[m] = IF m = job.event.leg /\ job.event.kind = "HANGUP"
                    THEN RecordOf(job.event) ELSE span[m]
  BY SendStep
<1>2. UNCHANGED <<chan, media, records, recording, rec>> /\ (Ended(m)' <=> Ended(m))
  BY DEF Send, coreVars, Ended
<1>3. /\ Adds({e \in Events : e.kind = "EAVESDROP"}) /\ QueueTyped
      /\ {e \in Events : e.kind = "EAVESDROP"} \in SUBSET Events
      /\ {e \in Events : e.kind = "EAVESDROP"} \cap RecEvents(m) = {}
  BY TypeParts, SendStep DEF Adds, Of, RecEvents
<1>4. PICK ev \in Events : ev = job.event
  BY <1>1 DEF Events
<1>5. records[m] \in Nat
  BY DEF TypeOK
<1>6. view'[m] = "hangup" => span'[m] = Recorded(m)
  <2>1. CASE ev \in Of(m, {"HANGUP"})
    <3>1. ev.leg = m /\ ev.kind = "HANGUP" /\ InJob(Of(m, {"HANGUP"}))
      BY <1>1, <1>4, <2>1 DEF Of, InJob
    <3>2. ev.rec = Whole(m) /\ ev.media = media[m]
      BY <1>4, <3>1 DEF RecInv, RecReport
    <3>3. span'[m] = RecordOf(ev)
      BY <1>1, <1>4, <3>1
    <3> QED
      BY <1>5, <3>2, <3>3, RecordNamed
  <2>2. CASE ev \notin Of(m, {"HANGUP"})
    <3>1. ~(m = ev.leg /\ ev.kind = "HANGUP")
      BY <2>2 DEF Of
    <3>2. span'[m] = span[m] /\ (view'[m] = "hangup" => view[m] = "hangup")
      BY <1>1, <1>4, <3>1 DEF Shown
    <3> QED
      BY <3>2 DEF RecInv, RecReport
  <2> QED
    BY <2>1, <2>2
<1> QED
  BY <1>1, <1>2, <1>3, <1>6, RecKept

LEMMA RecTested ==
  ASSUME TypeOK, JobInv, TestUnhold, NEW m \in Legs, RecInv(m)
  PROVE  RecInv(m)'
<1>1. job' = NoJob \/ (job # NoJob /\ job'.event = job.event)
  BY TestStep
<1>2. /\ UNCHANGED <<chan, media, records, recording, rec, view, span,
                     queue>> /\ (Ended(m)' <=> Ended(m))
      /\ QueueTyped
  BY TypeParts DEF TestUnhold, coreVars, viewVars, Ended
<1>3. Adds({}) /\ {} \in SUBSET Events
  BY <1>2 DEF Adds
<1>4. view'[m] = "hangup" => span'[m] = Recorded(m)
  BY <1>2 DEF RecInv, RecReport
<1> QED
  BY <1>1, <1>2, <1>3, <1>4, RecKept

LEMMA RecordInvariant == Spec => []RecordInv
<1>1. Init => RecordInv
  <2> SUFFICES ASSUME Init, NEW m \in Legs PROVE RecInv(m)
    BY DEF RecordInv
  <2>1. /\ records[m] = 0 /\ ~recording[m] /\ rec[m] = NoSpan
        /\ view[m] # "hangup" /\ ~Ended(m)
    BY DEF Init, Ended
  <2>2. Len(queue) = 0
    BY DEF Init
  <2>3. RecBegins(m) /\ RecLast(m)
    BY <2>1 DEF RecBegins, RecLast
  <2>4. RecQueued(m) /\ RecFirst(m)
    BY <2>1, <2>2 DEF RecQueued, RecFirst, NoSpan
  <2>5. RecReport(m)
    BY <2>1, <2>2, InitEmpty DEF RecReport
  <2> QED
    BY <2>3, <2>4, <2>5 DEF RecInv
<1>2. TypeOK /\ JobInv /\ HangupInv /\ RecordInv /\ [Next]_vars => RecordInv'
  <2> SUFFICES ASSUME TypeOK, JobInv, HangupInv, RecordInv, [Next]_vars PROVE RecordInv'
    BY PTL
  <2>1. UNCHANGED quiet
    <3>1. (\E l \in Legs : Core(l)) \/ (\E r \in Requests : Api(r)) => UNCHANGED quiet
      BY TypeParts, CoreAdds, ApiAdds
    <3>2. Dispatch => UNCHANGED quiet
      BY DEF Dispatch, Drop, Handle, HandleUnhold, HandleRecordStart, HandleRecordStop, TestUnhold,
         Send, coreVars
    <3> QED
      BY <3>1, <3>2 DEF Next, vars, coreVars
  <2>2. behind \subseteq behind'
    <3>1. ASSUME NEW l \in Legs, Core(l) PROVE behind \subseteq behind'
      BY <3>1 DEF Core, Create, Answer, StartRecord, StopRecord, Bridge, PhoneHold, BeginHangup,
         MarkHeld,
         ReportHangup, Destroy
    <3>2. (\E r \in Requests : Api(r)) => behind \subseteq behind'
      BY TypeParts, ApiAdds
    <3>3. Dispatch => behind \subseteq behind'
      BY DEF Dispatch, Drop, Handle, HandleUnhold, HandleRecordStart, HandleRecordStop, TestUnhold, Send
    <3> QED
      BY <3>1, <3>2, <3>3 DEF Next, vars
  <2> SUFFICES ASSUME NEW m \in Legs \ quiet, m \notin behind' PROVE RecInv(m)'
    BY <2>1 DEF RecordInv
  <2>3. RecInv(m)
    BY <2>2 DEF RecordInv
  <2>4. ASSUME queue # <<>>, NEW ev, ev = Head(queue), Taken(ev) PROVE RecInv(m)'
    <3>1. CASE ev \in Starts(m)
      BY <2>3, <2>4, <3>1, RecStartTaken
    <3>2. CASE ev \in Stops(m)
      BY <2>3, <2>4, <3>2, RecStopTaken
    <3>3. CASE ev \notin Starts(m) \cup Stops(m)
      <4>1. ev \in Events
        BY <2>4, TakeStep
      <4>2. UNCHANGED rec \/ (ev.kind \in {"RECORD_START", "RECORD_STOP"} /\
                              \A l \in Legs : l # ev.leg => rec'[l] = rec[l])
        BY <2>4 DEF Taken, Drop, Handle, HandleUnhold, HandleRecordStart, HandleRecordStop, TypeOK
      <4>3. rec'[m] = rec[m]
        BY <3>3, <4>1, <4>2 DEF Starts, Stops, Of
      <4> QED
        BY <2>3, <2>4, <3>3, <4>3, RecPassed
    <3> QED
      BY <3>1, <3>2, <3>3
  <2>5. CASE UNCHANGED vars
    BY <2>3, <2>5 DEF vars, coreVars, viewVars, RecInv, RecBegins, RecQueued, RecFirst, RecLast,
       RecReport,
       LastIs, NoneOf, InJob, LastStops, Whole, Recorded, Ended
  <2> QED
    BY <2>3, <2>4, <2>5, RecCore, RecApi, RecTested, RecSent, DispatchSplits DEF Next
<1> QED
  BY <1>1, <1>2, TypeInvariant, JobInvariant, HangupInvariant, PTL DEF Spec

\* The hangup report names the right span of a leg's recordings, the bridge for a start when
\* they wait for it: see RecordSpan.
THEOREM SpanIsWhole == Spec => []RecordSpan
<1>1. RecordInv => RecordSpan
  BY DEF RecordInv, RecInv, RecReport, RecordSpan
<1> QED
  BY <1>1, RecordInvariant, PTL

-----------------------------------------------------------------------------
\* Legs with an eavesdropper were made before it; requests keep the leg they locked.
AgentsInv ==
  /\ \A l \in Legs : Overheard(l) => chan[l] # "none"
  /\ \A r \in Requests :
       /\ req[r].kind = "SetEavesdropState" => Agent[req[r].leg] # Nobody
       /\ req[r].kind # "none" /\ req[r].lock => chan[req[r].leg] \notin {"none", "destroyed"}

LEMMA AgentsInvariant == Spec => []AgentsInv
<1>1. Init => AgentsInv
  <2> SUFFICES ASSUME Init PROVE AgentsInv
    OBVIOUS
  <2>1. \A l \in Legs : Overheard(l) => chan[l] # "none"
    BY DEF Init
  <2>2. \A r \in Requests : req[r].kind = "none"
    BY DEF Init, Idle
  <2> QED
    BY <2>1, <2>2 DEF AgentsInv
<1>2. TypeOK /\ AgentsInv /\ [Next]_vars => AgentsInv'
  <2> SUFFICES ASSUME TypeOK, AgentsInv, [Next]_vars PROVE AgentsInv'
    BY PTL
  <2>1. CASE UNCHANGED <<chan, req>>
    BY <2>1 DEF AgentsInv, Overheard
  <2>2. ASSUME NEW l \in Legs, Core(l), ~UNCHANGED chan PROVE AgentsInv'
    <3>1. \A m \in Legs : chan'[m] = "none" => chan[m] = "none"
      BY <2>2 DEF Core, Create, Answer, StartRecord, StopRecord, Bridge, PhoneHold, BeginHangup,
         MarkHeld,
         ReportHangup, Destroy, TypeOK
    <3>2. \A m \in Legs : chan'[m] = "destroyed" => chan[m] = "destroyed" \/ ~Locked(m)
      BY <2>2 DEF Core, Create, Answer, StartRecord, StopRecord, Bridge, PhoneHold, BeginHangup,
         MarkHeld,
         ReportHangup, Destroy, TypeOK
    <3>3. UNCHANGED req
      BY <2>2, TypeParts, CoreAdds
    <3>4. ASSUME NEW r \in Requests, req[r].kind # "none", req[r].lock
          PROVE  chan'[req[r].leg] \notin {"none", "destroyed"}
      <4>1. req[r].leg \in Legs
        BY <3>4, TypeParts, RequestTyped DEF Idle
      <4>2. Locked(req[r].leg) /\ chan[req[r].leg] \notin {"none", "destroyed"}
        BY <3>4 DEF Locked, AgentsInv
      <4> QED
        BY <3>1, <3>2, <4>1, <4>2
    <3> QED
      BY <3>1, <3>3, <3>4 DEF AgentsInv, Overheard
  <2>3. ASSUME NEW r \in Requests, Api(r) PROVE AgentsInv'
    <3>1. UNCHANGED chan
      BY <2>3, TypeParts, ApiAdds
    <3>2. \A q \in Requests \ {r} : req'[q] = req[q]
      BY <2>3 DEF Api, Begin, SetHold, SetState, FireState, TypeOK
    <3>3. /\ req'[r].kind = "SetEavesdropState" => Agent[req'[r].leg] # Nobody
          /\ req'[r].kind # "none" /\ req'[r].lock => chan[req'[r].leg] \notin {"none", "destroyed"}
      <4>2. SetHold(r) \/ FireState(r) => req'[r] = Idle
        BY DEF SetHold, FireState, TypeOK
      <4>3. ASSUME SetState(r)
            PROVE  req'[r].kind = "SetEavesdropState" /\ req'[r].leg = req[r].leg /\ req'[r].lock = FALSE
        <5>1. req[r] # Idle
          BY <4>3 DEF SetState, Idle
        <5>2. req[r] \in [kind : {"SetEavesdropState"}, leg : Legs, lock : BOOLEAN]
          BY <4>3, <5>1 DEF SetState, TypeOK
        <5> QED
          BY <4>3, <5>2 DEF SetState, TypeOK
      <4>4. SetState(r) => Agent[req[r].leg] # Nobody
        BY DEF SetState, AgentsInv
      <4>1. ASSUME NEW l \in Legs, NEW kind \in {"Hold", "UnHold", "SetEavesdropState"},
                   Begin(r, l, kind)
            PROVE  /\ req'[r].kind = "SetEavesdropState" => Agent[req'[r].leg] # Nobody
                   /\ req'[r].kind # "none" /\ req'[r].lock => chan[req'[r].leg] \notin {"none", "destroyed"}
        <5>1. req'[r] = [kind |-> kind, leg |-> l, lock |-> TRUE]
          BY <4>1 DEF Begin, TypeOK
        <5>2. chan[l] \notin {"none", "destroyed"} /\ (kind = "SetEavesdropState" => Agent[l] # Nobody)
          BY <4>1 DEF Begin, Located
        <5>3. req'[r].kind = kind /\ req'[r].leg = l
          BY <5>1
        <5> QED
          BY <5>2, <5>3
      <4>5. ASSUME SetHold(r) \/ FireState(r)
            PROVE  /\ req'[r].kind = "SetEavesdropState" => Agent[req'[r].leg] # Nobody
                   /\ req'[r].kind # "none" /\ req'[r].lock => chan[req'[r].leg] \notin {"none", "destroyed"}
        BY <4>2, <4>5 DEF Idle
      <4>6. ASSUME SetState(r)
            PROVE  /\ req'[r].kind = "SetEavesdropState" => Agent[req'[r].leg] # Nobody
                   /\ req'[r].kind # "none" /\ req'[r].lock => chan[req'[r].leg] \notin {"none", "destroyed"}
        BY <4>3, <4>4, <4>6
      <4> QED
        BY <2>3, <4>1, <4>5, <4>6 DEF Api
    <3> QED
      BY <3>1, <3>2, <3>3 DEF AgentsInv, Overheard
  <2>4. Dispatch => UNCHANGED <<chan, req>>
    BY DEF Dispatch, Drop, Handle, HandleUnhold, HandleRecordStart, HandleRecordStop, TestUnhold,
       Send, coreVars
  <2>5. ASSUME NEW l \in Legs, Core(l) PROVE UNCHANGED req
    BY <2>5, TypeParts, CoreAdds
  <2> QED
    BY <2>1, <2>2, <2>3, <2>4, <2>5 DEF Next, vars, coreVars
<1> QED
  BY <1>1, <1>2, TypeInvariant, PTL DEF Spec

-----------------------------------------------------------------------------
\* Events of a leg that make the constructor tell its agent's leg; events of the agent's leg
\* that say it left.
Tells(l) == Of(l, {"ANSWER", "UNHOLD", "EAVESDROP", "HANGUP"})
Leaves(a) == {ev \in Of(a, {"EAVESDROP"}) : ev.type = "leave"}

\* The subscribers see, or will see, that the eavesdropper left.
LeaveShown(a) ==
  \/ LastIs(Leaves(a), Of(a, {"EAVESDROP"}))
  \/ /\ NoneOf(Of(a, {"EAVESDROP"}))
     /\ \/ InJob(Leaves(a))
        \/ told[a] = "leave" /\ ~InJob(Of(a, {"EAVESDROP"}))

\* Behind the hangup of a leg nothing of it is told to its agent's leg any more.
LeaveOf(l) ==
  /\ \A i, j \in 1..Len(queue) : queue[i] \in Of(l, {"HANGUP"}) /\ i < j => queue[j] \notin Tells(l)
  /\ InJob(Of(l, {"HANGUP"})) => NoneOf(Tells(l)) /\ (Located(Agent[l]) => job.notice \in Leaves(Agent[l]))
  /\ view[l] = "hangup" =>
       /\ NoneOf(Tells(l)) /\ ~InJob(Tells(l))
       /\ Located(Agent[l]) /\ Agent[l] \in numeric \ quiet => LeaveShown(Agent[l])

LeaveInv == \A l \in Legs \ late : Alone(l) => LeaveOf(l)

LEMMA LeaveKept ==
  ASSUME QueueTyped, NEW a, NEW E \in SUBSET Events, Adds(E), E \cap Of(a, {"EAVESDROP"}) = {},
         \A B : InJob(B)' <=> InJob(B), told'[a] = told[a], LeaveShown(a)
  PROVE  LeaveShown(a)'
<1>1. /\ LastIs(Leaves(a), Of(a, {"EAVESDROP"})) => LastIs(Leaves(a), Of(a, {"EAVESDROP"}))'
      /\ NoneOf(Of(a, {"EAVESDROP"})) => NoneOf(Of(a, {"EAVESDROP"}))'
  BY AddsLast, AddsNone
<1> QED
  BY <1>1 DEF LeaveShown

\* Events that tell the agent's leg nothing more.
LEMMA LeaveAdds ==
  ASSUME QueueTyped, NEW l \in Legs, Alone(l), LeaveOf(l), NEW E \in SUBSET Events, Adds(E),
         E \cap Tells(l) = {}, E \cap Of(Agent[l], {"EAVESDROP"}) = {}, E \cap Of(l, {"HANGUP"}) = {},
         UNCHANGED <<job, view, told, numeric, quiet>>, Located(Agent[l])' => Located(Agent[l])
  PROVE  LeaveOf(l)'
<1>1. /\ Len(queue) \in Nat /\ Len(queue') \in Nat /\ Len(queue) <= Len(queue')
      /\ \A i \in 1..Len(queue) : queue'[i] = queue[i]
      /\ \A i \in 1..Len(queue') : i > Len(queue) => queue'[i] \in E
  BY AddsFrom
<1>2. \A i, j \in 1..Len(queue') : queue'[i] \in Of(l, {"HANGUP"}) /\ i < j => queue'[j] \notin Tells(l)
  BY <1>1 DEF LeaveOf
<1>3. NoneOf(Tells(l)) => NoneOf(Tells(l))'
  BY AddsNone
<1>4. \A B : InJob(B)' <=> InJob(B)
  BY DEF InJob
<1>5. LeaveShown(Agent[l]) => LeaveShown(Agent[l])'
  BY <1>4, LeaveKept
<1> QED
  BY <1>2, <1>3, <1>4, <1>5 DEF LeaveOf

LEMMA LeaveCore ==
  ASSUME TypeOK, HangupInv, HangupInv', AgentsInv, NEW x \in Legs, Core(x),
         NEW l \in Legs, Alone(l), LeaveOf(l)
  PROVE  LeaveOf(l)'
<1>1. /\ UNCHANGED <<job, view, told, numeric, quiet>> /\ Adds(CoreEvents(x)) /\ QueueTyped
      /\ ReportHangup(x) \/ Adds(Of(x, CoreKinds))
  BY TypeParts, CoreAdds DEF viewVars
<1>2. Agent[l] \in Legs /\ Agent[l] # l
  BY AgentAssumption DEF Alone
<1>3. Located(Agent[l])' => Located(Agent[l])
  <2>1. chan[Agent[l]] # "none"
    BY <1>2 DEF AgentsInv, Overheard
  <2>2. \A m \in Legs : Located(m)' => Located(m) \/ chan[m] = "none"
    BY DEF Core, Create, Answer, StartRecord, StopRecord, Bridge, PhoneHold, BeginHangup, MarkHeld,
       ReportHangup, Destroy, TypeOK, Located
  <2> QED
    BY <1>2, <2>1, <2>2
<1>4. ASSUME NEW E \in SUBSET Events, Adds(E), E \cap Tells(l) = {},
             E \cap Of(Agent[l], {"EAVESDROP"}) = {}
      PROVE  LeaveOf(l)'
  <2>1. E \cap Of(l, {"HANGUP"}) = {}
    BY <1>4 DEF Tells, Of
  <2> QED
    BY <1>1, <1>3, <1>4, <2>1, LeaveAdds
<1>5. CASE x # l
  BY <1>1, <1>4, <1>5 DEF CoreEvents, CoreKinds, Tells, Of
<1>6. CASE x = l /\ ~Ended(l)'
  <2>1. view'[l] # "hangup" /\ NoneOf(Of(l, {"HANGUP"}))' /\ ~InJob(Of(l, {"HANGUP"}))'
    BY <1>6 DEF HangupInv
  <2> QED
    BY <2>1 DEF LeaveOf, NoneOf
<1>7. CASE x = l /\ ReportHangup(l)
  <2>1. ~Ended(l)
    BY <1>7 DEF ReportHangup, Ended
  <2>2. view[l] # "hangup" /\ NoneOf(Of(l, {"HANGUP"})) /\ ~InJob(Of(l, {"HANGUP"}))
    BY <2>1 DEF HangupInv
  <2>3. HangupEvent(l) \in Events /\ Fire(HangupEvent(l))
    BY <1>7, TypeParts, EventTypes DEF ReportHangup
  <2>4. Grown(HangupEvent(l))
    BY <1>1, <2>3, FireGrows
  <2>5. \A i, j \in 1..Len(queue') : queue'[i] \in Of(l, {"HANGUP"}) /\ i < j => queue'[j] \notin Tells(l)
    BY <2>2, <2>4 DEF Grown, NoneOf
  <2>6. ~InJob(Of(l, {"HANGUP"}))' /\ view'[l] # "hangup"
    BY <1>1, <2>2 DEF InJob
  <2> QED
    BY <2>5, <2>6 DEF LeaveOf
<1>8. CASE x = l /\ Ended(l)' /\ ~ReportHangup(l)
  <2>1. StopRecord(l) \/ Destroy(l)
    <3>1. ~(Create(l) \/ Answer(l) \/ StartRecord(l) \/ Bridge(l) \/ BeginHangup(l) \/ MarkHeld(l))
      BY <1>8 DEF Create, Answer, StartRecord, Bridge, BeginHangup, MarkHeld, Ended, TypeOK
    <3>2. \A on \in BOOLEAN : ~PhoneHold(l, on)
      BY <1>8 DEF PhoneHold, Ended
    <3> QED
      BY <1>8, <3>1, <3>2 DEF Core
  <2>2. Adds(Of(l, {"RECORD_STOP"}))
    <3>1. RecordEvent("RECORD_STOP", l, records[l]) \in Of(l, {"RECORD_STOP"})
      BY TypeParts, EventTypes DEF RecordEvent, Of, TypeOK
    <3> QED
      BY <2>1, <3>1 DEF StopRecord, Destroy, Fire, Adds
  <2> QED
    BY <1>4, <2>2 DEF Tells, Of
<1> QED
  BY <1>5, <1>6, <1>7, <1>8

LEMMA LeaveApi ==
  ASSUME TypeOK, HangupInv', AgentsInv, NEW r \in Requests, Api(r),
         NEW l \in Legs, Alone(l), LeaveOf(l), l \notin late'
  PROVE  LeaveOf(l)'
<1>1. /\ UNCHANGED <<job, view, told, numeric, quiet, chan>> /\ QueueTyped
  BY TypeParts, ApiAdds DEF viewVars
<1>2. Agent[l] \in Legs /\ Agent[l] # l /\ Agent[Agent[l]] = Nobody
  BY AgentAssumption DEF Alone
<1>3. ASSUME NEW E \in SUBSET Events, Adds(E), E \cap Tells(l) = {},
             E \cap Of(Agent[l], {"EAVESDROP"}) = {}
      PROVE  LeaveOf(l)'
  <2>1. E \cap Of(l, {"HANGUP"}) = {} /\ (Located(Agent[l])' => Located(Agent[l]))
    BY <1>1, <1>3 DEF Tells, Of, Located
  <2> QED
    BY <1>1, <1>3, <2>1, LeaveAdds
<1>4. CASE UNCHANGED queue
  <2>1. Adds({}) /\ {} \in SUBSET Events
    BY <1>4 DEF Adds
  <2> QED
    BY <1>3, <2>1
<1>5. CASE ~UNCHANGED queue
  <2>1. /\ SetHold(r) \/ FireState(r)
        /\ req[r].leg \in Legs
    BY <1>5, TypeParts, RequestTyped DEF Api, Begin, SetHold, SetState, FireState, Idle
  <2>2. PICK x \in Legs : x = req[r].leg
    BY <2>1
  <2>3. CASE x = l
    <3>1. ~Ended(l)'
      <4>1. SetHold(r) => chan[l] # "destroyed" /\ chan[l] # "reported"
        <5>1. ASSUME SetHold(r) PROVE req[r].kind # "none" /\ req[r].lock
          BY <5>1, TypeParts, RequestTyped DEF SetHold, Idle
        <5>2. SetHold(r) => chan[l] # "destroyed"
          <6>1. SetHold(r) => chan[req[r].leg] # "destroyed"
            BY <5>1 DEF AgentsInv
          <6> QED
            BY <2>2, <2>3, <6>1
        <5>3. SetHold(r) => chan[l] # "reported"
          BY <2>2, <2>3 DEF SetHold
        <5> QED
          BY <5>2, <5>3
      <4>2. FireState(r) => chan[l] # "destroyed" /\ chan[l] # "reported"
        BY <2>2, <2>3 DEF FireState
      <4> QED
        BY <1>1, <2>1, <4>1, <4>2 DEF Ended
    <3>2. view'[l] # "hangup" /\ NoneOf(Of(l, {"HANGUP"}))' /\ ~InJob(Of(l, {"HANGUP"}))'
      BY <3>1 DEF HangupInv
    <3> QED
      BY <3>2 DEF LeaveOf, NoneOf
  <2>4. CASE x # l /\ SetHold(r)
    <3>1. Adds(Of(x, {"HOLD", "UNHOLD"}))
      <4>1. PICK on \in BOOLEAN : ToggleHold(x, on)
        BY <2>2, <2>4 DEF SetHold
      <4> QED
        BY <4>1, TypeParts, ToggleAdds DEF Adds, Fire, CoreEvents, CoreKinds, ApiEvents, Of
    <3> QED
      BY <1>3, <2>4, <3>1 DEF Tells, Of
  <2>5. CASE x # l /\ FireState(r)
    <3>1. x # Agent[l]
      BY <1>2, <2>2, <2>5 DEF FireState, AgentsInv
    <3>2. Adds(Of(x, {"EAVESDROP"}))
      <4>1. state[x] \in States /\ "own" \in Types
        BY DEF TypeOK, Types
      <4>2. EavesdropEvent(x, state[x], "own") \in Of(x, {"EAVESDROP"})
        BY <4>1, TypeParts, EventTypes DEF EavesdropEvent, Of
      <4> QED
        BY <2>2, <2>5, <4>2 DEF FireState, Fire, Adds
    <3> QED
      BY <1>3, <2>5, <3>1, <3>2 DEF Tells, Of
  <2> QED
    BY <2>1, <2>3, <2>4, <2>5
<1> QED
  BY <1>4, <1>5

LEMMA LeaveTaken ==
  ASSUME TypeOK, queue # <<>>, NEW ev, ev = Head(queue), Taken(ev),
         NEW l \in Legs, Alone(l), LeaveOf(l)
  PROVE  LeaveOf(l)'
<1>1. /\ ev \in Events /\ Shrunk(ev) /\ job = NoJob
      /\ job' # NoJob => job'.event = ev
      /\ ev.leg \in numeric \ quiet /\ ev.kind \in PostKinds => job' # NoJob
  BY TakeStep
<1>2. UNCHANGED <<chan, numeric, quiet, view, told>>
  BY TakeStep DEF coreVars, viewVars
<1>3. Agent[l] \in Legs /\ Located(Agent[l])' = Located(Agent[l])
  BY <1>2, AgentAssumption DEF Alone, Located
<1>4. /\ \A i \in 1..Len(queue') : i + 1 \in 1..Len(queue) /\ queue'[i] = queue[i + 1]
      /\ 1 \in 1..Len(queue) /\ queue[1] = ev
  BY <1>1 DEF Shrunk
<1>5. ASSUME NEW i \in 1..Len(queue'), NEW j \in 1..Len(queue'), queue'[i] \in Of(l, {"HANGUP"}), i < j
      PROVE  queue'[j] \notin Tells(l)
  <2>1. i + 1 \in 1..Len(queue) /\ j + 1 \in 1..Len(queue) /\ i + 1 < j + 1
        /\ queue'[i] = queue[i + 1] /\ queue'[j] = queue[j + 1]
    BY <1>4, <1>5
  <2> QED
    BY <1>5, <2>1 DEF LeaveOf
<1>6. \A B : InJob(B)' => ev \in B
  BY <1>1 DEF InJob
<1>7. ASSUME InJob(Of(l, {"HANGUP"}))'
      PROVE  NoneOf(Tells(l))' /\ (Located(Agent[l]) => job'.notice \in Leaves(Agent[l]))
  <2>1. ev \in Of(l, {"HANGUP"}) /\ job' # NoJob
    BY <1>6, <1>7 DEF InJob
  <2>2. NoneOf(Tells(l))'
    <3>1. ASSUME NEW i \in 1..Len(queue') PROVE queue'[i] \notin Tells(l)
      <4>1. i + 1 \in 1..Len(queue) /\ 1 < i + 1 /\ queue'[i] = queue[i + 1]
        BY <1>4
      <4> QED
        BY <1>4, <2>1, <4>1 DEF LeaveOf
    <3> QED
      BY <3>1 DEF NoneOf
  <2>3. ev.kind = "HANGUP" /\ ev.leg = l /\ ev \in Reported /\ job'.notice = NoticeOf(ev)
    BY <2>1, TakeStep DEF Of
  <2>4. Located(Agent[l]) => NoticeOf(ev) = EavesdropEvent(Agent[l], ev.state, "leave")
    BY <2>3 DEF NoticeOf, Notice, Alone
  <2>5. EavesdropEvent(Agent[l], ev.state, "leave") \in Leaves(Agent[l])
    <3>1. ev.state \in States /\ "leave" \in Types
      BY <2>3 DEF Reported, Changes, Types
    <3> QED
      BY <1>3, <3>1, TypeParts, EventTypes DEF EavesdropEvent, Leaves, Of
  <2> QED
    BY <2>2, <2>3, <2>4, <2>5
<1>8. ASSUME view[l] = "hangup"
      PROVE  NoneOf(Tells(l))' /\ ~InJob(Tells(l))'
  <2>1. NoneOf(Tells(l))
    BY <1>8 DEF LeaveOf
  <2>2. ev \notin Tells(l)
    BY <1>4, <2>1 DEF NoneOf
  <2> QED
    BY <1>1, <1>6, <2>1, <2>2, NoneShrunk
<1>9. ASSUME NEW a \in numeric \ quiet, LeaveShown(a) PROVE LeaveShown(a)'
  <2>1. CASE LastIs(Leaves(a), Of(a, {"EAVESDROP"}))
    <3>1. \/ LastIs(Leaves(a), Of(a, {"EAVESDROP"}))'
          \/ ev \in Leaves(a) /\ NoneOf(Of(a, {"EAVESDROP"}))'
      BY <1>1, <2>1, LastShrunk
    <3>2. ev \in Leaves(a) => InJob(Leaves(a))'
      BY <1>1, <1>9 DEF InJob, Leaves, Of, PostKinds
    <3> QED
      BY <3>1, <3>2 DEF LeaveShown
  <2>2. CASE NoneOf(Of(a, {"EAVESDROP"})) /\ told[a] = "leave"
    <3>1. ev \notin Of(a, {"EAVESDROP"}) /\ NoneOf(Of(a, {"EAVESDROP"}))'
      BY <1>1, <1>4, <2>2, NoneShrunk DEF NoneOf
    <3> QED
      BY <1>2, <1>6, <2>2, <3>1 DEF LeaveShown
  <2>3. ~InJob(Leaves(a))
    BY <1>1 DEF InJob
  <2> QED
    BY <1>9, <2>1, <2>2, <2>3 DEF LeaveShown
<1> QED
  BY <1>2, <1>3, <1>5, <1>7, <1>8, <1>9 DEF LeaveOf

LEMMA LeaveTested ==
  ASSUME TypeOK, JobInv, TestUnhold, NEW l \in Legs, LeaveOf(l)
  PROVE  LeaveOf(l)'
<1>1. /\ job # NoJob /\ job.event.kind = "UNHOLD"
      /\ job' # NoJob => job'.event = job.event
  BY TestStep
<1>2. UNCHANGED <<chan, numeric, quiet, view, told, queue>>
  BY DEF TestUnhold, coreVars, viewVars
<1>3. \A B : InJob(B)' => InJob(B)
  BY <1>1 DEF InJob
<1>4. \A a : ~InJob(Leaves(a)) /\ ~InJob(Of(l, {"HANGUP"}))
  BY <1>1 DEF InJob, Leaves, Of
<1>5. LeaveShown(Agent[l]) => LeaveShown(Agent[l])'
  BY <1>2, <1>3, <1>4 DEF LeaveShown, LastIs, NoneOf
<1>6. NoneOf(Tells(l)) => NoneOf(Tells(l))'
  BY <1>2 DEF NoneOf
<1> QED
  BY <1>2, <1>3, <1>4, <1>5, <1>6 DEF LeaveOf, Located

LEMMA LeaveSent ==
  ASSUME TypeOK, JobInv, Send, NEW l \in Legs, Alone(l), LeaveOf(l)
  PROVE  LeaveOf(l)'
<1>1. /\ job # NoJob /\ job.event \in Reported /\ job.event.leg \in Legs /\ job' = NoJob
      /\ job.notice = NoNotice => UNCHANGED queue
      /\ job.notice # NoNotice =>
           job.notice \in Of(Agent[job.event.leg], {"EAVESDROP"}) /\ queue' = Append(queue, job.notice)
  BY SendStep
<1>2. UNCHANGED <<chan, numeric, quiet>> /\ QueueTyped
  BY TypeParts DEF Send, coreVars
<1>3. Agent[l] \in Legs /\ Agent[l] # l
  BY AgentAssumption DEF Alone
<1>4. PICK ev \in Events : ev = job.event
  BY <1>1 DEF Events
<1>5. PICK notice : notice = job.notice
  OBVIOUS
<1>6. \A B : InJob(B) <=> ev \in B
  BY <1>1, <1>4 DEF InJob
<1>7. \A B : ~InJob(B)'
  BY <1>1 DEF InJob
<1>8. /\ view'[l] = IF l = ev.leg THEN Shown(ev.kind, view[l]) ELSE view[l]
      /\ told'[Agent[l]] = IF Agent[l] = ev.leg /\ ev.kind = "EAVESDROP" THEN ev.type ELSE told[Agent[l]]
  BY <1>3, <1>4, SendStep
<1> DEFINE E == {notice} \ {NoNotice}
<1>9. /\ E \in SUBSET Events /\ Adds(E)
      /\ \A e \in E : e.leg = Agent[ev.leg] /\ e.kind = "EAVESDROP"
  BY <1>1, <1>4, <1>5 DEF Adds, Of
<1>10. E \cap Tells(l) = {}
  BY <1>1, <1>4, <1>9 DEF Tells, Of, Alone
<1>11. \A i, j \in 1..Len(queue') : queue'[i] \in Of(l, {"HANGUP"}) /\ i < j => queue'[j] \notin Tells(l)
  <2>1. /\ Len(queue) \in Nat /\ Len(queue') \in Nat /\ Len(queue) <= Len(queue')
        /\ \A i \in 1..Len(queue) : queue'[i] = queue[i]
        /\ \A i \in 1..Len(queue') : i > Len(queue) => queue'[i] \in E
    BY <1>2, <1>9, AddsFrom
  <2>2. ASSUME NEW i \in 1..Len(queue'), NEW j \in 1..Len(queue'), queue'[i] \in Of(l, {"HANGUP"}),
               i < j
        PROVE  queue'[j] \notin Tells(l)
    <3>1. CASE j > Len(queue)
      BY <1>10, <2>1, <3>1
    <3>2. CASE j <= Len(queue)
      BY <2>1, <2>2, <3>2 DEF LeaveOf
    <3> QED
      BY <2>1, <3>1, <3>2
  <2> QED
    BY <2>2
<1>12. NoneOf(Tells(l)) => NoneOf(Tells(l))'
  BY <1>2, <1>9, <1>10, AddsNone
<1>13. CASE ev \in Of(l, {"HANGUP"})
  <2>1. NoneOf(Tells(l)) /\ (Located(Agent[l]) => notice \in Leaves(Agent[l]))
    BY <1>5, <1>6, <1>13 DEF LeaveOf
  <2>2. ASSUME Located(Agent[l]) PROVE LastIs(Leaves(Agent[l]), Of(Agent[l], {"EAVESDROP"}))'
    <3>1. notice \in Leaves(Agent[l]) /\ notice \in Events
      BY <2>1, <2>2 DEF Leaves, Of
    <3>2. notice # NoNotice
      <4>1. notice.kind = "EAVESDROP"
        BY <3>1 DEF Leaves, Of
      <4> QED
        BY <4>1 DEF NoNotice
    <3>3. Grown(notice)
      BY <1>1, <1>2, <1>5, <3>1, <3>2, QueueGrows
    <3> QED
      BY <3>1, <3>3, LastGrown
  <2>3. Located(Agent[l])' = Located(Agent[l])
    BY <1>2 DEF Located
  <2> QED
    BY <1>7, <1>11, <1>12, <2>1, <2>2, <2>3 DEF LeaveOf, LeaveShown
<1>14. CASE ev \notin Of(l, {"HANGUP"})
  <2>1. view'[l] = "hangup" => view[l] = "hangup"
    BY <1>8, <1>14 DEF Shown, Of
  <2>2. ASSUME view[l] = "hangup", LeaveShown(Agent[l]) PROVE LeaveShown(Agent[l])'
    <3>1. ev \notin Tells(l)
      BY <1>6, <2>2 DEF LeaveOf
    <3>2. E \cap Of(Agent[l], {"EAVESDROP"}) = {}
      <4>1. ASSUME NEW e \in E, e.leg = Agent[l] PROVE FALSE
        <5>1. ev.leg = l
          BY <1>1, <1>4, <1>9, <4>1 DEF Alone
        <5>2. ev.kind \in {"ANSWER", "UNHOLD", "HANGUP", "EAVESDROP"}
          BY <1>1, <1>4, <1>5, <4>1 DEF JobInv
        <5> QED
          BY <3>1, <5>1, <5>2 DEF Tells, Of
      <4> QED
        BY <4>1 DEF Of
    <3>3. /\ LastIs(Leaves(Agent[l]), Of(Agent[l], {"EAVESDROP"})) =>
                LastIs(Leaves(Agent[l]), Of(Agent[l], {"EAVESDROP"}))'
          /\ NoneOf(Of(Agent[l], {"EAVESDROP"})) => NoneOf(Of(Agent[l], {"EAVESDROP"}))'
      BY <1>2, <1>9, <3>2, AddsLast, AddsNone
    <3>4. ev \in Leaves(Agent[l]) => told'[Agent[l]] = "leave"
      BY <1>8 DEF Leaves, Of
    <3>5. told[Agent[l]] = "leave" /\ ev \notin Of(Agent[l], {"EAVESDROP"}) => told'[Agent[l]] = "leave"
      BY <1>8 DEF Of
    <3> QED
      BY <1>6, <1>7, <2>2, <3>3, <3>4, <3>5 DEF LeaveShown
  <2>3. Located(Agent[l])' = Located(Agent[l])
    BY <1>2 DEF Located
  <2> QED
    BY <1>2, <1>7, <1>11, <1>12, <2>1, <2>2, <2>3 DEF LeaveOf
<1> QED
  BY <1>13, <1>14

LEMMA LeaveInvariant == Spec => []LeaveInv
<1>1. Init => LeaveInv
  <2> SUFFICES ASSUME Init, NEW l \in Legs PROVE LeaveOf(l)
    BY DEF LeaveInv
  <2>1. view[l] # "hangup" /\ Len(queue) = 0
    BY DEF Init
  <2> QED
    BY <2>1, InitEmpty DEF LeaveOf
<1>2. TypeOK /\ JobInv /\ HangupInv /\ HangupInv' /\ AgentsInv /\ LeaveInv /\ [Next]_vars => LeaveInv'
  <2> SUFFICES ASSUME TypeOK, JobInv, HangupInv, HangupInv', AgentsInv, LeaveInv, [Next]_vars
               PROVE  LeaveInv'
    BY PTL
  <2>1. late \subseteq late'
    <3>1. ASSUME NEW l \in Legs, Core(l) PROVE late \subseteq late'
      BY <3>1, TypeParts, CoreAdds
    <3>2. (\E r \in Requests : Api(r)) => late \subseteq late'
      BY DEF Api, Begin, SetHold, SetState, FireState
    <3>3. Dispatch => late \subseteq late'
      BY DEF Dispatch, Drop, Handle, HandleUnhold, HandleRecordStart, HandleRecordStop, TestUnhold, Send
    <3> QED
      BY <3>1, <3>2, <3>3 DEF Next, vars
  <2> SUFFICES ASSUME NEW l \in Legs, l \notin late', Alone(l) PROVE LeaveOf(l)'
    BY DEF LeaveInv, Alone
  <2>2. LeaveOf(l)
    BY <2>1 DEF LeaveInv
  <2>3. ASSUME queue # <<>>, Taken(Head(queue)) PROVE LeaveOf(l)'
    BY <2>2, <2>3, LeaveTaken
  <2>4. CASE UNCHANGED vars
    BY <2>2, <2>4 DEF vars, coreVars, viewVars, LeaveOf, LeaveShown, LastIs, NoneOf, InJob, Located
  <2> QED
    BY <2>2, <2>3, <2>4, LeaveCore, LeaveApi, LeaveTested, LeaveSent, DispatchSplits DEF Next
<1> QED
  BY <1>1, <1>2, TypeInvariant, JobInvariant, HangupInvariant, AgentsInvariant, PTL DEF Spec

\* The last thing an agent's leg is told of an eavesdropper that has hung up is
\* that it left: see LeaveIsLast.
THEOREM LeaveComesLast == Spec => []LeaveIsLast
<1>1. TypeOK /\ LeaveInv => LeaveIsLast
  <2> SUFFICES ASSUME TypeOK, LeaveInv, NEW l \in Legs, view[l] = "hangup", l \notin late, Alone(l),
                      Agent[l] \in numeric, Agent[l] \notin quiet, Located(Agent[l]),
                      ~Pending(Agent[l], {"EAVESDROP"})
               PROVE  told[Agent[l]] = "leave"
    BY DEF LeaveIsLast
  <2>1. LeaveShown(Agent[l])
    BY DEF LeaveInv, LeaveOf
  <2>2. NoneOf(Of(Agent[l], {"EAVESDROP"})) /\ ~InJob(Of(Agent[l], {"EAVESDROP"}))
    <3>1. DOMAIN queue = 1..Len(queue)
      BY DEF TypeOK
    <3> QED
      BY <3>1 DEF Pending, NoneOf, InJob, Of
  <2>3. ~LastIs(Leaves(Agent[l]), Of(Agent[l], {"EAVESDROP"})) /\ ~InJob(Leaves(Agent[l]))
    BY <2>2 DEF NoneOf, LastIs, InJob, Leaves
  <2> QED
    BY <2>1, <2>3 DEF LeaveShown
<1> QED
  BY <1>1, TypeInvariant, LeaveInvariant, PTL

(***************************************************************************)
(* HangupReport.                                                           *)
(***************************************************************************)

Received == {"recv_bye", "recv_cancel", "recv_refuse"}

\* Until a leg is reported, it was asked to end exactly when that shows in what
\* HangupBy reads; the core refuses leg A only.
AskedShows ==
  \A l \in Sides :
    /\ leg[l] = "up" => disposition[l] = ""
    /\ disposition[l] = "send_refuse" => l = "A"
    /\ leg[l] # "reported" => (asked[l] <=> grpc[l] \/ disposition[l] \in Received)

\* A report names the leg's own side exactly when that side asked.
OwnSideNamed ==
  \A l \in Sides : leg[l] = "reported" =>
    IF asked[l] THEN report[l].by = l
    ELSE report[l].by = Other(l) \/ (l = "A" /\ lastApp /\ report[l].by = "F")

NamesInv == HangupTypeOK /\ AskedShows /\ OwnSideNamed

LEMMA OtherLeg == \A l \in Sides : Other(l) \in Sides /\ Other(l) # l /\ Other(Other(l)) = l
  BY DEF Sides, Other

\* The code found is one of the channel's, 487 or 200.
LEMMA SipFoundType ==
  ASSUME NEW h \in Headers, NEW cause
  PROVE  SipFound(h, cause) \in Codes \cup {200, 487}
  BY DEF SipFound, Headers, Absent

LEMMA OutcomeType ==
  ASSUME NEW cause \in Causes, NEW num \in Codes \cup {200, 487}
  PROVE  /\ Outcome(cause, num)[1] \in Causes \cup {"NO_ANSWER", "NO_USER_RESPONSE"}
         /\ Outcome(cause, num)[2] \in Codes \cup {200, 487}
  BY DEF Outcome

\* What a report may say about the outcome.
Agrees(r) ==
  /\ r.sip # 0
  /\ r.cause = "NORMAL_CLEARING" => r.sip = 200
  /\ r.cause \notin TimerCauses

\* Whatever the cause and the code: a normal clearing comes with 200.
LEMMA OutcomeClearing ==
  ASSUME NEW cause, NEW num
  PROVE  /\ Outcome(cause, num)[1] = "NORMAL_CLEARING" => Outcome(cause, num)[2] = 200
         /\ Outcome(cause, num)[1] \notin TimerCauses
  BY DEF Outcome, TimerCauses

\* What ReportEnd exports, as far as the proofs need it.
LEMMA ReportExports ==
  ASSUME NEW l \in Sides, ReportEnd(l)
  PROVE  \E r \in Reports :
           /\ report' = [report EXCEPT ![l] = r]
           /\ r.by = HangupBy(l)
           /\ Agrees(r)
<1>1. PICK cause \in Causes, h \in Headers :
        report' = [report EXCEPT ![l] =
          [by |-> HangupBy(l), cause |-> Outcome(cause, SipFound(h, cause))[1],
           sip |-> Outcome(cause, SipFound(h, cause))[2]]]
  BY DEF ReportEnd
<1> DEFINE o == Outcome(cause, SipFound(h, cause))
           r == [by |-> HangupBy(l), cause |-> o[1], sip |-> o[2]]
<1>2. /\ o[1] \in Causes \cup {"NO_ANSWER", "NO_USER_RESPONSE"}
      /\ o[2] \in Codes \cup {200, 487}
  BY SipFoundType, OutcomeType
<1>3. (o[1] = "NORMAL_CLEARING" => o[2] = 200) /\ o[1] \notin TimerCauses
  BY OutcomeClearing
<1>4. HangupBy(l) \in {"A", "B", "F"}
  BY DEF HangupBy, Other, Sides
<1>5. report' = [report EXCEPT ![l] = r]
  BY <1>1
<1> HIDE DEF o
<1>6. r \in Reports /\ r.by = HangupBy(l)
  BY <1>2, <1>4 DEF Reports
<1>7. Agrees(r)
  BY <1>2, <1>3, InputsAssumption DEF Agrees
<1> QED
  BY <1>5, <1>6, <1>7

LEMMA NamesStep == NamesInv /\ [HangupNext]_hangupVars => NamesInv'
<1> SUFFICES ASSUME NamesInv, [HangupNext]_hangupVars PROVE NamesInv'
  OBVIOUS
<1> USE DEF NamesInv
<1>1. ASSUME NEW l \in Sides, ReportEnd(l) PROVE NamesInv'
  <2>1. /\ leg[l] = "ended" /\ leg' = [leg EXCEPT ![l] = "reported"]
        /\ UNCHANGED <<answered, disposition, grpc, lastApp, api, asked>>
    BY <1>1 DEF ReportEnd
  <2>2. PICK r \in Reports : report' = [report EXCEPT ![l] = r] /\ r.by = HangupBy(l)
    BY <1>1, ReportExports
  <2>3. HangupTypeOK'
    BY <2>1, <2>2 DEF HangupTypeOK
  <2>4. AskedShows'
    BY <2>1 DEF AskedShows, HangupTypeOK
  <2>5. IF asked[l] THEN HangupBy(l) = l
        ELSE HangupBy(l) = Other(l) \/ (l = "A" /\ lastApp /\ HangupBy(l) = "F")
    <3>1. asked[l] <=> grpc[l] \/ disposition[l] \in Received
      BY <2>1 DEF AskedShows
    <3>2. disposition[l] = "send_refuse" => l = "A"
      BY DEF AskedShows
    <3> QED
      BY <3>1, <3>2 DEF HangupBy, Received
  <2>6. OwnSideNamed'
    <3> SUFFICES ASSUME NEW k \in Sides, leg'[k] = "reported"
                 PROVE  (IF asked[k] THEN report[k].by = k
                         ELSE report[k].by = Other(k)
                              \/ (k = "A" /\ lastApp /\ report[k].by = "F"))'
      BY DEF OwnSideNamed
    <3>1. CASE k = l
      BY <3>1, <2>1, <2>2, <2>5 DEF HangupTypeOK
    <3>2. CASE k # l
      <4>1. leg[k] = "reported" /\ report'[k] = report[k]
        BY <3>2, <2>1, <2>2 DEF HangupTypeOK
      <4> QED
        BY <4>1, <2>1 DEF OwnSideNamed
    <3> QED
      BY <3>1, <3>2
  <2> QED
    BY <2>3, <2>4, <2>6
<1>2. ASSUME NEW l \in Sides, ApiLocate(l) PROVE NamesInv'
  BY <1>2 DEF ApiLocate, HangupTypeOK, AskedShows, OwnSideNamed
<1>3. ASSUME NEW l \in Sides, ApiMark(l) PROVE NamesInv'
  BY <1>3 DEF ApiMark, HangupTypeOK, AskedShows, OwnSideNamed
<1>4. ASSUME NEW l \in Sides, NEW how, End(l, how), HangupTypeOK, AskedShows,
             how \in {"send_bye", "send_cancel"} \/ (how = "send_refuse" /\ l = "A"),
             UNCHANGED <<asked, grpc>>
      PROVE  /\ leg' \in [Sides -> {"up", "ended", "reported"}]
             /\ disposition' \in [Sides -> Dispositions]
             /\ AskedShows'
             /\ \A k \in Sides : leg'[k] = "reported" => leg[k] = "reported"
  <2>1. /\ leg[l] = "up" /\ disposition[l] = "" /\ how \in Dispositions
        /\ leg' = [leg EXCEPT ![l] = "ended"]
        /\ disposition' = [disposition EXCEPT ![l] = how]
    BY <1>4 DEF End, AskedShows, Dispositions
  <2>2. /\ leg' \in [Sides -> {"up", "ended", "reported"}]
        /\ disposition' \in [Sides -> Dispositions]
    BY <1>4, <2>1 DEF HangupTypeOK
  <2>3. ASSUME NEW k \in Sides, k # l
        PROVE  leg'[k] = leg[k] /\ disposition'[k] = disposition[k]
    BY <2>1, <2>3, <1>4 DEF HangupTypeOK
  <2>4. leg'[l] = "ended" /\ disposition'[l] = how
    BY <2>1, <1>4 DEF HangupTypeOK
  <2>5. AskedShows'
    <3> SUFFICES ASSUME NEW k \in Sides
                 PROVE  (/\ leg[k] = "up" => disposition[k] = ""
                         /\ disposition[k] = "send_refuse" => k = "A"
                         /\ leg[k] # "reported" =>
                              (asked[k] <=> grpc[k] \/ disposition[k] \in Received))'
      BY DEF AskedShows
    <3>1. CASE k = l
      <4>1. asked[l] <=> grpc[l]
        BY <1>4, <2>1 DEF AskedShows, Received
      <4>2. how \notin Received
        BY <1>4 DEF Received
      <4> QED
        BY <3>1, <4>1, <4>2, <2>4, <1>4
    <3>2. CASE k # l
      BY <3>2, <2>3, <1>4 DEF AskedShows
    <3> QED
      BY <3>1, <3>2
  <2> QED
    BY <2>1, <2>2, <2>3, <2>4, <2>5
<1>5. \A l \in Sides : Sends(l) \in {"send_bye", "send_cancel"} \/ (Sends(l) = "send_refuse" /\ l = "A")
  BY DEF Sends
<1>6. ASSUME NEW l \in Sides, ApiHangup(l) PROVE NamesInv'
  <2>1. CASE End(l, Sends(l))
    BY <1>6, <1>4, <1>5, <2>1 DEF ApiHangup, HangupTypeOK, OwnSideNamed
  <2>2. CASE UNCHANGED <<leg, disposition>>
    BY <1>6, <2>2 DEF ApiHangup, HangupTypeOK, AskedShows, OwnSideNamed
  <2> QED
    BY <1>6, <2>1, <2>2 DEF ApiHangup
<1>7. CASE CalleeAnswers
  BY <1>7 DEF CalleeAnswers, HangupTypeOK, AskedShows, OwnSideNamed
<1>8. ASSUME NEW l \in Sides, PhoneEnds(l) PROVE NamesInv'
  <2>1. PICK how \in Received : End(l, how)
    BY <1>8 DEF PhoneEnds, Received
  <2>2. AskedShows'
    <3>1. /\ leg' = [leg EXCEPT ![l] = "ended"]
          /\ disposition' = [disposition EXCEPT ![l] = how]
          /\ asked' = [asked EXCEPT ![l] = TRUE] /\ grpc' = grpc
      BY <1>8, <2>1 DEF PhoneEnds, End
    <3>2. ASSUME NEW k \in Sides, k # l
          PROVE  /\ leg'[k] = leg[k] /\ disposition'[k] = disposition[k]
                 /\ asked'[k] = asked[k] /\ grpc'[k] = grpc[k]
      BY <3>1, <3>2 DEF HangupTypeOK
    <3>3. leg'[l] = "ended" /\ disposition'[l] = how /\ asked'[l]
      BY <3>1, <1>8 DEF HangupTypeOK
    <3>4. how # "send_refuse"
      BY DEF Received
    <3> SUFFICES ASSUME NEW k \in Sides
                 PROVE  (/\ leg[k] = "up" => disposition[k] = ""
                         /\ disposition[k] = "send_refuse" => k = "A"
                         /\ leg[k] # "reported" =>
                              (asked[k] <=> grpc[k] \/ disposition[k] \in Received))'
      BY DEF AskedShows
    <3>5. CASE k = l
      BY <3>5, <3>3, <3>4
    <3>6. CASE k # l
      BY <3>6, <3>2 DEF AskedShows
    <3> QED
      BY <3>5, <3>6
  <2>3. HangupTypeOK'
    BY <1>8, <2>1 DEF PhoneEnds, End, HangupTypeOK, Received, Dispositions
  <2>4. OwnSideNamed'
    BY <1>8, <2>1 DEF PhoneEnds, End, HangupTypeOK, OwnSideNamed
  <2> QED
    BY <2>2, <2>3, <2>4
<1>9. ASSUME NEW l \in Sides, CoreEnds(l) PROVE NamesInv'
  BY <1>9, <1>4, <1>5 DEF CoreEnds, HangupTypeOK, OwnSideNamed
<1>10. CASE DialplanHangup
  <2>1. /\ End("A", Sends("A")) /\ "A" \in Sides
    BY <1>10 DEF DialplanHangup, Sides
  <2>2. AskedShows'
    BY <1>10, <1>4, <1>5, <2>1 DEF DialplanHangup
  <2>3. HangupTypeOK'
    BY <1>10, <1>4, <1>5, <2>1 DEF DialplanHangup, HangupTypeOK
  <2>4. OwnSideNamed'
    BY <1>10, <2>1 DEF DialplanHangup, End, HangupTypeOK, OwnSideNamed
  <2> QED
    BY <2>2, <2>3, <2>4
<1>11. CASE UNCHANGED hangupVars
  BY <1>11 DEF hangupVars, HangupTypeOK, AskedShows, OwnSideNamed
<1> QED
  BY <1>1, <1>2, <1>3, <1>6, <1>7, <1>8, <1>9, <1>10, <1>11 DEF HangupNext

LEMMA NamesInvariant == HangupSpec => []NamesInv
<1>1. HangupInit => NamesInv
  <2> SUFFICES ASSUME HangupInit PROVE NamesInv
    OBVIOUS
  <2>1. HangupTypeOK
    BY DEF HangupInit, HangupTypeOK, Reports, Dispositions
  <2>2. AskedShows
    BY DEF HangupInit, AskedShows, Received
  <2>3. OwnSideNamed
    BY DEF HangupInit, OwnSideNamed
  <2> QED
    BY <2>1, <2>2, <2>3 DEF NamesInv
<1> QED
  BY <1>1, NamesStep, PTL DEF HangupSpec

\* Every variable keeps its type: each report names a side, a cause and a code that can be.
THEOREM HangupTypeCorrect == HangupSpec => []HangupTypeOK
<1>1. NamesInv => HangupTypeOK
  BY DEF NamesInv
<1> QED
  BY <1>1, NamesInvariant, PTL

\* When one side alone asked for the end, both reports name that side.
THEOREM RightSide == HangupSpec => []RightSideNamed
<1>1. NamesInv => RightSideNamed
  BY OtherLeg DEF NamesInv, OwnSideNamed, RightSideNamed, Sides, Other
<1> QED
  BY <1>1, NamesInvariant, PTL

\* Cause and code of every report agree, whatever causes and codes are.
THEOREM Agreement == HangupSpec => []OutcomeAgrees
<1>1. HangupInit => OutcomeAgrees
  BY DEF HangupInit, OutcomeAgrees
<1>2. HangupTypeOK /\ OutcomeAgrees /\ [HangupNext]_hangupVars => OutcomeAgrees'
  <2> SUFFICES ASSUME HangupTypeOK, OutcomeAgrees, [HangupNext]_hangupVars PROVE OutcomeAgrees'
    OBVIOUS
  <2>1. ASSUME NEW l \in Sides, ReportEnd(l) PROVE OutcomeAgrees'
    <3>1. PICK r \in Reports : report' = [report EXCEPT ![l] = r] /\ Agrees(r)
      BY <2>1, ReportExports
    <3>2. leg' = [leg EXCEPT ![l] = "reported"]
      BY <2>1 DEF ReportEnd
    <3> QED
      BY <3>1, <3>2 DEF OutcomeAgrees, HangupTypeOK, Agrees
  <2>2. ASSUME NEW l \in Sides, NEW how, End(l, how)
        PROVE  \A k \in Sides : leg'[k] = "reported" => leg[k] = "reported"
    BY <2>2 DEF End, HangupTypeOK
  <2>3. CASE UNCHANGED report /\ \A k \in Sides : leg'[k] = "reported" => leg[k] = "reported"
    BY <2>3 DEF OutcomeAgrees
  <2>4. CASE UNCHANGED <<report, leg>>
    BY <2>4 DEF OutcomeAgrees
  <2>5. CASE DialplanHangup
    BY <2>2, <2>3, <2>5 DEF DialplanHangup, Sides
  <2>6. ASSUME NEW l \in Sides, PhoneEnds(l) \/ CoreEnds(l) PROVE OutcomeAgrees'
    BY <2>2, <2>3, <2>6 DEF PhoneEnds, CoreEnds
  <2>7. ASSUME NEW l \in Sides, ApiHangup(l) PROVE OutcomeAgrees'
    BY <2>2, <2>3, <2>4, <2>7 DEF ApiHangup
  <2> QED
    BY <2>1, <2>4, <2>5, <2>6, <2>7 DEF HangupNext, CalleeAnswers, ApiLocate, ApiMark, hangupVars
<1>3. NamesInv => HangupTypeOK
  BY DEF NamesInv
<1> QED
  BY <1>1, <1>2, <1>3, NamesInvariant, PTL DEF HangupSpec
=============================================================================
