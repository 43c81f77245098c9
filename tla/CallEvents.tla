------------------------------ MODULE CallEvents ------------------------------
(***************************************************************************)
(* The export of call events.  The core and the API handlers change a leg  *)
(* and queue the core's events about it; one dispatcher runs               *)
(* CallManager::handle_call_event on them in order, which looks at the     *)
(* leg as it is by then and sends a report to the subscribers.  A leg that *)
(* eavesdrops has its agent's leg told of it by events of its own.         *)
(***************************************************************************)
EXTENDS Integers, Sequences

CONSTANTS
  Legs,
  Nobody,
  Agent,       \* Agent[l]: wbt_eavesdrop_agent_id, Nobody for most legs
  Oddities,    \* which legs may be quiet, have a user id that is no number, and record
               \* from their bridge on
  Requests,    \* threads of the gRPC server
  MaxChanges,  \* MaxChanges[l]: how often a leg is put on hold or recorded, taken together
  MaxQueue     \* the core waits for the dispatcher beyond that many events

ASSUME AgentAssumption ==
  /\ Nobody \notin Legs
  /\ Agent \in [Legs -> Legs \cup {Nobody}]
  /\ Oddities \subseteq [quiet : SUBSET Legs, bad : SUBSET Legs, waits : SUBSET Legs]
  /\ MaxChanges \in [Legs -> Nat] /\ MaxQueue \in Nat

VARIABLES
  chan,      \* the leg in the core
  flags,     \* CF_PROTO_HOLD, CF_LEG_HOLDING and CF_HANGUP_HELD
  quiet,     \* legs with process_cdr "false"
  numeric,   \* legs whose user id is a number
  media,     \* media_bug_answer_req, and whether there is a bridge_epoch yet
  state,     \* wbt_eavesdrop_state
  holds, records,   \* bounded: how often it was held and recorded
  recording, \* a recording runs
  rec,       \* wbt_start_record and wbt_stop_record, as numbers of recordings
  queue,     \* the core's events that wait for the dispatcher
  job,       \* the event the dispatcher handles
  leaked,    \* legs whose read lock was never returned
  req,       \* what each request does
  view,      \* the last status a subscriber was told
  span,      \* the recording the hangup report names
  told,      \* the last eavesdrop report of a leg
  behind,    \* history: legs whose RECORD events were handled too late
  late       \* history: legs of which a request told after their hangup was reported

coreVars == <<chan, flags, quiet, numeric, media, state, holds, records, recording>>
viewVars == <<view, span, told>>
vars == <<coreVars, rec, queue, job, leaked, req, viewVars, behind, late>>

NoJob    == [pc |-> "idle"]
Idle     == [kind |-> "none"]
NoNotice == [kind |-> "none"]

\* Marks of time: a recording is known by its number.
Unmarked    == 0
BridgeEpoch == -1
NoSpan      == [start |-> Unmarked, stop |-> Unmarked]

\* switch_core_session_locate finds a leg that is not hung up yet,
\* switch_core_session_force_locate any that is not destroyed.
Located(l)      == chan[l] \in {"ringing", "answered", "unholding"}
ForceLocated(l) == Located(l) \/ chan[l] \in {"hungup", "reported"}

\* Who holds a read lock of a leg.
Locked(l) ==
  \/ l \in leaked
  \/ job.pc # "idle" /\ job.lock /\ job.event.leg = l
  \/ \E r \in Requests : req[r].kind # "none" /\ req[r].lock /\ req[r].leg = l

\* Events carry the leg's variables of the time they are made.
Event(kind, l) == [kind |-> kind, leg |-> l, state |-> state[l]]
RecordEvent(kind, l, n) == [kind |-> kind, leg |-> l, n |-> n]
HangupEvent(l) ==
  [kind |-> "HANGUP", leg |-> l, state |-> state[l], rec |-> rec[l], media |-> media[l]]
EavesdropEvent(l, st, type) == [kind |-> "EAVESDROP", leg |-> l, state |-> st, type |-> type]

States  == {"none", "set"}   \* muted, prompt and conference need not be told apart
Types   == States \cup {"joined", "leave", "own"}
Spans   == [start : Nat \cup {BridgeEpoch}, stop : Nat]
Media   == [waits : BOOLEAN, bridged : BOOLEAN]
Changes == [kind : {"CREATE", "ANSWER", "HOLD", "UNHOLD"}, leg : Legs, state : States]
Reported ==   \* what a report is made from
  Changes \cup [kind : {"EAVESDROP"}, leg : Legs, state : States, type : Types]
          \cup [kind : {"HANGUP"}, leg : Legs, state : States, rec : Spans, media : Media]
Events  == Reported \cup [kind : {"RECORD_START", "RECORD_STOP"}, leg : Legs, n : Nat]

TypeOK ==
  /\ chan \in [Legs -> {"none", "ringing", "answered", "unholding", "hungup", "reported", "destroyed"}]
  /\ flags \in [Legs -> SUBSET {"PROTO_HOLD", "LEG_HOLDING", "HANGUP_HELD"}]
  /\ quiet \in SUBSET Legs /\ numeric \in SUBSET Legs
  /\ media \in [Legs -> Media]
  /\ state \in [Legs -> States]
  /\ holds \in [Legs -> Nat] /\ records \in [Legs -> Nat]
  /\ recording \in [Legs -> BOOLEAN]
  /\ rec \in [Legs -> Spans]
  /\ queue \in Seq(Events)
  /\ \/ job = NoJob
     \/ job \in [pc : {"test", "post"}, event : Reported, lock : BOOLEAN,
                 notice : Reported \cup {NoNotice}]
  /\ leaked \subseteq Legs
  /\ req \in [Requests -> {Idle} \cup [kind : {"Hold", "UnHold"}, leg : Legs, lock : {TRUE}]
                                 \cup [kind : {"SetEavesdropState"}, leg : Legs, lock : BOOLEAN]]
  /\ view \in [Legs -> {"none", "ringing", "active", "hold", "hangup"}]
  /\ span \in [Legs -> Spans]
  /\ told \in [Legs -> Types]
  /\ behind \subseteq Legs /\ late \subseteq Legs

\* Somebody will eavesdrop on the leg: the model begins when it is answered.
Overheard(l) == \E m \in Legs : Agent[m] = l

Init ==
  /\ chan = [l \in Legs |-> IF Overheard(l) THEN "answered" ELSE "none"]
  /\ flags = [l \in Legs |-> {}]
  /\ \E odd \in Oddities :
       /\ quiet = odd.quiet /\ numeric = Legs \ odd.bad
       /\ media = [l \in Legs |-> [waits |-> l \in odd.waits, bridged |-> FALSE]]
  /\ state = [l \in Legs |-> "none"]
  /\ holds = [l \in Legs |-> 0] /\ records = [l \in Legs |-> 0]
  /\ recording = [l \in Legs |-> FALSE]
  /\ rec = [l \in Legs |-> NoSpan]
  /\ queue = <<>> /\ job = NoJob /\ leaked = {}
  /\ req = [r \in Requests |-> Idle]
  /\ view = [l \in Legs |-> IF Overheard(l) THEN "active" ELSE "none"]
  /\ span = [l \in Legs |-> NoSpan]
  /\ told = [l \in Legs |-> "none"]
  /\ behind = {} /\ late = {}

-----------------------------------------------------------------------------
(* The core.                                                               *)

\* The bound on the holds and recordings of a leg.
MayChange(l) == holds[l] + records[l] < MaxChanges[l]

\* switch_event_fire.
Fire(ev) == Len(queue) < MaxQueue /\ queue' = Append(queue, ev)

\* A leg that eavesdrops is made for an agent's leg that is up.
Create(l) ==
  /\ chan[l] = "none"
  /\ Agent[l] # Nobody => Located(Agent[l])
  /\ chan' = [chan EXCEPT ![l] = "ringing"]
  /\ Fire(Event("CREATE", l))
  /\ UNCHANGED <<flags, quiet, numeric, media, state, holds, records, recording, rec,
                 job, leaked, req, viewVars, behind, late>>

Answer(l) ==
  /\ chan[l] = "ringing"
  /\ chan' = [chan EXCEPT ![l] = "answered"]
  /\ Fire(Event("ANSWER", l))
  /\ UNCHANGED <<flags, quiet, numeric, media, state, holds, records, recording, rec,
                 job, leaked, req, viewVars, behind, late>>

\* switch_core_media_toggle_hold of a leg that was answered; a leg that is held, or
\* not held, stays as it is.
ToggleHold(l, on) ==
  IF on
  THEN IF chan[l] \notin {"none", "ringing"} /\ "PROTO_HOLD" \notin flags[l]
       THEN /\ flags' = [flags EXCEPT ![l] = @ \cup {"PROTO_HOLD", "LEG_HOLDING"}]
            /\ IF "LEG_HOLDING" \in flags[l] THEN UNCHANGED queue ELSE Fire(Event("HOLD", l))
       ELSE UNCHANGED <<flags, queue>>
  ELSE IF "PROTO_HOLD" \in flags[l]
       THEN /\ flags' = [flags EXCEPT ![l] = @ \ {"PROTO_HOLD", "LEG_HOLDING"}]
            /\ IF "LEG_HOLDING" \in flags[l] THEN Fire(Event("UNHOLD", l)) ELSE UNCHANGED queue
       ELSE UNCHANGED <<flags, queue>>

\* The phone puts the call on hold and takes it back.
PhoneHold(l, on) ==
  /\ chan[l] = "answered"
  /\ on => MayChange(l)
  /\ ("PROTO_HOLD" \in flags[l]) # on
  /\ ToggleHold(l, on)
  /\ holds' = IF on THEN [holds EXCEPT ![l] = @ + 1] ELSE holds
  /\ UNCHANGED <<chan, quiet, numeric, media, state, records, recording, rec, job, leaked, req,
                 viewVars, behind, late>>

StartRecord(l) ==
  /\ chan[l] = "answered" /\ ~recording[l] /\ MayChange(l)
  /\ recording' = [recording EXCEPT ![l] = TRUE]
  /\ records' = [records EXCEPT ![l] = @ + 1]
  /\ Fire(RecordEvent("RECORD_START", l, records[l] + 1))
  /\ UNCHANGED <<chan, flags, quiet, numeric, media, state, holds, rec, job, leaked, req, viewVars,
                 behind, late>>

\* On demand, or since the leg has hung up.
StopRecord(l) ==
  /\ recording[l]
  /\ recording' = [recording EXCEPT ![l] = FALSE]
  /\ Fire(RecordEvent("RECORD_STOP", l, records[l]))
  /\ UNCHANGED <<chan, flags, quiet, numeric, media, state, holds, records, rec, job, leaked, req,
                 viewVars, behind, late>>

\* The first bridge of a leg; bounded: only of one whose recordings wait for it.
Bridge(l) ==
  /\ chan[l] = "answered" /\ media[l].waits /\ ~media[l].bridged
  /\ media' = [media EXCEPT ![l].bridged = TRUE]
  /\ UNCHANGED <<chan, flags, quiet, numeric, state, holds, records, recording, rec, queue, job, leaked,
                 req, viewVars, behind, late>>

\* A hangup takes a held leg off hold, with the event, before it marks it as held
\* and hung up: CF_PROTO_HOLD stays.
BeginHangup(l) ==
  /\ chan[l] \in {"ringing", "answered"}
  /\ IF "LEG_HOLDING" \in flags[l]
     THEN /\ chan' = [chan EXCEPT ![l] = "unholding"]
          /\ flags' = [flags EXCEPT ![l] = @ \ {"LEG_HOLDING"}]
          /\ Fire(Event("UNHOLD", l))
     ELSE /\ chan' = [chan EXCEPT ![l] = "hungup"]
          /\ UNCHANGED <<flags, queue>>
  /\ UNCHANGED <<quiet, numeric, media, state, holds, records, recording, rec, job, leaked, req,
                 viewVars,
                 behind, late>>

MarkHeld(l) ==
  /\ chan[l] = "unholding"
  /\ chan' = [chan EXCEPT ![l] = "hungup"]
  /\ flags' = [flags EXCEPT ![l] = @ \cup {"HANGUP_HELD"}]
  /\ UNCHANGED <<quiet, numeric, media, state, holds, records, recording, rec, queue, job, leaked, req,
                 viewVars, behind, late>>

\* CHANNEL_HANGUP_COMPLETE carries the leg's variables as they are now.
ReportHangup(l) ==
  /\ chan[l] = "hungup" /\ ~recording[l]
  /\ chan' = [chan EXCEPT ![l] = "reported"]
  /\ Fire(HangupEvent(l))
  /\ behind' = IF \E i \in DOMAIN queue :
                     queue[i].leg = l /\ queue[i].kind \in {"RECORD_START", "RECORD_STOP"}
               THEN behind \cup {l} ELSE behind
  /\ UNCHANGED <<flags, quiet, numeric, media, state, holds, records, recording, rec, job, leaked, req,
                 viewVars, late>>

\* The session is destroyed when nobody holds its read lock any more.
Destroy(l) ==
  /\ chan[l] = "reported" /\ ~Locked(l)
  /\ chan' = [chan EXCEPT ![l] = "destroyed"]
  /\ UNCHANGED <<flags, quiet, numeric, media, state, holds, records, recording, rec, queue, job,
                 leaked, req,
                 viewVars, behind, late>>

-----------------------------------------------------------------------------
(* API handlers: Hold, UnHold and SetEavesdropState.                       *)

\* The leg is found, and for Hold and UnHold its flag asks for the change.
Begin(r, l, kind) ==
  /\ req[r] = Idle /\ Located(l)
  /\ kind = "Hold" => "PROTO_HOLD" \notin flags[l] /\ MayChange(l)
  /\ kind = "UnHold" => "PROTO_HOLD" \in flags[l]
  /\ kind = "SetEavesdropState" => Agent[l] # Nobody /\ state[l] = "none"
  /\ req' = [req EXCEPT ![r] = [kind |-> kind, leg |-> l, lock |-> TRUE]]
  /\ holds' = IF kind = "Hold" THEN [holds EXCEPT ![l] = @ + 1] ELSE holds
  /\ UNCHANGED <<chan, flags, quiet, numeric, media, state, records, recording, rec, queue, job, leaked,
                 viewVars, behind, late>>

\* Hold and UnHold: the leg is held, or taken off hold, and unlocked.
SetHold(r) ==
  /\ req[r].kind \in {"Hold", "UnHold"}
  /\ ToggleHold(req[r].leg, req[r].kind = "Hold")
  /\ late' = IF chan[req[r].leg] = "reported" THEN late \cup {req[r].leg} ELSE late
  /\ req' = [req EXCEPT ![r] = Idle]
  /\ UNCHANGED <<chan, quiet, numeric, media, state, holds, records, recording, rec, job, leaked,
                 viewVars, behind>>

SetState(r) ==
  /\ req[r].kind = "SetEavesdropState" /\ req[r].lock
  /\ state' = [state EXCEPT ![req[r].leg] = "set"]
  /\ req' = [req EXCEPT ![r].lock = FALSE]
  /\ UNCHANGED <<chan, flags, quiet, numeric, media, holds, records, recording, rec, queue, job, leaked,
                 viewVars, behind, late>>

\* The event is fired after the lock was returned, possibly on a leg that is gone.
FireState(r) ==
  /\ req[r].kind = "SetEavesdropState" /\ ~req[r].lock
  /\ LET l == req[r].leg IN
       /\ Fire(EavesdropEvent(l, state[l], "own"))
       /\ late' = IF chan[l] \in {"reported", "destroyed"} THEN late \cup {l} ELSE late
  /\ req' = [req EXCEPT ![r] = Idle]
  /\ UNCHANGED <<coreVars, rec, job, leaked, viewVars, behind>>

-----------------------------------------------------------------------------
(* CallManager::handle_call_event, in the dispatcher's thread.             *)

Take(ev) ==
  /\ job = NoJob
  /\ ev = Head(queue)
  /\ queue' = Tail(queue)

\* Mutant: hangups of quiet legs are skipped like their other events.
SkippedAll(ev) == ev.leg \in quiet

Skipped(ev) == ev.leg \in quiet /\ ev.kind # "HANGUP"

\* notifyEavesdropPartner: the agent's leg, if it is still found, gets an event.
Notice(l, st, type) ==
  IF Agent[l] # Nobody /\ Located(Agent[l]) THEN EavesdropEvent(Agent[l], st, type) ELSE NoNotice

\* What the constructor of the report tells the agent's leg.
NoticeOf(ev) ==
  CASE ev.kind \in {"ANSWER", "UNHOLD"} -> Notice(ev.leg, ev.state, "joined")
    [] ev.kind = "HANGUP"              -> Notice(ev.leg, ev.state, "leave")
    [] ev.kind = "EAVESDROP"           -> Notice(ev.leg, ev.state, ev.state)
    [] OTHER                           -> NoNotice

Post(ev, lock) == job' = [pc |-> "post", event |-> ev, lock |-> lock, notice |-> NoticeOf(ev)]

\* Skipped by process_cdr; or the constructor throws on the user id, and the event is lost.
Drop(ev) ==
  /\ Take(ev)
  /\ \/ Skipped(ev)
     \/ ev.kind \in {"CREATE", "ANSWER", "HOLD", "HANGUP", "EAVESDROP"} /\ ev.leg \notin numeric
  /\ UNCHANGED <<coreVars, rec, job, leaked, req, viewVars, behind, late>>

Handle(ev) ==
  /\ Take(ev) /\ ~Skipped(ev)
  /\ ev.kind \in {"CREATE", "ANSWER", "HOLD", "HANGUP", "EAVESDROP"} /\ ev.leg \in numeric
  /\ Post(ev, FALSE)
  /\ UNCHANGED <<coreVars, rec, leaked, req, viewVars, behind, late>>

HandleUnhold(ev) ==
  /\ Take(ev) /\ ~Skipped(ev) /\ ev.kind = "UNHOLD"
  /\ job' = IF Located(ev.leg)
            THEN [pc |-> "test", event |-> ev, lock |-> TRUE, notice |-> NoNotice] ELSE NoJob
  /\ UNCHANGED <<coreVars, rec, leaked, req, viewVars, behind, late>>

\* Mutant: only the mark of the hangup is looked at.
TestUnholdHangup ==
  /\ job.pc = "test"
  /\ LET l == job.event.leg IN
       IF "HANGUP_HELD" \in flags[l]
       THEN job' = NoJob /\ UNCHANGED leaked
       ELSE IF l \in numeric THEN Post(job.event, TRUE) /\ UNCHANGED leaked
       ELSE job' = NoJob /\ leaked' = leaked \cup {l}
  /\ UNCHANGED <<coreVars, rec, queue, req, viewVars, behind, late>>

\* The flags as they are by now; an exception takes the lock with it.
TestUnhold ==
  /\ job.pc = "test"
  /\ LET l == job.event.leg IN
       IF {"HANGUP_HELD", "PROTO_HOLD"} \cap flags[l] # {}
       THEN job' = NoJob /\ UNCHANGED leaked
       ELSE IF l \in numeric THEN Post(job.event, TRUE) /\ UNCHANGED leaked
       ELSE job' = NoJob /\ leaked' = leaked \cup {l}
  /\ UNCHANGED <<coreVars, rec, queue, req, viewVars, behind, late>>

\* The first recording's start stays.
HandleRecordStart(ev) ==
  /\ Take(ev) /\ ~Skipped(ev) /\ ev.kind = "RECORD_START"
  /\ IF Located(ev.leg)
     THEN /\ rec' = IF rec[ev.leg].start = Unmarked THEN [rec EXCEPT ![ev.leg].start = ev.n] ELSE rec
          /\ UNCHANGED behind
     ELSE behind' = behind \cup {ev.leg} /\ UNCHANGED rec
  /\ UNCHANGED <<coreVars, job, leaked, req, viewVars, late>>

\* Mutant: a leg that has hung up is not looked for.
HandleRecordStopLocate(ev) ==
  /\ Take(ev) /\ ~Skipped(ev) /\ ev.kind = "RECORD_STOP"
  /\ rec' = IF Located(ev.leg) THEN [rec EXCEPT ![ev.leg].stop = ev.n] ELSE rec
  /\ UNCHANGED <<coreVars, job, leaked, req, viewVars, behind, late>>

\* The last recording's end; a recording often ends because the leg has hung up.
HandleRecordStop(ev) ==
  /\ Take(ev) /\ ~Skipped(ev) /\ ev.kind = "RECORD_STOP"
  /\ rec' = IF ForceLocated(ev.leg) THEN [rec EXCEPT ![ev.leg].stop = ev.n] ELSE rec
  /\ UNCHANGED <<coreVars, job, leaked, req, viewVars, behind, late>>

\* record_start and record_stop of a hangup report: a leg that records from its bridge on
\* begins then, if it was bridged.  A recording takes a second at least (record_seconds).
RecordOf(ev) ==
  CASE ev.rec.start = Unmarked -> NoSpan
    [] ev.rec.start # Unmarked /\ ev.media.waits ->
         [ev.rec EXCEPT !.start = IF ev.media.bridged THEN BridgeEpoch ELSE Unmarked]
    [] OTHER -> ev.rec

\* What the subscribers see of a report.
Report(ev) ==
  /\ view' = CASE ev.kind = "CREATE"               -> [view EXCEPT ![ev.leg] = "ringing"]
               [] ev.kind \in {"ANSWER", "UNHOLD"} -> [view EXCEPT ![ev.leg] = "active"]
               [] ev.kind = "HOLD"                 -> [view EXCEPT ![ev.leg] = "hold"]
               [] ev.kind = "HANGUP"               -> [view EXCEPT ![ev.leg] = "hangup"]
               [] OTHER                            -> view
  /\ span' = IF ev.kind = "HANGUP" THEN [span EXCEPT ![ev.leg] = RecordOf(ev)] ELSE span
  /\ told' = IF ev.kind = "EAVESDROP" THEN [told EXCEPT ![ev.leg] = ev.type] ELSE told

\* Mutant: the agent's leg is told of nothing.
SendSilent ==
  /\ job.pc = "post"
  /\ Report(job.event)
  /\ job' = NoJob
  /\ UNCHANGED <<coreVars, rec, queue, leaked, req, behind, late>>

\* The notice and the report are fired, and the lock of an UNHOLD is returned.
Send ==
  /\ job.pc = "post"
  /\ queue' = IF job.notice = NoNotice THEN queue ELSE Append(queue, job.notice)
  /\ Report(job.event)
  /\ job' = NoJob
  /\ UNCHANGED <<coreVars, rec, leaked, req, behind, late>>

-----------------------------------------------------------------------------
Dispatch ==
  \/ /\ queue # <<>>
     /\ LET ev == Head(queue) IN
          Drop(ev) \/ Handle(ev) \/ HandleUnhold(ev) \/ HandleRecordStart(ev) \/ HandleRecordStop(ev)
  \/ TestUnhold
  \/ Send

Core(l) ==
  \/ Create(l) \/ Answer(l) \/ StartRecord(l) \/ StopRecord(l) \/ Bridge(l)
  \/ \E on \in BOOLEAN : PhoneHold(l, on)
  \/ BeginHangup(l) \/ MarkHeld(l) \/ ReportHangup(l) \/ Destroy(l)

Api(r) ==
  \/ \E l \in Legs, kind \in {"Hold", "UnHold", "SetEavesdropState"} : Begin(r, l, kind)
  \/ SetHold(r) \/ SetState(r) \/ FireState(r)

Next == Dispatch \/ (\E l \in Legs : Core(l)) \/ (\E r \in Requests : Api(r))

Spec == Init /\ [][Next]_vars

\* The dispatcher and the threads of the server run on; a leg that has hung up is
\* cleaned up by its thread.  Calls need not be made, answered or ended.
Fairness ==
  /\ WF_vars(Dispatch)
  /\ \A r \in Requests : WF_vars(SetHold(r)) /\ WF_vars(SetState(r)) /\ WF_vars(FireState(r))
  /\ \A l \in Legs :
       /\ WF_vars(MarkHeld(l)) /\ WF_vars(ReportHangup(l)) /\ WF_vars(Destroy(l))
       /\ WF_vars(chan[l] = "hungup" /\ StopRecord(l))

FairSpec == Spec /\ Fairness

-----------------------------------------------------------------------------
(* Properties.                                                             *)

\* Events of the leg that wait or are handled.
Pending(l, kinds) ==
  \/ \E i \in DOMAIN queue : queue[i].leg = l /\ queue[i].kind \in kinds
  \/ job # NoJob /\ job.event.leg = l /\ job.event.kind \in kinds
  \/ job # NoJob /\ job.notice.kind \in kinds /\ job.notice.leg = l

\* A subscriber's picture of a call catches up with it: with no event of an answered
\* leg left to handle, the last report says "hold" exactly when the leg is on hold,
\* however late the UNHOLD handler looks at the flags.  A leg that hung up while it
\* was held is not reported active by the UNHOLD event of its hangup.
ViewSettles ==
  \A l \in Legs :
    l \in numeric /\ l \notin quiet /\ ~Pending(l, {"ANSWER", "HOLD", "UNHOLD"}) =>
      /\ chan[l] = "answered" =>
           view[l] = IF "PROTO_HOLD" \in flags[l] THEN "hold" ELSE "active"
      /\ {"PROTO_HOLD", "HANGUP_HELD"} \subseteq flags[l] => view[l] # "active"

\* The only leg that eavesdrops on its agent's leg, which does not eavesdrop itself;
\* nobody eavesdrops on the eavesdropper.
Alone(l) ==
  /\ Agent[l] # Nobody /\ Agent[Agent[l]] = Nobody
  /\ \A m \in Legs \ {l} : Agent[m] \notin {l, Agent[l]}

\* The last thing an agent's leg is told of an eavesdropper that has hung up is that
\* it left, unless SetEavesdropState fired its event after the eavesdropper's report.
LeaveIsLast ==
  \A l \in Legs :
    LET a == Agent[l] IN
    /\ view[l] = "hangup" /\ l \notin late
    /\ Alone(l)
    /\ a \in numeric /\ a \notin quiet /\ Located(a)
    /\ ~Pending(a, {"EAVESDROP"})
    => told[a] = "leave"

\* What a hangup report has to say of the leg's recordings: the start of the first and
\* the end of the last, with the bridge for a start when they wait for it, and no start
\* when that never came.
Recorded(l) ==
  IF records[l] = 0 THEN NoSpan
  ELSE [start |-> CASE ~media[l].waits                     -> 1
                    [] media[l].waits /\ media[l].bridged  -> BridgeEpoch
                    [] media[l].waits /\ ~media[l].bridged -> Unmarked,
        stop  |-> records[l]]

\* The hangup report names the right span of the leg's recordings, whichever of their
\* events the dispatcher had handled by which time, and even of a recording that the
\* hangup ended; unless the dispatcher was too late with the RECORD events to have the
\* variables in the event of the hangup.
RecordSpan ==
  \A l \in Legs :
    view[l] = "hangup" /\ l \notin quiet /\ l \notin behind => span[l] = Recorded(l)

\* A leg that has hung up is destroyed at last, its hangup reported even when its
\* other events are skipped: the dispatcher and the handlers return its read lock on
\* every path but the exception of a user id that is no number.  Only a request that
\* found the leg before it hung up may put another report after that of the hangup.
HangupSettles ==
  \A l \in Legs :
    (chan[l] = "reported" /\ l \in numeric)
      ~> (chan[l] = "destroyed" /\ (view[l] = "hangup" \/ l \in late))
=============================================================================
