# A TLA+ project for mod_grpc

`mod_grpc` is a FreeSWITCH module: a gRPC server that controls calls, an exporter of
call events, and a set of dialplan applications and API commands that couple a call's
audio to gRPC services (speech recognition, a voice bot, answering machine detection),
send push notifications and prepare text-to-speech files. It registers itself in Consul.
This directory holds TLA+ models of it, the TLC configurations that check them on small
instances, and proofs checked by TLAPS. The code is under `src/src/`; there are no tests,
and comments are its only documentation.

## 1. Inventory

| Component | State | Operations | Interacts with |
|---|---|---|---|
| Speech recognition: `uuid_wbt_stt`, `RecognizeCall` (`mod_grpc.cpp` 1620-1790, 2729-2905; `voice_bot_client.h` 190-332) | media bug and `__wbt_stt__` on the channel; `isBreak`, `interrupted`, `vars`, reader thread and gRPC stream in the call | start, stop; the INIT, READ and CLOSE callbacks; the reader's loop | API threads, the session's thread, one reader thread per stream |
| Voice bot: `wbt_voice_bot2`, `VoiceBotCall` (`mod_grpc.cpp` 1590-1620, 1795-1990; `voice_bot_client.h` 20-190) | playback buffer, `vars`, `isBreak`, the bug | the application's loop, the bug's callback, the reader's loop | session's thread, reader thread |
| Answering machine detection: `wbt_amd`, `AMDClient` (`mod_grpc.cpp` 1290-1480, 1995-2067; `amd_client.h`) | `dataReady`, the reply, `wbt_amd_ai*` variables | start, READ, CLOSE with its verdict; the reader | session's thread, reader thread, dialplan, caller |
| Service registration: `Cluster`, `Timer` | `stopped`, the timer's thread, the service in Consul | register, pass, deregister; wait, call, stop | Consul agent over HTTP, load and unload |
| Module lifecycle: load, `ServerImpl`, shutdown | handlers, subscriptions, gRPC server, clients | load, bind, unload | all others |
| Push hook: `wbt_send_hook`, `PushClient`, `ConfirmPush` | `CF_SLA_INTERCEPT` of the channel | hook, request, confirmation | push service, phones, gRPC threads |
| Event export: `CallManager`, `CallEvent` (`CallManager.cpp`, `Call.h`) | none of its own: it reads events, and the channels as they are when it handles them | one handler for each core event | core's dispatcher thread, subscribers |
| gRPC API handlers: `ApiServiceImpl` (`mod_grpc.cpp` 92-856) | none of its own: channels, variables and the read locks it holds | originate, hangup, bridge, transfer, hold, playback, eavesdrop, `ConfirmPush`, ... | gRPC thread pool, the threads of the legs, core |
| TTS files | handle, curl connection, result variables | open, read, close | player, HTTP server and cache |
| Voice bot hub cache | map from address to shared connection | look up, connect, store, clear | session threads, unload |
| Session state handlers, background noise, queue playback, screenshots | talk time, mixing buffers | callbacks of the core | core |

What is hard here is concurrency and partial failure, not data:

* A recognition is owned by nobody: API threads start and stop it, the session's thread
  ends it when the bot, a failed write, the silence detector or the hangup says so, and a
  reader thread goes on writing to the object that one of them is about to delete.
* A reader hands over results through flags, some with a lock and some without; the side
  that takes them looks at them in several steps.
* `Finish` joins a thread that may be blocked in `Read`, in the thread that runs the call.
* The callback of a bug writes to the stream in the thread that runs the call, with no deadline.
* Answer, verdict and hangup race in AMD; confirmation, service and timeout in the push
  hook; the phones, the core and the API when a call ends.
* Registration, timer and unload run in different threads against a Consul that may fail.
* An API handler works for milliseconds to a minute on legs that may hang up, be bridged or
  parked between any two of its steps; what keeps a leg's memory is its read lock, and a lock
  that is kept for ever keeps the leg for ever.
* Events are handled later than they happen, by a thread that looks at the leg again.

For each component the properties that make it correct are, in a sentence:

* recognition, voice bot, AMD: the stream's object is closed by exactly one thread, and only
  when its reader is gone; a stop silences; results reach the channel, in order, once; a
  hangup is not held up, as long as no write is;
* registration: a node that serves passes, a node that does not is not advertised, the timer
  does not outlive the object it calls;
* push: the call waits exactly until a confirmation or the timeout;
* event export: a hangup's report names the right side and does not contradict itself; the
  status that a subscriber sees settles on the call's own, whatever the delay;
* API handlers: no handler works on a leg that is gone, none keeps one, and what must be done
  before a bridge or after a minute of waiting is still right when it is done;
* TTS: every file has one result, and an honest one.

`PROJECT.json` lists the components and the hazards with their lines.

## 2. The modules

| Module | Models | Composition |
|---|---|---|
| `StreamLife` | abstract: what the owner of a gRPC stream promises | implemented by the next three |
| `Recognize` | speech recognition | `Life == INSTANCE StreamLife` |
| `VoiceBot` | voice bot | `Life == INSTANCE StreamLife` |
| `Amd` | answering machine detection | `Life == INSTANCE StreamLife` |
| `Cluster` | module life, Consul registration and its timer | |
| `HangupReport` | two legs, the `Hangup` handler and the report of `CallEvent<Hangup>` | |
| `CallEvents` | `CallManager::handle_call_event` in its thread, the core's queue, `Hold`, `UnHold`, `SetEavesdropState` | |
| `Calls` | the other handlers of `ApiServiceImpl` against the legs and their read locks | |
| `PushHook` | push hook, push service, phones, `ConfirmPush` | |
| `TtsPrepare` | TTS file against its server and player | |
| `MCRecognize`, `MCVoiceBot`, `MCCallEvents`, `MCCalls` | reply sets, legs, requests and symmetry for TLC | |
| `RecognizeProofs`, `VoiceBotProofs`, `AmdProofs`, `ClusterProofs`, `CallsProofs`, `PushHookProofs`, `TtsPrepareProofs` | theorems about the module of that name | extend it and TLAPS |
| `EventExportProofs` | theorems about the two models of the event export | extends `CallEvents`, `HangupReport` and TLAPS |

The three modules about calls look at the same handlers from three sides: `Calls` at locks and
lifetimes, `CallEvents` at what subscribers see while a call lasts, `HangupReport` at what they
are told at its end. A composition of all three would multiply their states and add no
interaction: what one sets and another reads (`grpc_send_hangup`, the transfer variables, the
hold flags) is in the module that states a property about it. The theorems about the last two are
in one module, so the definitions of `HangupReport` that have a namesake in `CallEvents` carry its
name (`HangupSpec`, `HangupNext`, `HangupTypeOK`).

Actions are as large as what one thread does between two points at which another thread can
see or change something it uses. Definitions that start with the comment `Mutant` are faulty
variants of the definition after them; they show that a property can be violated, and no
specification uses them.

### StreamLife

A stream is opened once, its reader runs only while the object exists, `Finish` is entered
once, and the object is deleted only after the reader has been joined. The three
applications implement it, each with its own mapping: `Recognize` for every start command,
`VoiceBot` and `Amd` for their one stream. `VoiceBot` never deletes its object explicitly.

### Recognize

One `Stream` per start command: it names the call, the bug and the reader it creates.

| Actions | Code |
|---|---|
| `Locate`, `Connect`, `Spawn`, `Listen`, `AddRefused`, `AddBug`, `Publish` | the start branch of `stt_api_function`; `AddBug` contains the INIT callback, which may fail in it |
| `StopClear`, `StopRemove` | the stop branch: read and clear the pointer, then remove the bug |
| `CloseMark`, `CloseCancel`, `CloseJoin` | the CLOSE callback, in whichever thread runs it, and `Finish`: cancel, join, delete |
| `Flush`, `CheckBreak`, `VadBreak`, `SendFrame`, `WriteReturns`, `NoFrame`, `Prune` | the READ callback, in order, and the core's pruning |
| `HangUp`, `RemoveAll`, `Destroy` | the end of the channel |
| `ReaderReply`, `ReaderApply`, `ReaderEof`, `ReaderBreak` | the thread of `RecognizeCall::Listen` |

`SendFrame` hands a frame to the synchronous `Write`, which has no deadline; `WriteReturns` is the
step in which it succeeds or fails, and nothing makes it happen.

`vars` holds the number of the reply whose variables wait, so that their order is visible;
what the variables are is abstracted, and so are audio and resampling.

### VoiceBot

`Dial` and `SetUp` are the start of the application; `Turn` is one round of its loop: `ReadFrame`
(with the bug's callback inside, which calls `Write` for a full batch), `TakeAudio`, `FlushVars`,
`Break`. The `Write` returns, if it does, with `Written` or `WriteFails`, and the latter closes the
bug. `Cleanup` and `Finish` end the application. The playback buffer is a sequence with,
for each whole frame, the number of the reply that brought it. The reader's handling of a
reply is split into the chunk and the flags, because `stop_talk` empties the buffer only
after the reply's own chunk was added. Chunks that are too large skip the whole reply.

### Amd

| Actions | Code |
|---|---|
| `Rejected`, `Open`, `Listen`, `AddRefused`, `AddBug` | `wbt_amd_function` and the INIT callback |
| `SendFrame`, `WriteReturns`; `Finished`, `MaxSilence`, `NotFinished` | the READ callback: the frame is written, then `dataReady` and the silence are looked at |
| `FinishWrites`, `FinishStatus` | CLOSE: `Finish` |
| `Decide`, `Execute`, `Returns`, `Report`, `Tell`, `End` | the rest of CLOSE: the label, the positive application, `wbt_amd_ai` and the look at readiness, the flag and the event, the hangup |
| `ReaderReply`, `ReaderEof`, `ReaderReady`, `ServerEnds`, `Answer`, `HangUp`, `Destroy` | the reader, the service, the channel |

The steps of CLOSE are apart because the channel may be answered or hung up between any two of
them: the application may run for minutes, and the readiness that is read before the flag is used
for flag and event. `DoExecute` is `do_execute`, which both CLOSE and the error path of the
application call: it does nothing when `amd_on_positive` is not set, queues an application whose
name says so, and runs any other one in this thread, until `Returns`. History variables count the
events and applications and remember whether an application left the channel up.

### Cluster

Loading (`Load`, `Register`, `FirstPass`, `StartTimer`, `Bind`), unloading (`Unregister`,
`Stop`, `Join`, `Delete`), the timer's thread (`TimerFires`, `TimerCalls`, `TimerReturns`,
`TimerWakes`, `TimerWaitsAnew` for a spurious wake-up) and `Tick`, which moves time for the
timer and for Consul's TTL together.

### HangupReport

`HangupBy`, `SipFound` and `Outcome` are the three decisions of `CallEvent<Hangup>`; `ReportEnd`
applies them to a leg that has ended, with any cause and any headers. The `Hangup` handler is
split where the code releases nothing but other threads act: locate, set variables, hang up.
Only headers that the decisions read are kept.

### CallEvents

| Actions | Code |
|---|---|
| `Create`, `Answer`, `Bridge`, `PhoneHold`, `StartRecord`, `StopRecord`, `BeginHangup`, `MarkHeld`, `ReportHangup`, `Destroy` | the core: each changes the leg and queues the core's event with the leg's variables |
| `Begin`, `SetHold` | `Hold` and `UnHold`: the leg is found and its flag tested, then held |
| `SetState`, `FireState` | `SetEavesdropState`: the variable under the lock, the event after it |
| `Drop`, `Handle`, `HandleUnhold`, `TestUnhold`, `HandleRecordStart`, `HandleRecordStop` | `handle_call_event`: an event skipped or lost in an exception, a report constructed, the flags tested, the recording's variables set |
| `Send` | `fire`: the notice to the agent's leg and the report |

The state is the legs as the core has them (`chan`, `flags`, `recording`), the queue, the event
in the dispatcher (`job`), the requests, the read locks that an exception took along
(`leaked`) and what subscribers know: the status of each leg (`view`), the recording that the
hangup named (`span`), the last notice of an eavesdropper (`told`). `quiet` legs have
`process_cdr` false; a leg that is not `numeric` has a user id on which `std::stoi` throws.
`media` holds, for each leg, whether its recordings wait for the answer
(`media_bug_answer_req`) and whether it has been bridged: `RecordOf` makes `record_start` and
`record_stop` from it and from the variables the RECORD handlers set.
Progress, bridge, DTMF and other reports change no status and are left out.

### Calls

| Actions | Code |
|---|---|
| `HangupFind`, `HangupLate`; `HangupManyFind`, `HangupManyHangup`; `LegHangsUp` | `Hangup`, which returns the lock first; `HangupMany`; `HangupMatchingVars`, which leaves the search to the core |
| `StopPlaybackFind`, `StopPlaybackWait`; `BroadcastFind`, `BroadcastWait`, `BroadcastPlay`; `QueueFind`, `QueuePlay` | playback, with its waits under the read lock |
| `BlindTransferFind`, `BlindTransferGo`; `BreakPark` | transfer to the dialplan, end of a parking |
| `SetStateFind`, `SetStateFire` | `SetEavesdropState`, which returns the lock before it fires its event on the channel |
| `Originate`, `OriginateFails`, `OriginateAnswered`, `OriginateCheck` | a new leg and the check of the leg it is for |
| `BridgeFind`, `BridgeAsk`, `BridgeFindB`, `BridgeWait` | `Bridge` |
| `BridgeCallFind`, `BridgeCallFrom`, `BridgeCallTo`, `BridgeCallRecord`, `BridgeCallBridge` | `BridgeCall`: both legs locked, the links of their partners, the recording, the bridge |

A leg is up, hung up (no longer found, unless by force) or destroyed; it has a partner, it
plays or is parked, it may have a recording. A bridge that `switch_ivr_uuid_bridge` accepted
waits in `bridges` until the legs' threads make it (`MakeBridge`), which hangs up the former
partners. A request that finds nothing answers at once and changes nothing; it is not modelled.

### PushHook

`Begin`, `SendReturns` / `Deadline` / `ServiceAnswers`, `Poll` and `Clear` are the application
`wbr_send_hook_function`. A push is `sent`, `delivered`, `located` (the handler has the
session), `confirmed` (it set the flag) or `refused` (the channel was gone), whenever that
happens, also in a later run of the application.

### TtsPrepare

Open (`OpenCached`, `OpenFails`, `OpenConnected`), one action for each outcome of a read, and
`Close`. The ten reads without data that a file tolerates are the constant `MaxUnavailable`; an
error of `recv` other than these ends the file at once (`ReadInterrupted`). The
text of the request, the frame size and a player without sample rate are abstracted.

### Assumed of the code outside `src/`

* The core unlinks a media bug exactly once, by `switch_core_media_bug_remove`, by pruning
  after a callback returned false, or by `remove_all`; only who unlinks it runs CLOSE. Callbacks
  of READ run under the bugs' read lock, removal waits for it.
* `switch_core_media_bug_add` is atomic and fails on a channel without media.
* `switch_core_session_locate` fails on a channel that was hung up, and holds a read lock; a
  session is destroyed only when nobody holds it, after its bugs were removed.
* `TryCancel` makes a blocked `Read` return false; a stream that ended returns false.
* mod_sofia leaves the disposition of the last message in `sip_hangup_disposition`; the core
  never refuses the callee's leg, it cancels it.
* `switch_channel_wait_for_flag` polls the flag, then the channel, then its time.
* The core has one dispatcher thread that runs the handlers of bound events in order, and waits
  with a new event while its queue is full. Under load it may start more of them, which would
  put events of one leg out of order: the module does nothing about it, and it is left out.
* Putting a leg on or off hold is one step; a hangup takes a held leg off hold, with the event,
  and marks it with `CF_HANGUP_HELD` after that.
* `switch_ivr_uuid_bridge` returns once both legs were found; the bridge itself, and the hangup
  of former partners, happens in the legs' threads later, or never.
* The player ends a file at the first status that is not success, and closes files that opened.

## 3. What the runs show

| Run | Instance | Properties |
|---|---|---|
| `recognize_threads` | 2 starts, 2 stops, 1 final reply each; 552k states | `OneCloser`, `StopSilences`, `StopReaches`, `NothingLeft`, `FinalReported` |
| `recognize_stream` | 1 start, 1 stop, 2 replies of all 8 kinds, detector off or 2 frames, fairness; 186k | `NoUseAfterFree`, `BargeInHonoured`, `VarsInOrder`, `VadBreaksInSilence`, `StreamLives`, `FinalEndsBug`, `HangupDestroys` |
| `recognize_break` | 1 start, 1 stop, 2 replies | `BreakConsumesVars` is violated, see Findings |
| `voicebot` | 3 replies of all kinds, chunks and writes of 2 frames, fairness; 167k | `AudioAfterStop`, `NoReaderLeft`, `StreamLives`, `ConversationEnds` |
| `voicebot_break` | 2 replies, one purpose each | `EndConsumesVars` is violated, see Findings |
| `amd` | a person, a machine and the labels of the code, with an application unset, run or queued; fairness; 3.2k | `HangsUpOnVerdict`, `PositiveHonest`, `StreamLives`, `VerdictReported` |
| `cluster` | TTL 4, deregistration after 3 ticks, fairness; 653 | `PassingWhileServing`, `TimerUsesLiveCluster`, `NotAdvertisedDead`, `UnloadCompletes` |
| `hangup_report` | 5 causes, codes 200 and 486; 30k | `RightSideNamed`, `OutcomeAgrees` |
| `call_events` | an agent's leg and a leg that eavesdrops, held or recorded twice or each once, odd in one way at most, 1 request at a time, queue of 2, fairness; 632k | `ViewSettles`, `LeaveIsLast`, `RecordSpan`, `HangupSettles` |
| `calls` | 2 bridged calls; 1 `BridgeCall` in one thread, 2 of the 10 other requests in another; fairness; 148k | `WorksOnLegs`, `TransferLinked`, `RecordingGoesOn`, `OriginateChecked`, `LegsFreed` |
| `push_hook` | 2 phones, 2 runs, waits of 2 polls, fairness; 40k | `OneWaitEach`, `TimeoutUnconfirmed`, `HookEnds` |
| `tts_prepare` | 3 files, 2 tolerated interruptions, codes 200, 404, 500, fairness; 12k | `FileSettled`, `AnswerEnds` |

Each property is stated in words above its definition. The type invariants are proved rather
than run, for any size (section 4). `CHECK_DEADLOCK FALSE` is set everywhere: calls end,
commands are finite, and the module stays unloaded.

**Bounds.** Two starts and two stops contain every race for the one pointer `__wbt_stt__`
and for one bug: a replaced pointer, two stops with the same pointer, a stop against the
start that publishes; a third of each only repeats them, and the proofs hold for any number.
Two replies (three for the bot) are the least in which one overtakes or replaces another. The
detector's two frames distinguish "not yet", "now" and "too late". The stream run keeps one
start so that every combination of flags and failures fits. Two push runs with two phones
contain the late and the double confirmation, which is what a flag can confuse; three files
are a failure, a success and one more; TTL 4 gives an interval of two ticks, so that the
timer can be in time, and late. Two calls of two legs are what one `BridgeCall` needs; another
thread that gets two requests (`MaxAsks`) can hang up, bridge or transfer one of the legs
before, between and after its steps. A leg that is held twice can be on hold again when the
dispatcher looks at the first `UNHOLD`, and a queue of two events (`MaxQueue`, with notices on
top) is enough for an event to wait behind another of the same leg. `MaxChanges` counts holds and
recordings together: two of them are two holds, two recordings, so that the first start is not
the last, or one of each. The oddities (`quiet`, a bad user id, recordings that wait for the
answer) come one at a time: each is a branch of its own in the code. Symmetry (start commands, stop commands) is
used only in `recognize_threads`, which has no temporal property.

**Fairness.** Only what the code or its runtime guarantees: a runnable thread runs, a timer
(`Listen`, `wait_for`, deadlines, polls) fires, frames keep coming while the channel is up
(the core calls each bug in turn, hence the one strong fairness of `Flush`), a cancelled
`Read` returns. What it does not guarantee is that a `Write` returns. All three applications write
in the session's thread, synchronously and without a deadline: the service that leaves a stream open
and stops reading blocks this thread by flow control, and the only cancel is in CLOSE, which
the same thread would have to run. So no fairness is assumed of `WriteReturns`, `Written` and
`WriteFails`, nor of the first write when the stream is opened, nor of AMD's positive application, which
runs in that thread too; and each liveness property of the three has a hypothesis, `[]<>` that the
thread is not in such a call. It is the most that holds: without it TLC shows the hangup held up for
ever. A service need not do anything else, with two exceptions that the code itself makes: AMD's
`Finish` neither cancels nor has a deadline, so the service must end a stream whose writes
are done; and requests to Consul have no timeout, so they must be answered at last. In the
models of calls the threads of the server and the dispatcher run on, and the core cleans up a
leg that hung up; nobody need hang up, answer, stop a playback or make a bridge. `Stop` of the
timer is strongly fair because it takes a mutex that the timer's thread releases again and again.

**Conditions inside properties.** `PassingWhileServing` and `NotAdvertisedDead` speak of
histories without a failed or slow request (`faulty`): a failed pass is only logged and a
failed deregistration is not repeated. `NothingLeft` and `NoReaderLeft` leave out a bug that
the core refuses or whose INIT fails: the code then leaks the call and its reader.
`StopReaches` leaves out a recognition whose pointer a later start replaced, and
`FinalReported` an INIT that failed after it had set `wbt_stt_final` to "false".
`FinalEndsBug`, `HangupDestroys`, `ConversationEnds` and `VerdictReported` have
the hypothesis about writes given above; `ConversationEnds` speaks of ends in replies that the
reader looks at, and not of one in a reply with too long a chunk, which is skipped as a whole.
`PositiveHonest` says of the channel what one look at it can promise: others may hang it up
between that look and the flag. `OutcomeAgrees` says nothing of a cause other than a normal clearing
that comes with the code 200.
`RightSideNamed` is about calls that one side asked to end. `WorksOnLegs` leaves out `Hangup` and
`SetEavesdropState` (`LateKinds`), which return the lock before they use the channel. `LeaveIsLast` and `HangupSettles` leave out
(`late`) a request that found the leg before it hung up and reports on it after its end: a
`Hold` in flight then has the last word with "hold", a `SetEavesdropState` with its own event.
`RecordSpan` leaves out (`behind`) a leg whose `RECORD` events still wait when its hangup is
reported: the report then lacks the span. It gives a recording that waits for the answer the bridge as
its start, and none without a bridge (`Recorded`), as `Call.h:861` does. `HangupSettles` leaves out legs with a user id that
is no number: the exception in the `UNHOLD` handler keeps their read lock for ever.
`TransferLinked` and `RecordingGoesOn` are about requests that bridge legs apart from each other
(`Apart` in `Calls`): two about the same legs overwrite each other's links, and nothing says which
should win. `MCCalls` states that its requests are `Apart`, and TLC evaluates it. `LeaveIsLast` is
about an agent whose leg one leg eavesdrops on and that eavesdrops on none itself (`Alone`): of two
eavesdroppers the last to act has the last word, and in a chain the notices that the agent's leg
gets are mixed with those it gives. The first attempt at a proof showed that without the second
half of `Alone` the property is false; TLC's two legs have no chain to show it. `OriginateChecked`
says what one look at the other leg can achieve: a leg that hangs up after the look is not
noticed. None of these exceptions contradicts a document or a comment, so they are hazards and
not findings.

### Findings

* `recognize_break`: the READ callback calls `flushVars` and then `breakStream`. The reader can
  store the variables of the final reply and set `isBreak` between the two; the callback then
  ends the bug, and CLOSE deletes the call with the result of the recognition in it. The
  comment at `src/src/mod_grpc.cpp:1730` says "This thread checks and consumes".
* `voicebot_break`: the same window in the voice bot's loop (`src/src/mod_grpc.cpp:1964`,
  comment at 1953).

## 4. Proofs

The theorems hold for every value of the constants that the named assumptions admit: any
number of commands and replies (`ThreadsAssumption`, `InputsAssumption`), any causes and codes,
any finite set of phones and any number of runs (`HooksAssumption`), any even number of ticks for
a TTL (`TtlAssumption`), any legs, bridges, threads and requests (`CallsAssumption`), any legs, agents, holds, recordings and
length of the queue (`AgentAssumption`), any labels,
replies, files and HTTP codes that the assumptions of `Amd`, `VoiceBot` and `TtsPrepare` admit.
Each proof module has a `TypeCorrect`, except `PushHookProofs`, whose `Shape` carries the types; that of `HangupReport` is
`HangupTypeCorrect`.

`RecognizeProofs`
: `TypeCorrect` (`TypeOK`), from `TypeInv`, which adds that every busy thread works on a
  stream. `MemorySafety` (`NoUseAfterFree`), `SingleCloser` (`OneCloser`) and `StopIsFinal`
  (`StopSilences`) from one inductive invariant, `Ownership`. None of the three is inductive:
  that a second CLOSE cannot start is a fact about who unlinked the bug, and that a reader does
  not survive its object about where the closing thread is. `Ownership` says, phase by phase, what
  a thread at each program point knows of its bug, its call and its reader (`StartPhase`,
  `ReadPhase`, `ClosePhase`), and what the pointers on the channel and in the stop commands may
  refer to (`Pointers`). `LivesAsStream` is the refinement: `Recognize` implements
  `StreamLife!LifeSpec` under the mapping `Life`; `Ownership` supplies the guards of the
  abstract actions. Three more invariants stand on these two. `Handed` follows the variables from
  the reader to the channel and yields `VariablesInOrder` (`VarsInOrder`): the number of a waiting
  reply is always above what was set. `Ended` says who still attends to each bug, and that a bug
  ended by a final reply had `isBreak` set, after `interrupted`: it yields `BargeInIsHonoured`,
  `FinalIsReported` and, with `Ownership`, `NothingIsLeft`. `Watched` (the pointer on the channel, the
  silence counted so far) yields `StopCanReach` (`StopReaches`) and `BreaksInSilence`
  (`VadBreaksInSilence`). So every safety property of the two passing runs is a theorem.

`VoiceBotProofs`
: `StopIsHeard` (`AudioAfterStop`): inductive with `Newer`, that the reply in the reader's hands is
  newer than the last `stop_talk`. `ReaderIsJoined` (`NoReaderLeft`) and `LivesAsStream`
  from `Before` and `During`, which tie the application's place, the bug, the stream and the reader
  together before and after the bug is added.

`AmdProofs`
: `OnlyOnVerdict` (`HangsUpOnVerdict`), `PositiveIsHonest` (`PositiveHonest`) and `LivesAsStream`
  from `AmdInv`: `Phases` and `ReaderPhases` are the lives of thread, bug, client and reader, `Quiet`
  says that nothing is reported before the verdict is told, and `Person` carries the decision through
  CLOSE, whatever the channel does between its steps: a call that will not be hung up is an answered one
  with a positive label, its application was handed over once if it is set, and a channel found down
  after it stays down, so that the later look at readiness finds it down, too.

`ClusterProofs`
: `TimerIsJoined` (`TimerUsesLiveCluster`), `DeadIsGone` (`NotAdvertisedDead`) and `AtMostOneLate`
  (`OneLatePass`) from `LifeInv`: `Phases`, `LastPass` and `Gone`. `ServesAndPasses`
  (`PassingWhileServing`) from `PassedInTime`, which bounds the age of the last pass by the time the
  timer has waited: it is where half of the TTL is enough and the whole of it is not.

`CallsProofs`
: `LocksProtect` (`WorksOnLegs`), from `LocksInv`: every handler other than the two of `LateKinds` holds
  the locks of the legs it works on (`Held`, over `Guarded`), and a locked leg is not destroyed (`Alive`); the second alone is not inductive
  without the first. `OriginateIsChecked` (`OriginateChecked`) from `MissedInv`: while an Originate
  looks for the leg it was made for, `missed` says that this leg is gone for good.
  `TransfersAreLinked` (`TransferLinked`) and, as an action property, `RecordingsGoOn`
  (`RecordingGoesOn`) from `LinksInv`, under the hypothesis `Apart`, which bounds neither the
  number of legs nor of requests. What such a property says of the end of a call was arranged some
  steps before, so the invariant carries it from step to step: `RequestsInv` says what `BridgeCall`
  has done by the time it is at each of its program points, `BridgesInv` that all of it lasts
  until the bridge is made, `SweptInv` that the leg which the bridge ended leaves with it. The
  three need `PartnersInv`: legs are partners of each other, up, and either from the
  beginning or because a request made them a pair. That every step of every handler and of the
  core leaves this alone is one lemma about steps (`Calm`); that two requests do not undo each
  other's work is where `Apart` is used.

`TtsPrepareProofs`
: `EveryFileSettled` (`FileSettled`), from `Counted` (results and files go together), `Grounded`
  (a 200 has a reason) and `Agreeing` (code and error text agree, no connection is left).

`EventExportProofs`, about `CallEvents`
: `ViewIsSettled` (`ViewSettles`), from `ShownInv`: as long as a leg is held, `HeldShown` says that
  the subscribers saw it or will: a `HOLD` in the queue with nothing after it that says otherwise, or
  one in the dispatcher, or the last status told, with an `UNHOLD` in the dispatcher only if its flags
  are still to be tested. `ActiveShown` is the same for a leg that talks. The property itself, about
  a queue without events of the leg, says nothing of the steps that empty the queue. That the flags
  fit the life of the leg is `FlagsInv`, what the dispatcher can have in its hands `JobInv`.
  `SpanIsWhole` (`RecordSpan`), from `RecordInv`: the starts in the queue are numbered in order and
  within what was recorded (`RecQueued`), the first start and the last stop are in the channel's
  variables or still to come (`RecFirst`, `RecLast`), and the event of the hangup has both
  (`RecReport`); that `media_bug_answer_req` is fixed and a leg once bridged stays marked makes the
  report's start the one `Recorded` asks for. `LeaveComesLast` (`LeaveIsLast`), from `LeaveInv`: behind the hangup event of an
  eavesdropper nothing in the queue tells its agent's leg of it, in the dispatcher the notice says "leave",
  and after its report that notice is the last in the queue or the last told. It needs
  `HangupInv`, that no report of a hangup precedes the hangup, and `AgentsInv`, that an agent's leg
  that an eavesdropper names exists and a request holds the lock of its leg. None of the
  three has a bound on legs, holds, recordings, requests or the queue. The lemmas they share
  say what it means for "the last event of a set in the queue" that an event is appended
  (`Grown`) or taken (`Shrunk`), and what the dispatcher's step makes of the first event
  (`TakeStep`): the order in the queue is stated with indices, so no induction over it is needed.
  TLC checked each of the invariants on the instance of `call_events` before it was proved, and on a
  part of a larger one (two recordings, two requests, a queue of 3; 7 million states).

`EventExportProofs`, about `HangupReport`
: `RightSide` (`RightSideNamed`), from `NamesInv`: until a leg is reported, its disposition or
  its gRPC mark shows exactly whether its own side asked (`AskedShows`), and once it is reported the
  report says so (`OwnSideNamed`). `Agreement` (`OutcomeAgrees`) rests on lemmas about `SipFound`
  and `Outcome`.

`PushHookProofs`
: `TimeoutIsUnconfirmed` (`TimeoutUnconfirmed`), from `Unseen`: a confirmation of the running
  push is still in the flag while its run sends or waits. `OneWait` (`OneWaitEach`), from
  `Budget`: the waits ended early, and one more if the flag is up, are never more than the
  confirmations; the proof counts finite sets. `Shape` carries the types, `TypeOK` included.

So every safety invariant and every safety action property that a passing run checks is also a
theorem, and so are the three refinements. Only model-checked is liveness, as fairness and ENABLED
are out of the prover's reach: `FinalEndsBug`, `HangupDestroys`, `ConversationEnds`,
`VerdictReported`, `UnloadCompletes`, `HookEnds`, `AnswerEnds`, `HangupSettles` and `LegsFreed`.

## 5. What is not modelled

Most lines of the repository are protobuf and gRPC code generated from the four files in
`src/src/protos/` (`src/src/generated/`, 40,962 of 46,514 lines of implementation): it
has no behaviour of its own to model. The program itself is the other 5,552 lines.

* Of the API: `Execute` runs any command of the core, `SetVariables` and `SetProfileVar` assign
  under the lock.
* Of the event export: the reports that change no status of a call, the bodies of all reports,
  the relay of SIP INFO.
* The hub cache: `clearVoiceBotCache` deletes what shared pointers own, which is wrong in every
  interleaving and needs no model to see; two callers that miss the cache at once make two
  connections, one of which is dropped.
* Session state handlers: one variable each. Background noise, queue playback, screenshots, audio
  data, resampling, argument and configuration parsing and JSON: data without control of interest.
* `wbt_voice_bot_function` is not registered as an application any more. Builds and CI.

In the lifecycle, the order of destructors other than those `Cluster` has is left out, and so is the
wait of `server_->Shutdown` for the handlers that still run: `UnloadCompletes` is about the timer
and Consul.

## 6. Plan

Done, in this order, because a wrong order here frees memory that a call still uses or loses
a caller: `StreamLife`, `Recognize` and its proofs; `VoiceBot`; `Amd`; `Cluster`;
`HangupReport`, `PushHook` with proofs; `TtsPrepare`; `CallEvents` and `Calls`; proofs of every
safety property of every module.

Worth doing next:

1. Safety companions of the liveness properties, which can be proved: that a read lock is kept by
   a running handler, by the dispatcher or by an exception and by nothing else, so that
   `HangupSettles` and `LegsFreed` rest on the progress of threads only.
2. Chains of eavesdroppers, and several on one leg: what the agent's leg may be told last.
3. The order of all destructors at unload, as an extension of `Cluster`, should the code give
   the hub cache an owner.
