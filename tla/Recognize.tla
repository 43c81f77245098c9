------------------------------ MODULE Recognize ------------------------------
(***************************************************************************)
(* Speech recognition on one channel (wbt_stt_start / stop).               *)
(*                                                                         *)
(* Threads: one per API command (a "start" or a "stop"), the session's own *)
(* thread, which runs the media bugs' callbacks while the channel is up    *)
(* and tears the channel down afterwards, and one reader thread per gRPC   *)
(* stream.  A start command names the RecognizeCall, the media bug and the *)
(* reader thread it creates, so all three are indexed by it.               *)
(***************************************************************************)
EXTENDS Integers, FiniteSets

CONSTANTS
  Streams,     \* the "start" commands of the run
  Stops,       \* the "stop" commands of the run
  Session,     \* the session's thread
  None,        \* no stream
  Replies,     \* the replies the bot may send
  MaxReplies,  \* bound: replies the bot sends on one stream
  VadTimeouts  \* the vadTimeout arguments, in audio frames; 0: no detector

Api     == Streams \cup Stops
Threads == Api \cup {Session}

ASSUME ThreadsAssumption ==
  /\ Streams \cap Stops = {}
  /\ Session \notin Api
  /\ None \notin Threads

ReplyFlags == [vars : BOOLEAN, interrupted : BOOLEAN, final : BOOLEAN]
NoReply    == [vars |-> FALSE, interrupted |-> FALSE, final |-> FALSE]

ASSUME InputsAssumption ==
  /\ Replies \subseteq ReplyFlags
  /\ MaxReplies \in Nat
  /\ VadTimeouts \subseteq Nat

VARIABLES
  up,       \* the channel has not been hung up
  pc,       \* pc[t]: where thread t is
  work,     \* work[t]: the bug (or call) thread t is working on
  private,  \* the channel's private "__wbt_stt__": a bug, or None
  bug,      \* bug[s]: "none", "linked", "pruned", "removed", "refused", "failed"
  call,     \* call[s]: "none", "open", "cancelled", "deleted"
  reader,   \* reader[s]: "none", "read", "apply", "break", "exited"
  ready,    \* ready[s]: the first reply was read
  isBreak,  \* isBreak[s]
  interrupted,  \* interrupted[s]
  reply,    \* reply[s]: flags of the last reply read
  received, \* received[s]: number of replies read, which numbers them
  vars,     \* vars[s]: the reply whose variables wait for flushVars, 0 if none
  applied,  \* applied[s]: the replies whose variables were set on the channel
  vad,      \* vad[s]: vad_timeout: 0 no detector, -1 talking was heard
  silence,  \* silence[s]: silence_ms, in frames
  sttFinal, \* channel variable wbt_stt_final
  sttError, \* wbt_stt_error: the stream whose detector set "vad_break", or None
  cut,      \* streams whose end broke the playback of the channel
  why,      \* history: why[s]: what made the bug end
  displaced \* history: bugs whose private pointer another command overwrote

threadVars  == <<up, pc, work>>
streamVars  == <<call, reader, ready, isBreak, interrupted, reply, received>>
channelVars == <<private, sttFinal, sttError, cut, displaced>>
audioVars   == <<vad, silence>>
recognizeVars ==
  <<threadVars, bug, streamVars, vars, applied, audioVars, channelVars, why>>

Closing == {"mark", "cancel", "join"}   \* inside CLOSE, or Finish on a failed start
Reading == {"check", "frame", "send"}   \* inside READ, under the bugs' read lock

TypeOK ==
  /\ up \in BOOLEAN
  /\ pc \in [Threads -> {"idle", "connect", "spawn", "listen", "add", "publish",
                         "clear", "remove", "prune", "done", "destroyed"}
                         \cup Closing \cup Reading]
  /\ work \in [Threads -> Streams \cup {None}]
  /\ private \in Streams \cup {None}
  /\ bug \in [Streams -> {"none", "linked", "pruned", "removed", "refused", "failed"}]
  /\ call \in [Streams -> {"none", "open", "cancelled", "deleted"}]
  /\ reader \in [Streams -> {"none", "read", "apply", "break", "exited"}]
  /\ ready \in [Streams -> BOOLEAN]
  /\ isBreak \in [Streams -> BOOLEAN]
  /\ interrupted \in [Streams -> BOOLEAN]
  /\ reply \in [Streams -> ReplyFlags]
  /\ received \in [Streams -> 0..MaxReplies]
  /\ vars \in [Streams -> 0..MaxReplies]
  /\ applied \in [Streams -> SUBSET (1..MaxReplies)]
  /\ vad \in [Streams -> Nat \cup {-1}]
  /\ silence \in [Streams -> Nat]
  /\ sttFinal \in {"unset", "false", "true"}
  /\ sttError \in Streams \cup {None}
  /\ cut \subseteq Streams
  /\ why \in [Streams -> {"none", "break", "vad", "write", "stop", "hangup"}]
  /\ displaced \subseteq Streams

Init ==
  /\ up = TRUE
  /\ pc = [t \in Threads |-> "idle"]
  /\ work = [t \in Threads |-> IF t \in Streams THEN t ELSE None]
  /\ private = None
  /\ bug = [s \in Streams |-> "none"]
  /\ call = [s \in Streams |-> "none"]
  /\ reader = [s \in Streams |-> "none"]
  /\ ready = [s \in Streams |-> FALSE]
  /\ isBreak = [s \in Streams |-> FALSE]
  /\ interrupted = [s \in Streams |-> FALSE]
  /\ reply = [s \in Streams |-> NoReply]
  /\ received = [s \in Streams |-> 0]
  /\ vars = [s \in Streams |-> 0]
  /\ applied = [s \in Streams |-> {}]
  /\ vad = [s \in Streams |-> 0]
  /\ silence = [s \in Streams |-> 0]
  /\ sttFinal = "unset"
  /\ sttError = None
  /\ cut = {}
  /\ why = [s \in Streams |-> "none"]
  /\ displaced = {}

Goto(t, from, to) == pc[t] = from /\ pc' = [pc EXCEPT ![t] = to]

-----------------------------------------------------------------------------
(* The "start" command.                                                    *)

\* The session is located, which holds its read lock until the command is done;
\* switch_core_session_locate fails on a channel that was hung up.
Locate(c) ==
  /\ c \in Api
  /\ Goto(c, "idle", IF ~up THEN "done" ELSE IF c \in Streams THEN "connect" ELSE "clear")
  /\ work' = IF up /\ c \in Stops THEN [work EXCEPT ![c] = private] ELSE work
  /\ UNCHANGED <<up, bug, streamVars, vars, applied, audioVars, channelVars, why>>

\* AsyncRecognize: the hub is connected and the first write succeeds, or the
\* command fails and its caller is told nothing.
Connect(s) ==
  \/ /\ Goto(s, "connect", "spawn")
     /\ call' = [call EXCEPT ![s] = "open"]
     /\ \E timeout \in VadTimeouts : vad' = [vad EXCEPT ![s] = timeout]
     /\ UNCHANGED <<up, work, bug, reader, ready, isBreak, interrupted, reply,
                    received, vars, applied, silence, channelVars, why>>
  \/ /\ Goto(s, "connect", "done")
     /\ UNCHANGED <<up, work, bug, streamVars, vars, applied, audioVars,
                    channelVars, why>>

\* Listen(5) starts the reader thread.
Spawn(s) ==
  /\ Goto(s, "spawn", "listen")
  /\ reader' = [reader EXCEPT ![s] = "read"]
  /\ UNCHANGED <<up, work, bug, call, ready, isBreak, interrupted, reply, received,
                 vars, applied, audioVars, channelVars, why>>

\* Mutant: no timer.
ListenForever(s) ==
  /\ ready[s] /\ Goto(s, "listen", "add")
  /\ UNCHANGED <<up, work, bug, streamVars, vars, applied, audioVars,
                 channelVars, why>>

\* It wakes on the first reply; the predicate is evaluated once more
\* when the timer fires, so only a stream that is not ready is given up.
Listen(s) ==
  /\ Goto(s, "listen", IF ready[s] THEN "add" ELSE "cancel")
  /\ UNCHANGED <<up, work, bug, streamVars, vars, applied, audioVars,
                 channelVars, why>>

\* The bug cannot be added: no media on the channel, or INIT, which has set
\* wbt_stt_final to "false" by then, fails to create the resampler.
AddRefused(s) ==
  /\ Goto(s, "add", "done")
  /\ \/ bug' = [bug EXCEPT ![s] = "refused"] /\ UNCHANGED <<sttFinal, sttError>>
     \/ /\ bug' = [bug EXCEPT ![s] = "failed"]
        /\ sttFinal' = "false" /\ sttError' = None
  /\ UNCHANGED <<up, work, streamVars, vars, applied, audioVars, private, cut,
                 displaced, why>>

\* INIT succeeds and the core links the bug.
AddBug(s) ==
  /\ up
  /\ Goto(s, "add", "publish")
  /\ bug' = [bug EXCEPT ![s] = "linked"]
  /\ sttFinal' = "false" /\ sttError' = None
  /\ UNCHANGED <<up, work, streamVars, vars, applied, audioVars, private, cut,
                 displaced, why>>

\* Mutant: the pointer is not stored.
PublishNothing(s) ==
  /\ Goto(s, "publish", "done")
  /\ UNCHANGED <<up, work, bug, streamVars, vars, applied, audioVars, channelVars, why>>

\* The pointer the next "stop" will find.
Publish(s) ==
  /\ Goto(s, "publish", "done")
  /\ private' = s
  /\ displaced' = displaced \cup ({private} \ {None})
  /\ UNCHANGED <<up, work, bug, streamVars, vars, applied, audioVars, sttFinal,
                 sttError, cut, why>>

-----------------------------------------------------------------------------
(* The "stop" command.                                                     *)

\* The pointer read by Locate's command is cleared by a second call, without
\* looking whether it is still the same.
StopClear(c) ==
  /\ c \in Stops
  /\ Goto(c, "clear", IF work[c] = None THEN "done" ELSE "remove")
  /\ private' = IF work[c] = None THEN private ELSE None
  /\ displaced' = IF work[c] = None THEN displaced
                  ELSE displaced \cup ({private} \ {None, work[c]})
  /\ UNCHANGED <<up, work, bug, streamVars, vars, applied, audioVars, sttFinal,
                 sttError, cut, why>>

\* Mutant: a bug that is no more on the session is closed again.
StopRemoveBlindly(c) ==
  /\ c \in Stops
  /\ pc[Session] \notin Reading
  /\ Goto(c, "remove", "mark")
  /\ bug' = [bug EXCEPT ![work[c]] = "removed"]
  /\ UNCHANGED <<up, work, streamVars, vars, applied, audioVars, channelVars, why>>

\* Mutant: a bug that waits for its pruning is left to it.
StopRemoveLinked(c) ==
  /\ c \in Stops
  /\ pc[Session] \notin Reading
  /\ LET linked == bug[work[c]] = "linked"
     IN /\ Goto(c, "remove", IF linked THEN "mark" ELSE "done")
        /\ bug' = IF linked THEN [bug EXCEPT ![work[c]] = "removed"] ELSE bug
  /\ UNCHANGED <<up, work, streamVars, vars, applied, audioVars, channelVars, why>>

\* switch_core_media_bug_remove takes the bugs' write lock, so no callback is
\* in READ; a bug that is linked no more is left alone.
StopRemove(c) ==
  /\ c \in Stops
  /\ pc[Session] \notin Reading
  /\ LET s == work[c]
         linked == bug[s] \in {"linked", "pruned"}
     IN /\ Goto(c, "remove", IF linked THEN "mark" ELSE "done")
        /\ bug' = IF linked THEN [bug EXCEPT ![s] = "removed"] ELSE bug
        /\ why' = IF bug[s] = "linked" THEN [why EXCEPT ![s] = "stop"] ELSE why
  /\ UNCHANGED <<up, work, streamVars, vars, applied, audioVars, channelVars>>

-----------------------------------------------------------------------------
(* CLOSE, in whichever thread unlinked the bug, and Finish.                *)

AfterClose(t) == IF t = Session THEN "idle" ELSE "done"

\* Mutant: wbt_stt_final is left as INIT set it.
CloseMarkNoFinal(t) ==
  /\ Goto(t, "mark", "cancel")
  /\ cut' = IF interrupted[work[t]] THEN cut \cup {work[t]} ELSE cut
  /\ UNCHANGED <<up, work, bug, streamVars, vars, applied, audioVars, private,
                 sttFinal, sttError, displaced, why>>

\* wbt_stt_final, and the barge-in the bot asked for.
CloseMark(t) ==
  /\ Goto(t, "mark", "cancel")
  /\ sttFinal' = "true"
  /\ cut' = IF interrupted[work[t]] THEN cut \cup {work[t]} ELSE cut
  /\ UNCHANGED <<up, work, bug, streamVars, vars, applied, audioVars, private,
                 sttError, displaced, why>>

\* Finish begins: TryCancel, WritesDone.
CloseCancel(t) ==
  /\ Goto(t, "cancel", "join")
  /\ call' = [call EXCEPT ![work[t]] = "cancelled"]
  /\ UNCHANGED <<up, work, bug, reader, ready, isBreak, interrupted, reply,
                 received, vars, applied, audioVars, channelVars, why>>

\* Mutant: the call is deleted without joining its reader.
CloseNoJoin(t) ==
  /\ Goto(t, "join", AfterClose(t))
  /\ call' = [call EXCEPT ![work[t]] = "deleted"]
  /\ UNCHANGED <<up, work, bug, reader, ready, isBreak, interrupted, reply,
                 received, vars, applied, audioVars, channelVars, why>>

\* Mutant: the call is finished and not deleted.
CloseNoDelete(t) ==
  /\ Goto(t, "join", AfterClose(t))
  /\ reader[work[t]] = "exited"
  /\ UNCHANGED <<up, work, bug, streamVars, vars, applied, audioVars, channelVars, why>>

\* The reader is joined and the call deleted.
CloseJoin(t) ==
  /\ Goto(t, "join", AfterClose(t))
  /\ reader[work[t]] = "exited"
  /\ call' = [call EXCEPT ![work[t]] = "deleted"]
  /\ UNCHANGED <<up, work, bug, reader, ready, isBreak, interrupted, reply,
                 received, vars, applied, audioVars, channelVars, why>>

-----------------------------------------------------------------------------
(* READ: one audio frame, in the session's thread.                         *)

\* Mutant: the flushed variables stay in the call.
FlushKeeps(s) ==
  /\ up /\ bug[s] = "linked"
  /\ Goto(Session, "idle", "check")
  /\ work' = [work EXCEPT ![Session] = s]
  /\ applied' = [applied EXCEPT ![s] = @ \cup ({vars[s]} \ {0})]
  /\ UNCHANGED <<up, bug, streamVars, vars, audioVars, channelVars, why>>

\* flushVars, and switch_channel_set_variable for each of them.
Flush(s) ==
  /\ up /\ bug[s] = "linked"
  /\ Goto(Session, "idle", "check")
  /\ work' = [work EXCEPT ![Session] = s]
  /\ applied' = [applied EXCEPT ![s] = @ \cup ({vars[s]} \ {0})]
  /\ vars' = [vars EXCEPT ![s] = 0]
  /\ UNCHANGED <<up, bug, streamVars, audioVars, channelVars, why>>

\* The callback returns SWITCH_FALSE and the core marks the bug for pruning.
ReturnFalse(s, reason) ==
  /\ bug' = [bug EXCEPT ![s] = "pruned"]
  /\ why' = [why EXCEPT ![s] = reason]

\* Mutant: the callback does not look at isBreak.
CheckNoBreak ==
  /\ Goto(Session, "check", "frame")
  /\ UNCHANGED <<up, work, bug, streamVars, vars, applied, audioVars, channelVars, why>>

CheckBreak ==
  LET s == work[Session] IN
  /\ Goto(Session, "check", IF isBreak[s] THEN "prune" ELSE "frame")
  /\ IF isBreak[s] THEN ReturnFalse(s, "break") ELSE UNCHANGED <<bug, why>>
  /\ UNCHANGED <<up, work, streamVars, vars, applied, audioVars, channelVars>>

\* Mutant: the timeout runs on after speech was heard.
VadBreakAlways ==
  LET s == work[Session] IN
  /\ Goto(Session, "frame", "prune")
  /\ vad[s] # 0 /\ silence[s] + 1 >= vad[s]
  /\ ReturnFalse(s, "vad")
  /\ silence' = [silence EXCEPT ![s] = @ + 1]
  /\ sttError' = s
  /\ cut' = cut \cup {s}
  /\ UNCHANGED <<up, work, streamVars, vars, applied, vad, private, sttFinal,
                 displaced>>

\* The detector has been silent for vad_timeout: the recognition is given up.
VadBreak ==
  LET s == work[Session] IN
  /\ Goto(Session, "frame", "prune")
  /\ vad[s] > 0 /\ silence[s] + 1 >= vad[s]
  /\ ReturnFalse(s, "vad")
  /\ silence' = [silence EXCEPT ![s] = @ + 1]
  /\ sttError' = s
  /\ cut' = cut \cup {s}
  /\ UNCHANGED <<up, work, streamVars, vars, applied, vad, private, sttFinal,
                 displaced>>

\* The frame is read, the detector, where there is one, hears speech or counts
\* more silence, and the frame is handed to rw->Write.
SendFrame ==
  LET s == work[Session] IN
  /\ Goto(Session, "frame", "send")
  /\ \/ vad[s] <= 0 /\ UNCHANGED audioVars
     \/ vad[s] > 0 /\ vad' = [vad EXCEPT ![s] = -1] /\ UNCHANGED silence
     \/ /\ vad[s] > 0 /\ silence[s] + 1 < vad[s]
        /\ silence' = [silence EXCEPT ![s] = @ + 1] /\ UNCHANGED vad
  /\ UNCHANGED <<up, work, bug, streamVars, vars, applied, channelVars, why>>

\* The synchronous Write returns when the stream's flow control has let the frame
\* pass, or fails on a stream that is over.  It has no deadline.
WriteReturns ==
  /\ \/ Goto(Session, "send", "idle") /\ UNCHANGED <<bug, why>>
     \/ Goto(Session, "send", "prune") /\ ReturnFalse(work[Session], "write")
  /\ UNCHANGED <<up, work, streamVars, vars, applied, audioVars, channelVars>>

\* switch_core_media_bug_read had no frame: the callback returns SWITCH_TRUE.
NoFrame ==
  /\ Goto(Session, "frame", "idle")
  /\ UNCHANGED <<up, work, bug, streamVars, vars, applied, audioVars,
                 channelVars, why>>

\* Mutant: the core closes the bug whether or not it is still on its list.
PruneBlindly ==
  /\ Goto(Session, "prune", "mark")
  /\ bug' = [bug EXCEPT ![work[Session]] = "removed"]
  /\ UNCHANGED <<up, work, streamVars, vars, applied, audioVars, channelVars, why>>

\* The core unlinks the pruned bug, unless a "stop" was faster.
Prune ==
  LET s == work[Session] IN
  /\ Goto(Session, "prune", IF bug[s] = "pruned" THEN "mark" ELSE "idle")
  /\ bug' = IF bug[s] = "pruned" THEN [bug EXCEPT ![s] = "removed"] ELSE bug
  /\ UNCHANGED <<up, work, streamVars, vars, applied, audioVars, channelVars, why>>

-----------------------------------------------------------------------------
(* Hangup: the session's thread removes every bug, then waits for the      *)
(* commands that hold the session's read lock.                             *)

HangUp ==
  /\ up /\ up' = FALSE
  /\ UNCHANGED <<pc, work, bug, streamVars, vars, applied, audioVars, channelVars, why>>

RemoveAll(s) ==
  /\ ~up /\ bug[s] = "linked"
  /\ Goto(Session, "idle", "mark")
  /\ work' = [work EXCEPT ![Session] = s]
  /\ bug' = [bug EXCEPT ![s] = "removed"]
  /\ why' = [why EXCEPT ![s] = "hangup"]
  /\ UNCHANGED <<up, streamVars, vars, applied, audioVars, channelVars>>

Destroy ==
  /\ ~up
  /\ \A s \in Streams : bug[s] # "linked"
  /\ \A c \in Api : pc[c] \in {"idle", "done"}
  /\ Goto(Session, "idle", "destroyed")
  /\ UNCHANGED <<up, work, bug, streamVars, vars, applied, audioVars, channelVars, why>>

-----------------------------------------------------------------------------
(* The reader thread of RecognizeCall::Listen.                             *)

\* Read returned a reply: ready is set and its variables, if any, replace the
\* ones the callback has not flushed yet.
ReaderReply(s) ==
  /\ reader[s] = "read" /\ received[s] < MaxReplies
  /\ \E r \in Replies :
       /\ reply' = [reply EXCEPT ![s] = r]
       /\ vars' = IF r.vars THEN [vars EXCEPT ![s] = received[s] + 1] ELSE vars
  /\ received' = [received EXCEPT ![s] = @ + 1]
  /\ ready' = [ready EXCEPT ![s] = TRUE]
  /\ reader' = [reader EXCEPT ![s] = "apply"]
  /\ UNCHANGED <<threadVars, bug, call, isBreak, interrupted, applied, audioVars,
                 channelVars, why>>

\* Mutant: a final reply leaves the loop before interrupted is stored.
ReaderApplyLate(s) ==
  /\ reader[s] = "apply"
  /\ interrupted' = IF reply[s].final THEN interrupted
                    ELSE [interrupted EXCEPT ![s] = reply[s].interrupted]
  /\ reader' = [reader EXCEPT ![s] = IF reply[s].final THEN "break" ELSE "read"]
  /\ UNCHANGED <<threadVars, bug, call, ready, isBreak, reply, received, vars,
                 applied, audioVars, channelVars, why>>

\* interrupted takes the reply's value; a final reply ends the loop.
ReaderApply(s) ==
  /\ reader[s] = "apply"
  /\ interrupted' = [interrupted EXCEPT ![s] = reply[s].interrupted]
  /\ reader' = [reader EXCEPT ![s] = IF reply[s].final THEN "break" ELSE "read"]
  /\ UNCHANGED <<threadVars, bug, call, ready, isBreak, reply, received, vars,
                 applied, audioVars, channelVars, why>>

\* Read returned false: the bot closed the stream, it broke, or it was cancelled.
ReaderEof(s) ==
  /\ reader[s] = "read"
  /\ reader' = [reader EXCEPT ![s] = "break"]
  /\ UNCHANGED <<threadVars, bug, call, ready, isBreak, interrupted, reply,
                 received, vars, applied, audioVars, channelVars, why>>

ReaderBreak(s) ==
  /\ reader[s] = "break"
  /\ isBreak' = [isBreak EXCEPT ![s] = TRUE]
  /\ reader' = [reader EXCEPT ![s] = "exited"]
  /\ UNCHANGED <<threadVars, bug, call, ready, interrupted, reply, received, vars,
                 applied, audioVars, channelVars, why>>

-----------------------------------------------------------------------------
Start(s)  == \/ Connect(s) \/ Spawn(s) \/ Listen(s)
             \/ AddRefused(s) \/ AddBug(s) \/ Publish(s)
Stop(c)   == StopClear(c) \/ StopRemove(c)
Close(t)  == CloseMark(t) \/ CloseCancel(t) \/ CloseJoin(t)
Reader(s) == ReaderReply(s) \/ ReaderApply(s) \/ ReaderEof(s) \/ ReaderBreak(s)
Frame     == \/ \E s \in Streams : Flush(s)
             \/ CheckBreak \/ VadBreak \/ SendFrame \/ WriteReturns \/ NoFrame
             \/ Prune
Teardown  == (\E s \in Streams : RemoveAll(s)) \/ Destroy

Next ==
  \/ \E c \in Api : Locate(c)
  \/ \E s \in Streams : Start(s) \/ Reader(s)
  \/ \E c \in Stops : Stop(c)
  \/ \E t \in Threads : Close(t)
  \/ Frame
  \/ HangUp
  \/ Teardown

Spec == Init /\ [][Next]_recognizeVars

(* Every thread keeps running; the timer of Listen fires; audio frames keep   *)
(* coming for every bug while the channel is up (the core calls each of them  *)
(* in turn); TryCancel makes the reader's Read return.  Nobody has to send    *)
(* a command, a reply or a hangup, and nothing makes a Write of this module   *)
(* return, neither that of a frame nor the first one of a start command       *)
(* (Connect): a bot that leaves the stream open and reads no more holds them. *)
Fairness ==
  /\ \A s \in Streams :
       /\ WF_recognizeVars(Spawn(s) \/ Listen(s) \/ AddRefused(s) \/ AddBug(s) \/ Publish(s))
       /\ WF_recognizeVars(ReaderApply(s))
       /\ WF_recognizeVars(ReaderBreak(s))
       /\ WF_recognizeVars(call[s] = "cancelled" /\ ReaderEof(s))
       /\ SF_recognizeVars(Flush(s))
       /\ WF_recognizeVars(RemoveAll(s))
  /\ \A c \in Stops : WF_recognizeVars(Stop(c))
  /\ \A t \in Threads : WF_recognizeVars(Close(t))
  /\ WF_recognizeVars(CheckBreak \/ VadBreak \/ SendFrame \/ NoFrame \/ Prune)
  /\ WF_recognizeVars(Destroy)

FairSpec == Spec /\ Fairness
-----------------------------------------------------------------------------
(* Properties.                                                             *)

\* A RecognizeCall is never used once it is deleted: not by the reader thread,
\* not by a READ callback, not by a command, not by a second CLOSE.
NoUseAfterFree ==
  \A s \in Streams : call[s] = "deleted" =>
    /\ reader[s] \in {"none", "exited"}
    /\ \A t \in Threads : work[t] = s =>
         pc[t] \notin Closing \cup Reading \cup {"spawn", "listen", "add"}

\* Finish and delete are run by one thread: the pruning session thread, a stop
\* command, the teardown or the start that gave up, but never by two of them.
OneCloser ==
  \A t, u \in Threads :
    pc[t] \in Closing /\ pc[u] \in Closing /\ work[t] = work[u] => t = u

\* A stop command that found a bug has silenced it when it returns: the bug is
\* off the session, although its CLOSE may still run in the session's thread.
StopSilences ==
  \A c \in Stops : pc[c] = "done" /\ work[c] # None => bug[work[c]] = "removed"

\* A running recognition can be stopped: its bug is the one in "__wbt_stt__", or
\* a stop is about to remove it, or another command raced with its own start or
\* stop and lost the pointer.
StopReaches ==
  \A s \in Streams : pc[s] = "done" /\ bug[s] = "linked" =>
    \/ private = s
    \/ s \in displaced
    \/ \E c \in Stops : pc[c] \in {"clear", "remove"} /\ work[c] = s

\* No bug and no call is left behind by a destroyed session, except the call of
\* a start whose bug the core refused.
NothingLeft ==
  pc[Session] = "destroyed" =>
    \A s \in Streams :
      /\ bug[s] # "linked"
      /\ call[s] \in {"none", "deleted"} \/ bug[s] \in {"refused", "failed"}

\* The dialplan waits for wbt_stt_final: when no recognition is running any more
\* it reads "true", unless an INIT set it to "false" and then failed.
FinalReported ==
  /\ \E s \in Streams : bug[s] = "removed"
  /\ \A s \in Streams : bug[s] \notin {"linked", "pruned", "failed"}
  /\ \A t \in Threads : pc[t] # "mark"
  => sttFinal = "true"

\* When the bot's last reply interrupts and the callback ends the bug because of
\* it, CLOSE, which reads the flag without a lock, sees it and breaks the playback.
BargeInHonoured ==
  \A s \in Streams :
    /\ why[s] = "break" /\ reply[s].interrupted /\ bug[s] = "removed"
    /\ \A t \in Threads : pc[t] = "mark" => work[t] # s
    => s \in cut

\* The variables of a reply are set at most once and never after those of a
\* later reply.
VarsInOrder ==
  \A s \in Streams : vars[s] # 0 => \A n \in applied[s] : n < vars[s]

\* The silence detector ends a recognition only when it never heard speech and
\* has waited for the whole timeout, and it never lets it run longer.
VadBreaksInSilence ==
  /\ sttError # None => vad[sttError] > 0 /\ silence[sttError] >= vad[sttError]
  /\ \A s \in Streams : bug[s] = "linked" /\ vad[s] > 0 => silence[s] < vad[s]

\* The callback consumes what the reader left before it ends the bug: what the
\* comment on its first line says.  It does not hold: the reader can store the
\* variables of a final reply and set isBreak between flushVars and breakStream.
BreakConsumesVars ==
  \A s \in Streams : bug[s] = "removed" /\ why[s] = "break" => vars[s] = 0

\* A gRPC stream of this module lives as StreamLife says.
Life == INSTANCE StreamLife WITH
  stream <- [s \in Streams |-> IF call[s] = "cancelled" THEN "finishing" ELSE call[s]],
  reader <- [s \in Streams |-> IF reader[s] \in {"read", "apply", "break"}
                               THEN "running" ELSE reader[s]]
StreamLives == Life!LifeSpec

\* A thread is in a Write to its bot.
Writing(t) == pc[t] \in {"connect", "send"}

\* A final reply, or the end of the stream, takes the bug off the channel, unless
\* the READ callback is in a Write that a bot never takes: only CLOSE, in this very
\* thread, would cancel it.
FinalEndsBug ==
  []<>~Writing(Session) =>
    \A s \in Streams : bug[s] = "linked" /\ isBreak[s] ~> bug[s] = "removed"

\* A hangup is held up by nothing but a Write that a bot never takes: not by a
\* command, a CLOSE or a reader.
HangupDestroys ==
  (\A t \in Threads : []<>~Writing(t)) => (~up ~> pc[Session] = "destroyed")
=============================================================================
