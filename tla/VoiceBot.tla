------------------------------- MODULE VoiceBot -------------------------------
(***************************************************************************)
(* The wbt_voice_bot2 application: a conversation with a bot over one gRPC *)
(* stream.  The session's thread runs the application's loop and, inside   *)
(* switch_core_session_read_frame, the media bug's callback; the reader    *)
(* thread of VoiceBotCall::Listen fills the playback buffer and vars.      *)
(***************************************************************************)
EXTENDS Integers, Sequences

CONSTANTS
  Replies,     \* the replies the bot may send
  MaxReplies,  \* bound: replies on the stream
  Frames,      \* audio frames in a chunk
  Batch        \* audio frames in one write to the bot (target_frame_size)

ReplyFields == [chunk : {"none", "fits", "oversize"},
                end : BOOLEAN, stop : BOOLEAN, vars : BOOLEAN]

ASSUME InputsAssumption ==
  /\ Replies \subseteq ReplyFields
  /\ MaxReplies \in Nat
  /\ Frames \in Nat \ {0}
  /\ Batch \in Nat \ {0}

VARIABLES
  up,        \* switch_channel_ready
  pc,        \* where the application is
  after,     \* where it goes on when Finish returns
  call,      \* "none", "open", "finishing"; the object is never deleted
  bug,       \* "none", "linked", "removed", "refused"
  batch,     \* frames in audio_buffer
  voiceLen,  \* frames that were in the buffer when this turn looked
  frame,     \* the reply the frame of this turn comes from, 0 for silence
  buffer,    \* the playback buffer: for each frame the reply that brought it
  reader,    \* "none", "read", "chunk", "flags", "break", "exited"
  reply,     \* the reply the reader handles
  received,  \* replies read; numbers them
  vars,      \* the reply whose variables wait for flushVars, 0 if none
  isBreak,
  stopped,   \* history: last reply that asked to stop talking
  left       \* history: why the loop was left

appVars    == <<pc, after, voiceLen, frame, left>>
readerVars == <<reader, reply, received, stopped>>
botVars == <<up, appVars, call, bug, batch, buffer, readerVars, vars, isBreak>>

NoReply == [chunk |-> "none", end |-> FALSE, stop |-> FALSE, vars |-> FALSE]

TypeOK ==
  /\ up \in BOOLEAN
  /\ pc \in {"connect", "codec", "listen", "add", "loop", "write", "buffer", "vars",
             "check", "cleanup", "finish", "join", "done", "destroyed"}
  /\ after \in {"buffer", "done"}
  /\ call \in {"none", "open", "finishing"}
  /\ bug \in {"none", "linked", "removed", "refused"}
  /\ batch \in 0..(Batch - 1)
  /\ voiceLen \in Nat
  /\ frame \in 0..MaxReplies
  /\ buffer \in Seq(1..MaxReplies)
  /\ reader \in {"none", "read", "chunk", "flags", "break", "exited"}
  /\ reply \in ReplyFields
  /\ received \in 0..MaxReplies
  /\ vars \in 0..MaxReplies
  /\ isBreak \in BOOLEAN
  /\ stopped \in 0..MaxReplies
  /\ left \in {"no", "failed", "hangup", "break"}

Init ==
  /\ up = TRUE
  /\ pc = "connect" /\ after = "done"
  /\ call = "none" /\ bug = "none"
  /\ batch = 0 /\ voiceLen = 0 /\ frame = 0 /\ buffer = <<>>
  /\ reader = "none" /\ reply = NoReply /\ received = 0
  /\ vars = 0 /\ isBreak = FALSE
  /\ stopped = 0 /\ left = "no"

Goto(from, to) == pc = from /\ pc' = to

-----------------------------------------------------------------------------
(* Setting up.                                                             *)

\* Mutant: the missing client is not noticed.
ConnectFailsUnseen ==
  /\ Goto("connect", "codec")
  /\ UNCHANGED <<up, after, call, bug, batch, voiceLen, frame, buffer, readerVars,
                 vars, isBreak, left>>

\* AsyncVoiceBotStream gives no client: not connected, or the first write failed
\* (the call is deleted), or the mutex or the buffer of an open call could not be
\* created (it is not).
ConnectFails ==
  /\ Goto("connect", "cleanup")
  /\ call' \in {"none", "open"}
  /\ left' = "failed"
  /\ UNCHANGED <<up, after, bug, batch, voiceLen, frame, buffer, readerVars, vars, isBreak>>

Connect ==
  /\ Goto("connect", "codec")
  /\ call' = "open"
  /\ UNCHANGED <<up, after, bug, batch, voiceLen, frame, buffer, readerVars, vars,
                 isBreak, left>>

CodecFails ==
  /\ Goto("codec", "cleanup")
  /\ left' = "failed"
  /\ UNCHANGED <<up, after, call, bug, batch, voiceLen, frame, buffer, readerVars,
                 vars, isBreak>>

Codec ==
  /\ Goto("codec", "listen")
  /\ UNCHANGED <<up, after, call, bug, batch, voiceLen, frame, buffer, readerVars,
                 vars, isBreak, left>>

Listen ==
  /\ Goto("listen", "add")
  /\ reader' = "read"
  /\ UNCHANGED <<up, after, call, bug, batch, voiceLen, frame, buffer, reply,
                 received, stopped, vars, isBreak, left>>

\* The reader of a refused bug keeps running.
AddRefused ==
  /\ Goto("add", "cleanup")
  /\ bug' = "refused"
  /\ left' = "failed"
  /\ UNCHANGED <<up, after, call, batch, voiceLen, frame, buffer, readerVars, vars,
                 isBreak>>

AddBug ==
  /\ up
  /\ Goto("add", "loop")
  /\ bug' = "linked"
  /\ UNCHANGED <<up, after, call, batch, voiceLen, frame, buffer, readerVars, vars,
                 isBreak, left>>

-----------------------------------------------------------------------------
(* The loop.                                                               *)

\* The channel is gone, or the frame could not be read.
LeaveLoop ==
  /\ Goto("loop", "cleanup")
  /\ left' = "hangup"
  /\ UNCHANGED <<up, after, call, bug, batch, voiceLen, frame, buffer, readerVars,
                 vars, isBreak>>

\* A frame is read; the callback adds it to audio_buffer and hands a full batch
\* to rw->Write.
ReadFrame ==
  /\ up
  /\ Goto("loop", IF bug = "linked" /\ batch + 1 = Batch THEN "write" ELSE "buffer")
  /\ batch' = IF bug = "linked" THEN (batch + 1) % Batch ELSE batch
  /\ UNCHANGED <<up, after, call, bug, voiceLen, frame, buffer, readerVars, vars,
                 isBreak, left>>

\* The synchronous Write, which has no deadline, returns when the stream's flow
\* control has let the batch pass.
Written ==
  /\ Goto("write", "buffer")
  /\ UNCHANGED <<up, after, call, bug, batch, voiceLen, frame, buffer, readerVars,
                 vars, isBreak, left>>

\* It fails on a stream that is over: the callback returns SWITCH_FALSE and the core
\* closes the bug before read_frame returns.
WriteFails ==
  /\ Goto("write", "finish")
  /\ after' = "buffer"
  /\ bug' = "removed"
  /\ UNCHANGED <<up, call, batch, voiceLen, frame, buffer, readerVars, vars, isBreak, left>>

\* One locked look at the buffer: a frame of it, or silence.
TakeAudio ==
  /\ Goto("buffer", "vars")
  /\ voiceLen' = Len(buffer)
  /\ frame' = IF buffer = <<>> THEN 0 ELSE Head(buffer)
  /\ buffer' = IF buffer = <<>> THEN buffer ELSE Tail(buffer)
  /\ UNCHANGED <<up, after, call, bug, batch, readerVars, vars, isBreak, left>>

FlushVars ==
  /\ Goto("vars", "check")
  /\ vars' = 0
  /\ UNCHANGED <<up, after, call, bug, batch, voiceLen, frame, buffer, readerVars,
                 isBreak, left>>

\* Mutant: the loop goes on as long as the channel does.
BreakNever ==
  /\ isBreak /\ voiceLen = 0
  /\ Goto("check", "loop")
  /\ frame' = 0
  /\ UNCHANGED <<up, after, call, bug, batch, voiceLen, buffer, readerVars, vars,
                 isBreak, left>>

\* The stream is over and, by the look before, the buffer was empty.
Break ==
  /\ isBreak /\ voiceLen = 0
  /\ Goto("check", "cleanup")
  /\ left' = "break"
  /\ UNCHANGED <<up, after, call, bug, batch, voiceLen, frame, buffer, readerVars,
                 vars, isBreak>>

WriteFrame ==
  /\ ~(isBreak /\ voiceLen = 0)
  /\ Goto("check", "loop")
  /\ frame' = 0 /\ voiceLen' = 0
  /\ UNCHANGED <<up, after, call, bug, batch, buffer, readerVars, vars, isBreak, left>>

\* bug_remove, when a bug was added; it closes only one that is still there.
Cleanup ==
  /\ Goto("cleanup", IF bug = "linked" THEN "finish" ELSE "done")
  /\ after' = "done"
  /\ bug' = IF bug = "linked" THEN "removed" ELSE bug
  /\ UNCHANGED <<up, call, batch, voiceLen, frame, buffer, readerVars, vars, isBreak, left>>

-----------------------------------------------------------------------------
(* CLOSE: VoiceBotCall::Finish.                                            *)

FinishCancel ==
  /\ Goto("finish", "join")
  /\ call' = "finishing"
  /\ UNCHANGED <<up, after, bug, batch, voiceLen, frame, buffer, readerVars, vars,
                 isBreak, left>>

\* Mutant: Finish does not join the reader.
FinishNoJoin ==
  /\ Goto("join", after)
  /\ UNCHANGED <<up, after, call, bug, batch, voiceLen, frame, buffer, readerVars,
                 vars, isBreak, left>>

FinishJoin ==
  /\ reader = "exited"
  /\ Goto("join", after)
  /\ UNCHANGED <<up, after, call, bug, batch, voiceLen, frame, buffer, readerVars,
                 vars, isBreak, left>>

-----------------------------------------------------------------------------
(* The channel.                                                            *)

HangUp ==
  /\ up /\ up' = FALSE
  /\ UNCHANGED <<appVars, call, bug, batch, buffer, readerVars, vars, isBreak>>

\* The session's pool, and with it the mutex of the playback buffer, is freed.
Destroy ==
  /\ ~up
  /\ Goto("done", "destroyed")
  /\ UNCHANGED <<up, after, call, bug, batch, voiceLen, frame, buffer, readerVars,
                 vars, isBreak, left>>

-----------------------------------------------------------------------------
(* The reader thread.                                                      *)

\* A reply whose chunk is too long is skipped as a whole.
ReaderReply ==
  /\ reader = "read" /\ received < MaxReplies
  /\ received' = received + 1
  /\ \E r \in Replies :
       /\ reader' = CASE r.chunk = "oversize" -> "read"
                      [] r.chunk = "fits" -> "chunk"
                      [] r.chunk = "none" -> "flags"
       /\ reply' = r
  /\ UNCHANGED <<up, appVars, call, bug, batch, buffer, vars, isBreak, stopped>>

ReaderChunk ==
  /\ reader = "chunk" /\ reader' = "flags"
  /\ buffer' = buffer \o [i \in 1..Frames |-> received]
  /\ UNCHANGED <<up, appVars, call, bug, batch, reply, received, stopped,
                 vars, isBreak>>

\* Mutant: stop_talk leaves the buffer as it is.
ReaderFlagsNoZero ==
  /\ reader = "flags"
  /\ reader' = IF reply.end THEN "break" ELSE "read"
  /\ stopped' = IF reply.stop /\ ~reply.end THEN received ELSE stopped
  /\ vars' = IF reply.vars /\ ~reply.stop /\ ~reply.end THEN received ELSE vars
  /\ UNCHANGED <<up, appVars, call, bug, batch, buffer, reply, received, isBreak>>

\* end_conversation, else stop_talk, which empties the buffer, else the variables,
\* which replace those not flushed yet.
ReaderFlags ==
  /\ reader = "flags"
  /\ reader' = IF reply.end THEN "break" ELSE "read"
  /\ buffer' = IF reply.stop /\ ~reply.end THEN <<>> ELSE buffer
  /\ stopped' = IF reply.stop /\ ~reply.end THEN received ELSE stopped
  /\ vars' = IF reply.vars /\ ~reply.stop /\ ~reply.end THEN received ELSE vars
  /\ UNCHANGED <<up, appVars, call, bug, batch, reply, received, isBreak>>

ReaderEof ==
  /\ reader = "read" /\ reader' = "break"
  /\ UNCHANGED <<up, appVars, call, bug, batch, buffer, reply, received, stopped,
                 vars, isBreak>>

ReaderBreak ==
  /\ reader = "break" /\ reader' = "exited"
  /\ isBreak' = TRUE
  /\ UNCHANGED <<up, appVars, call, bug, batch, buffer, reply, received, stopped,
                 vars>>

-----------------------------------------------------------------------------
Dial  == ConnectFails \/ Connect
SetUp == CodecFails \/ Codec \/ Listen \/ AddRefused \/ AddBug
Turn  == LeaveLoop \/ ReadFrame \/ TakeAudio \/ FlushVars \/ Break \/ WriteFrame
Write == Written \/ WriteFails
Finish == FinishCancel \/ FinishJoin
Reader == ReaderReply \/ ReaderChunk \/ ReaderFlags \/ ReaderEof \/ ReaderBreak

Next == Dial \/ SetUp \/ Turn \/ Write \/ Cleanup \/ Finish \/ HangUp \/ Destroy \/ Reader

Spec == Init /\ [][Next]_botVars

\* The session's thread runs and frames keep coming; the reader runs; TryCancel
\* ends its Read.  Nobody has to reply or to hang up, and nothing makes a Write
\* return, neither that of a batch (Write) nor the first one (Dial): a bot that
\* leaves the stream open and reads no more holds the application there.
Fairness ==
  /\ WF_botVars(SetUp \/ Turn \/ Cleanup \/ Finish \/ Destroy)
  /\ WF_botVars(ReaderChunk \/ ReaderFlags \/ ReaderBreak)
  /\ WF_botVars(call = "finishing" /\ ReaderEof)

FairSpec == Spec /\ Fairness
-----------------------------------------------------------------------------
(* Properties.                                                             *)

\* Once the reader has handled a stop_talk, no audio received up to it can be
\* taken for playback any more, although the loop takes frames concurrently.
AudioAfterStop == \A i \in 1..Len(buffer) : buffer[i] > stopped

\* When the application has returned, the reader, which locks a mutex of the
\* session's pool, is gone, unless the core refused the bug.
NoReaderLeft ==
  pc \in {"done", "destroyed"} /\ bug # "refused" => reader \in {"none", "exited"}

\* The loop consumes the variables before it ends the conversation: the comment
\* on flushVars.  The reader can store some and end between the two calls.
EndConsumesVars == left = "break" => vars = 0

\* The stream of the conversation lives as StreamLife says, and is never deleted.
Life == INSTANCE StreamLife WITH
  Streams <- {"bot"},
  stream <- [s \in {"bot"} |-> call],
  reader <- [s \in {"bot"} |-> IF reader \in {"read", "chunk", "flags", "break"}
                               THEN "running" ELSE reader]
StreamLives == Life!LifeSpec

\* A bot that says end_conversation, in a chunk that is not too long to be looked
\* at, is heard, and a failed write, which closes the bug inside the loop, ends the
\* loop too, by the break of the cancelled reader: the application returns, whatever
\* the caller does, unless it is in a Write that the bot never takes.
ConversationEnds ==
  []<>(pc # "write") =>
    ((reader = "flags" /\ reply.end) \/ pc = "finish" ~> pc \in {"done", "destroyed"})
=============================================================================
