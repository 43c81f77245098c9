---------------------------- MODULE VoiceBotProofs ----------------------------
(***************************************************************************)
(* Theorems about VoiceBot, for all replies and every batch and chunk.     *)
(***************************************************************************)
EXTENDS VoiceBot, SequenceTheorems, TLAPS

\* Adding a frame to a batch that is not full keeps it short of a full one.
LEMMA NextBatch ==
  ASSUME NEW b \in 0..(Batch - 1) PROVE (b + 1) % Batch \in 0..(Batch - 1)
  BY InputsAssumption

\* A reply that is handled is newer than the last that asked to stop talking.
Newer ==
  /\ stopped <= received
  /\ reader = "chunk" => stopped < received

\* The reader takes the next reply or looks at the chunk or the flags of this one.
LEMMA ReplyTaken == ReaderReply => reader = "read" /\ reader' \in {"read", "chunk", "flags"}
<1> SUFFICES ASSUME ReaderReply PROVE reader = "read" /\ reader' \in {"read", "chunk", "flags"}
  OBVIOUS
<1>1. PICK r \in Replies : reader' = CASE r.chunk = "oversize" -> "read"
                                       [] r.chunk = "fits" -> "chunk"
                                       [] r.chunk = "none" -> "flags"
  BY DEF ReaderReply
<1>2. r.chunk \in {"none", "fits", "oversize"}
  BY InputsAssumption DEF ReplyFields
<1> QED
  BY <1>1, <1>2 DEF ReaderReply

LEMMA TypeInvariant == Spec => [](TypeOK /\ Newer)
<1> USE DEF TypeOK, Goto, appVars, readerVars, Newer
<1>1. Init => TypeOK /\ Newer
  <2>1. Init => up \in BOOLEAN /\ isBreak \in BOOLEAN
    BY DEF Init
  <2>2. Init => reply \in ReplyFields
    BY DEF Init, NoReply, ReplyFields
  <2>3. Init => batch \in 0..(Batch - 1) /\ frame \in 0..MaxReplies /\ received \in 0..MaxReplies
                /\ vars \in 0..MaxReplies /\ stopped \in 0..MaxReplies
    BY InputsAssumption DEF Init
  <2> QED
    BY <2>1, <2>2, <2>3 DEF Init
<1>2. TypeOK /\ Newer /\ [Next]_botVars => (TypeOK /\ Newer)'
  <2> SUFFICES ASSUME TypeOK, Newer, [Next]_botVars PROVE (TypeOK /\ Newer)'
    OBVIOUS
  <2>1. CASE ConnectFails
    BY <2>1 DEF ConnectFails
  <2>2. CASE Connect
    BY <2>2 DEF Connect
  <2>3. CASE CodecFails
    BY <2>3 DEF CodecFails
  <2>4. CASE Codec
    BY <2>4 DEF Codec
  <2>5. CASE Listen
    BY <2>5 DEF Listen
  <2>6. CASE AddRefused
    BY <2>6 DEF AddRefused
  <2>7. CASE AddBug
    BY <2>7 DEF AddBug
  <2>8. CASE LeaveLoop
    BY <2>8 DEF LeaveLoop
  <2>9. CASE ReadFrame
    <3>1. batch' \in 0..(Batch - 1)
      BY <2>9, NextBatch DEF ReadFrame
    <3> QED
      BY <2>9, <3>1 DEF ReadFrame
  <2>10. CASE WriteFails
    BY <2>10 DEF WriteFails
  <2>26. CASE Written
    BY <2>26 DEF Written
  <2>11. CASE TakeAudio
    <3>1. voiceLen' \in Nat
      BY <2>11 DEF TakeAudio
    <3>2. frame' \in 0..MaxReplies
      BY <2>11, InputsAssumption DEF TakeAudio
    <3>3. buffer' \in Seq(1..MaxReplies)
      BY <2>11, HeadTailProperties DEF TakeAudio
    <3> QED
      BY <2>11, <3>1, <3>2, <3>3 DEF TakeAudio
  <2>12. CASE FlushVars
    <3>1. vars' \in 0..MaxReplies
      BY <2>12, InputsAssumption DEF FlushVars
    <3> QED
      BY <2>12, <3>1 DEF FlushVars
  <2>13. CASE Break
    BY <2>13 DEF Break
  <2>14. CASE WriteFrame
    <3>1. frame' \in 0..MaxReplies /\ voiceLen' \in Nat
      BY <2>14, InputsAssumption DEF WriteFrame
    <3> QED
      BY <2>14, <3>1 DEF WriteFrame
  <2>15. CASE Cleanup
    BY <2>15 DEF Cleanup
  <2>16. CASE FinishCancel
    BY <2>16 DEF FinishCancel
  <2>17. CASE FinishJoin
    BY <2>17 DEF FinishJoin
  <2>18. CASE HangUp
    <3>1. up' \in BOOLEAN
      BY <2>18 DEF HangUp
    <3> QED
      BY <2>18, <3>1 DEF HangUp
  <2>19. CASE Destroy
    BY <2>19 DEF Destroy
  <2>20. CASE ReaderReply
    <3>1. received' \in 0..MaxReplies
      BY <2>20, InputsAssumption DEF ReaderReply
    <3>3. reply' \in ReplyFields
      BY <2>20, InputsAssumption DEF ReaderReply
    <3>4. reader' \in {"read", "chunk", "flags"}
      BY <2>20, ReplyTaken
    <3>5. UNCHANGED <<up, appVars, call, bug, batch, buffer, vars, isBreak, stopped>>
      BY <2>20 DEF ReaderReply
    <3>6. received' = received + 1
      BY <2>20 DEF ReaderReply
    <3> QED
      BY <3>1, <3>3, <3>4, <3>5, <3>6
  <2>21. CASE ReaderChunk
    <3>1. received \in 1..MaxReplies
      BY <2>21 DEF ReaderChunk
    <3>2. [i \in 1..Frames |-> received] \in Seq(1..MaxReplies)
      BY <3>1, InputsAssumption
    <3>3. buffer' \in Seq(1..MaxReplies)
      BY <2>21, <3>2, ConcatProperties DEF ReaderChunk
    <3> QED
      BY <2>21, <3>3 DEF ReaderChunk
  <2>22. CASE ReaderFlags
    <3>1. buffer' \in Seq(1..MaxReplies)
      BY <2>22, EmptySeq DEF ReaderFlags
    <3>2. stopped' \in 0..MaxReplies /\ vars' \in 0..MaxReplies
      BY <2>22 DEF ReaderFlags
    <3>3. reader' \in {"break", "read"}
      BY <2>22 DEF ReaderFlags
    <3> QED
      BY <2>22, <3>1, <3>2, <3>3 DEF ReaderFlags
  <2>23. CASE ReaderEof
    BY <2>23 DEF ReaderEof
  <2>24. CASE ReaderBreak
    BY <2>24 DEF ReaderBreak
  <2>25. CASE UNCHANGED botVars
    BY <2>25 DEF botVars
  <2> QED
    BY <2>1, <2>2, <2>3, <2>4, <2>5, <2>6, <2>7, <2>8, <2>9, <2>10,
       <2>11, <2>12, <2>13, <2>14, <2>15, <2>16, <2>17, <2>18, <2>19, <2>20,
       <2>21, <2>22, <2>23, <2>24, <2>25, <2>26
       DEF Next, Dial, SetUp, Turn, Write, Finish, Reader
<1>3. QED
  BY <1>1, <1>2, PTL DEF Spec

\* Every variable keeps its type: audio_buffer never holds a whole batch.
THEOREM TypeCorrect == Spec => []TypeOK
  BY TypeInvariant, PTL

-----------------------------------------------------------------------------
(* What the playback buffer holds.                                         *)

LEMMA AudioInvariant == Spec => []AudioAfterStop
<1> USE DEF TypeOK, Goto, appVars, readerVars, Newer, AudioAfterStop
<1>1. Init => AudioAfterStop
  BY DEF Init
<1>2. TypeOK /\ Newer /\ AudioAfterStop /\ [Next]_botVars => AudioAfterStop'
  <2> SUFFICES ASSUME TypeOK, Newer, AudioAfterStop, [Next]_botVars PROVE AudioAfterStop'
    OBVIOUS
  <2>1. CASE ConnectFails
    BY <2>1 DEF ConnectFails
  <2>2. CASE Connect
    BY <2>2 DEF Connect
  <2>3. CASE CodecFails
    BY <2>3 DEF CodecFails
  <2>4. CASE Codec
    BY <2>4 DEF Codec
  <2>5. CASE Listen
    BY <2>5 DEF Listen
  <2>6. CASE AddRefused
    BY <2>6 DEF AddRefused
  <2>7. CASE AddBug
    BY <2>7 DEF AddBug
  <2>8. CASE LeaveLoop
    BY <2>8 DEF LeaveLoop
  <2>9. CASE ReadFrame
    BY <2>9 DEF ReadFrame
  <2>10. CASE WriteFails
    BY <2>10 DEF WriteFails
  <2>26. CASE Written
    BY <2>26 DEF Written
  <2>11. CASE TakeAudio
    <3>1. CASE buffer = <<>>
      BY <2>11, <3>1 DEF TakeAudio
    <3>2. CASE buffer # <<>>
      <4>1. /\ Len(Tail(buffer)) = Len(buffer) - 1 /\ Len(buffer) \in Nat
            /\ \A i \in 1..Len(Tail(buffer)) : Tail(buffer)[i] = buffer[i + 1]
        BY <3>2, HeadTailProperties, LenProperties
      <4> QED
        BY <2>11, <3>2, <4>1 DEF TakeAudio
    <3> QED
      BY <3>1, <3>2
  <2>12. CASE FlushVars
    BY <2>12 DEF FlushVars
  <2>13. CASE Break
    BY <2>13 DEF Break
  <2>14. CASE WriteFrame
    BY <2>14 DEF WriteFrame
  <2>15. CASE Cleanup
    BY <2>15 DEF Cleanup
  <2>16. CASE FinishCancel
    BY <2>16 DEF FinishCancel
  <2>17. CASE FinishJoin
    BY <2>17 DEF FinishJoin
  <2>18. CASE HangUp
    BY <2>18 DEF HangUp
  <2>19. CASE Destroy
    BY <2>19 DEF Destroy
  <2>20. CASE ReaderReply
    BY <2>20 DEF ReaderReply
  <2>21. CASE ReaderChunk
    <3>1. received \in 1..MaxReplies /\ received > stopped /\ stopped' = stopped
      BY <2>21 DEF ReaderChunk
    <3> DEFINE new == [i \in 1..Frames |-> received]
    <3>2. new \in Seq(1..MaxReplies) /\ \A i \in 1..Len(new) : new[i] = received
      BY <3>1, InputsAssumption
    <3>3. \A i \in 1..Len(buffer \o new) :
            (buffer \o new)[i] = received \/ \E j \in 1..Len(buffer) : (buffer \o new)[i] = buffer[j]
      <4> HIDE DEF new
      <4> QED
        BY <3>2, ConcatProperties
    <3>4. buffer' = buffer \o new
      BY <2>21 DEF ReaderChunk
    <3> HIDE DEF new
    <3> QED
      BY <3>1, <3>3, <3>4
  <2>22. CASE ReaderFlags
    BY <2>22 DEF ReaderFlags
  <2>23. CASE ReaderEof
    BY <2>23 DEF ReaderEof
  <2>24. CASE ReaderBreak
    BY <2>24 DEF ReaderBreak
  <2>25. CASE UNCHANGED botVars
    BY <2>25 DEF botVars
  <2> QED
    BY <2>1, <2>2, <2>3, <2>4, <2>5, <2>6, <2>7, <2>8, <2>9, <2>10,
       <2>11, <2>12, <2>13, <2>14, <2>15, <2>16, <2>17, <2>18, <2>19, <2>20,
       <2>21, <2>22, <2>23, <2>24, <2>25, <2>26
       DEF Next, Dial, SetUp, Turn, Write, Finish, Reader
<1>3. QED
  BY <1>1, <1>2, TypeInvariant, PTL DEF Spec

\* Once the reader has handled a stop_talk no audio received up to it can be played.
THEOREM StopIsHeard == Spec => []AudioAfterStop
  BY AudioInvariant

-----------------------------------------------------------------------------
(* The life of the stream and its reader.                                  *)

InLoop == {"loop", "buffer", "vars", "check"}

\* Until the bug is added there is no reader, or the application is about to add it.
Before ==
  /\ pc \in {"connect", "codec", "listen", "add"} => bug = "none"
  /\ pc \in {"codec", "listen", "add"} => call = "open"
  /\ bug = "none" /\ pc # "add" => reader = "none"
  /\ pc = "connect" => call = "none"
  /\ call = "none" => reader = "none"

\* A bug that is linked goes with an open stream, one that was removed with a stream
\* that was finished, its reader joined, but for the two steps of Finish.
During ==
  /\ bug = "linked" => pc \in InLoop \cup {"write", "cleanup"} /\ call = "open"
  /\ pc = "write" => bug = "linked"
  /\ pc \in InLoop => bug \in {"linked", "removed"}
  /\ bug = "removed" /\ pc \notin {"finish", "join"} => reader = "exited" /\ call = "finishing"
  /\ pc \in {"finish", "join"} => bug = "removed"
  /\ pc = "finish" => call = "open"
  /\ pc = "join" => call = "finishing"

LEMMA PhaseInvariant == Spec => [](Before /\ During)
<1>1. Init => Before /\ During
  BY DEF Init, Before, During, InLoop
<1>2. TypeOK /\ Before /\ During /\ [Next]_botVars => (Before /\ During)'
  <2> SUFFICES ASSUME TypeOK, Before, During, [Next]_botVars PROVE (Before /\ During)'
    OBVIOUS
  <2> USE DEF TypeOK, Goto, appVars, readerVars, Before, During, InLoop
  <2>1. CASE ConnectFails
    BY <2>1 DEF ConnectFails
  <2>2. CASE Connect
    BY <2>2 DEF Connect
  <2>3. CASE CodecFails
    BY <2>3 DEF CodecFails
  <2>4. CASE Codec
    BY <2>4 DEF Codec
  <2>5. CASE Listen
    BY <2>5 DEF Listen
  <2>6. CASE AddRefused
    BY <2>6 DEF AddRefused
  <2>7. CASE AddBug
    BY <2>7 DEF AddBug
  <2>8. CASE LeaveLoop
    BY <2>8 DEF LeaveLoop
  <2>9. CASE ReadFrame
    BY <2>9 DEF ReadFrame
  <2>10. CASE WriteFails
    BY <2>10 DEF WriteFails
  <2>26. CASE Written
    BY <2>26 DEF Written
  <2>11. CASE TakeAudio
    BY <2>11 DEF TakeAudio
  <2>12. CASE FlushVars
    BY <2>12 DEF FlushVars
  <2>13. CASE Break
    BY <2>13 DEF Break
  <2>14. CASE WriteFrame
    BY <2>14 DEF WriteFrame
  <2>15. CASE Cleanup
    BY <2>15 DEF Cleanup
  <2>16. CASE FinishCancel
    BY <2>16 DEF FinishCancel
  <2>17. CASE FinishJoin
    BY <2>17 DEF FinishJoin
  <2>18. CASE HangUp
    BY <2>18 DEF HangUp
  <2>19. CASE Destroy
    BY <2>19 DEF Destroy
  <2>20. CASE ReaderReply
    BY <2>20 DEF ReaderReply
  <2>21. CASE ReaderChunk
    BY <2>21 DEF ReaderChunk
  <2>22. CASE ReaderFlags
    BY <2>22 DEF ReaderFlags
  <2>23. CASE ReaderEof
    BY <2>23 DEF ReaderEof
  <2>24. CASE ReaderBreak
    BY <2>24 DEF ReaderBreak
  <2>25. CASE UNCHANGED botVars
    BY <2>25 DEF botVars
  <2> QED
    BY <2>1, <2>2, <2>3, <2>4, <2>5, <2>6, <2>7, <2>8, <2>9, <2>10,
       <2>11, <2>12, <2>13, <2>14, <2>15, <2>16, <2>17, <2>18, <2>19, <2>20,
       <2>21, <2>22, <2>23, <2>24, <2>25, <2>26
       DEF Next, Dial, SetUp, Turn, Write, Finish, Reader
<1>3. QED
  BY <1>1, <1>2, TypeInvariant, PTL DEF Spec

\* When the application has returned the reader, which locks a mutex of the session's
\* pool, is gone, unless the core refused the bug.
THEOREM ReaderIsJoined == Spec => []NoReaderLeft
<1>1. TypeOK /\ Before /\ During => NoReaderLeft
  BY DEF TypeOK, Before, During, NoReaderLeft, InLoop
<1>2. QED
  BY PhaseInvariant, TypeInvariant, <1>1, PTL

\* The stream of the conversation lives as StreamLife says.
THEOREM LivesAsStream == Spec => StreamLives
<1>1. Init => Life!LifeInit
  BY DEF Init, Life!LifeInit
<1>2. TypeOK /\ Before /\ During /\ [Next]_botVars => [Life!LifeNext]_(Life!lifeVars)
  <2> SUFFICES ASSUME TypeOK, Before, During, [Next]_botVars
               PROVE  Life!LifeNext \/ UNCHANGED Life!lifeVars
    OBVIOUS
  <2> USE DEF Life!LifeNext, Life!lifeVars, Goto, appVars, readerVars
  <2>1. CASE ConnectFails
    <3>1. CASE call' = "open"
      <4>1. Life!Open("bot")
        BY <2>1, <3>1 DEF ConnectFails, Life!Open, Before
      <4> QED
        BY <4>1
    <3>2. CASE call' = "none"
      BY <2>1, <3>2 DEF ConnectFails, Before
    <3> QED
      BY <2>1, <3>1, <3>2 DEF ConnectFails
  <2>2. CASE Connect
    <3>1. Life!Open("bot")
      BY <2>2 DEF Connect, Life!Open, TypeOK, Before, During
    <3> QED
      BY <3>1
  <2>3. CASE CodecFails
    BY <2>3 DEF CodecFails
  <2>4. CASE Codec
    BY <2>4 DEF Codec
  <2>5. CASE Listen
    <3>1. Life!Spawn("bot")
      BY <2>5 DEF Listen, Life!Spawn, TypeOK, Before, During
    <3> QED
      BY <3>1
  <2>6. CASE AddRefused
    BY <2>6 DEF AddRefused
  <2>7. CASE AddBug
    BY <2>7 DEF AddBug
  <2>8. CASE LeaveLoop
    BY <2>8 DEF LeaveLoop
  <2>9. CASE ReadFrame
    BY <2>9 DEF ReadFrame
  <2>10. CASE WriteFails
    BY <2>10 DEF WriteFails
  <2>26. CASE Written
    BY <2>26 DEF Written
  <2>11. CASE TakeAudio
    BY <2>11 DEF TakeAudio
  <2>12. CASE FlushVars
    BY <2>12 DEF FlushVars
  <2>13. CASE Break
    BY <2>13 DEF Break
  <2>14. CASE WriteFrame
    BY <2>14 DEF WriteFrame
  <2>15. CASE Cleanup
    BY <2>15 DEF Cleanup
  <2>16. CASE FinishCancel
    <3>1. Life!Finish("bot")
      BY <2>16 DEF FinishCancel, Life!Finish, TypeOK, Before, During
    <3> QED
      BY <3>1
  <2>17. CASE FinishJoin
    BY <2>17 DEF FinishJoin
  <2>18. CASE HangUp
    BY <2>18 DEF HangUp
  <2>19. CASE Destroy
    BY <2>19 DEF Destroy
  <2>20. CASE ReaderReply
    BY <2>20, ReplyTaken DEF ReaderReply
  <2>21. CASE ReaderChunk
    BY <2>21 DEF ReaderChunk
  <2>22. CASE ReaderFlags
    BY <2>22 DEF ReaderFlags
  <2>23. CASE ReaderEof
    BY <2>23 DEF ReaderEof
  <2>24. CASE ReaderBreak
    <3>1. Life!Exit("bot")
      BY <2>24 DEF ReaderBreak, Life!Exit, TypeOK, Before, During
    <3> QED
      BY <3>1
  <2>25. CASE UNCHANGED botVars
    BY <2>25 DEF botVars
  <2> QED
    BY <2>1, <2>2, <2>3, <2>4, <2>5, <2>6, <2>7, <2>8, <2>9, <2>10,
       <2>11, <2>12, <2>13, <2>14, <2>15, <2>16, <2>17, <2>18, <2>19, <2>20,
       <2>21, <2>22, <2>23, <2>24, <2>25, <2>26
       DEF Next, Dial, SetUp, Turn, Write, Finish, Reader
<1>3. QED
  BY <1>1, <1>2, TypeInvariant, PhaseInvariant, PTL DEF Spec, StreamLives, Life!LifeSpec
=============================================================================
