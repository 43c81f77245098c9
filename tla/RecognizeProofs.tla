--------------------------- MODULE RecognizeProofs ---------------------------
(***************************************************************************)
(* Theorems about Recognize, for any number of commands and replies.       *)
(***************************************************************************)
EXTENDS Recognize, TLAPS

\* A start command works on its own stream, and a thread in a callback, in CLOSE
\* or about to remove a bug works on one.
Busy == Closing \cup Reading \cup {"prune", "remove"}
WorkOK ==
  /\ \A s \in Streams : work[s] = s
  /\ \A t \in Threads : pc[t] \in Busy => work[t] \in Streams
TypeInv == TypeOK /\ WorkOK

\* Types, and every busy thread has a stream to work on.
LEMMA TypeInvariant == Spec => []TypeInv
<1> USE ThreadsAssumption, InputsAssumption
    DEF Api, Threads, Closing, Reading, ReplyFlags, NoReply
<1>1. Init => TypeInv
  BY DEF Init, TypeOK, TypeInv, WorkOK, Busy
<1>2. TypeInv /\ [Next]_recognizeVars => TypeInv'
  <2> SUFFICES ASSUME TypeInv, [Next]_recognizeVars PROVE TypeInv'
    OBVIOUS
  <2> USE DEF TypeInv, TypeOK, WorkOK, Busy, Goto, threadVars, streamVars, channelVars, audioVars
  <2>1. ASSUME NEW c \in Api, Locate(c) PROVE TypeInv'
    BY <2>1 DEF Locate
  <2>2. ASSUME NEW s \in Streams, Connect(s) PROVE TypeInv'
    <3>1. CASE Goto(s, "connect", "done")
      BY <2>2, <3>1 DEF Connect
    <3>2. CASE Goto(s, "connect", "spawn")
      <4> SUFFICES ASSUME NEW timeout \in Nat, vad' = [vad EXCEPT ![s] = timeout]
                   PROVE TypeInv'
        BY <2>2, <3>2 DEF Connect
      <4>1. vad' \in [Streams -> Nat \cup {-1}]
        OBVIOUS
      <4>2. /\ pc' = [pc EXCEPT ![s] = "spawn"]
            /\ call' = [call EXCEPT ![s] = "open"]
            /\ UNCHANGED <<up, work, bug, reader, ready, isBreak, interrupted, reply,
                           received, vars, applied, silence, channelVars, why>>
        BY <2>2, <3>2 DEF Connect
      <4> QED
        BY <4>1, <4>2
    <3> QED
      BY <2>2, <3>1, <3>2 DEF Connect
  <2>3. ASSUME NEW s \in Streams, Spawn(s) PROVE TypeInv'
    BY <2>3 DEF Spawn
  <2>4. ASSUME NEW s \in Streams, Listen(s) PROVE TypeInv'
    BY <2>4 DEF Listen
  <2>5. ASSUME NEW s \in Streams, AddRefused(s) PROVE TypeInv'
    BY <2>5 DEF AddRefused
  <2>6. ASSUME NEW s \in Streams, AddBug(s) PROVE TypeInv'
    BY <2>6 DEF AddBug
  <2>7. ASSUME NEW s \in Streams, Publish(s) PROVE TypeInv'
    BY <2>7 DEF Publish
  <2>8. ASSUME NEW c \in Stops, StopClear(c) PROVE TypeInv'
    BY <2>8 DEF StopClear
  <2>9. ASSUME NEW c \in Stops, StopRemove(c) PROVE TypeInv'
    BY <2>9 DEF StopRemove
  <2>10. ASSUME NEW t \in Threads, CloseMark(t) PROVE TypeInv'
    BY <2>10 DEF CloseMark
  <2>11. ASSUME NEW t \in Threads, CloseCancel(t) PROVE TypeInv'
    BY <2>11 DEF CloseCancel
  <2>12. ASSUME NEW t \in Threads, CloseJoin(t) PROVE TypeInv'
    BY <2>12 DEF CloseJoin, AfterClose
  <2>13. ASSUME NEW s \in Streams, Flush(s) PROVE TypeInv'
    BY <2>13 DEF Flush
  <2>14. CASE CheckBreak
    <3> work[Session] \in Streams
      BY <2>14 DEF CheckBreak
    <3>1. CASE isBreak[work[Session]]
      <4>1. /\ pc' = [pc EXCEPT ![Session] = "prune"]
            /\ bug' = [bug EXCEPT ![work[Session]] = "pruned"]
            /\ why' = [why EXCEPT ![work[Session]] = "break"]
        BY <2>14, <3>1 DEF CheckBreak, ReturnFalse
      <4> QED
        BY <2>14, <3>1, <4>1 DEF CheckBreak
    <3>2. CASE ~isBreak[work[Session]]
      BY <2>14, <3>2 DEF CheckBreak
    <3> QED
      BY <3>1, <3>2
  <2>15. CASE VadBreak
    BY <2>15 DEF VadBreak, ReturnFalse
  <2>16. CASE SendFrame
    <3> work[Session] \in Streams
      BY <2>16 DEF SendFrame
    <3>1. /\ vad' \in [Streams -> Nat \cup {-1}]
          /\ silence' \in [Streams -> Nat]
      <4>1. CASE UNCHANGED audioVars
        BY <4>1
      <4>2. CASE vad' = [vad EXCEPT ![work[Session]] = -1] /\ UNCHANGED silence
        BY <4>2
      <4>3. CASE silence' = [silence EXCEPT ![work[Session]] = @ + 1] /\ UNCHANGED vad
        BY <4>3
      <4> QED
        BY <2>16, <4>1, <4>2, <4>3 DEF SendFrame
    <3> QED
      BY <2>16, <3>1 DEF SendFrame
  <2>27. CASE WriteReturns
    <3>1. CASE Goto(Session, "send", "idle") /\ UNCHANGED <<bug, why>>
      BY <2>27, <3>1 DEF WriteReturns
    <3>2. CASE Goto(Session, "send", "prune") /\ ReturnFalse(work[Session], "write")
      <4>1. work[Session] \in Streams
        BY <3>2
      <4>2. /\ pc' = [pc EXCEPT ![Session] = "prune"]
            /\ bug' = [bug EXCEPT ![work[Session]] = "pruned"]
            /\ why' = [why EXCEPT ![work[Session]] = "write"]
        BY <3>2 DEF ReturnFalse
      <4> QED
        BY <2>27, <4>1, <4>2 DEF WriteReturns
    <3> QED
      BY <2>27, <3>1, <3>2 DEF WriteReturns
  <2>17. CASE NoFrame
    BY <2>17 DEF NoFrame
  <2>18. CASE Prune
    BY <2>18 DEF Prune
  <2>19. CASE HangUp
    BY <2>19 DEF HangUp
  <2>20. ASSUME NEW s \in Streams, RemoveAll(s) PROVE TypeInv'
    BY <2>20 DEF RemoveAll
  <2>21. CASE Destroy
    BY <2>21 DEF Destroy
  <2>22. ASSUME NEW s \in Streams, ReaderReply(s) PROVE TypeInv'
    BY <2>22 DEF ReaderReply
  <2>23. ASSUME NEW s \in Streams, ReaderApply(s) PROVE TypeInv'
    BY <2>23 DEF ReaderApply
  <2>24. ASSUME NEW s \in Streams, ReaderEof(s) PROVE TypeInv'
    BY <2>24 DEF ReaderEof
  <2>25. ASSUME NEW s \in Streams, ReaderBreak(s) PROVE TypeInv'
    BY <2>25 DEF ReaderBreak
  <2>26. CASE UNCHANGED recognizeVars
    BY <2>26 DEF recognizeVars
  <2> QED
    BY <2>1, <2>2, <2>3, <2>4, <2>5, <2>6, <2>7, <2>8, <2>9, <2>10, <2>11, <2>12,
       <2>13, <2>14, <2>15, <2>16, <2>17, <2>18, <2>19, <2>20, <2>21, <2>22, <2>23,
       <2>24, <2>25, <2>26, <2>27
       DEF Next, Start, Stop, Close, Reader, Frame, Teardown
<1>3. QED
  BY <1>1, <1>2, PTL DEF Spec

\* Every variable keeps its type: the fields of the RecognizeCall, the threads'
\* positions and the channel's variables.
THEOREM TypeCorrect == Spec => []TypeOK
<1>1. TypeInv => TypeOK
  BY DEF TypeInv
<1>2. QED
  BY TypeInvariant, <1>1, PTL

-----------------------------------------------------------------------------
(* The inductive invariant behind memory safety.  The unlinking of a bug is   *)
(* what hands its call from the READ callbacks to exactly one CLOSE.          *)

\* Which positions each kind of thread can be at.
Kinds ==
  /\ \A s \in Streams : pc[s] \in {"idle", "connect", "spawn", "listen", "add",
                                  "publish", "cancel", "join", "done"}
  /\ \A c \in Stops : pc[c] \in {"idle", "clear", "remove", "done"} \cup Closing
  /\ pc[Session] \in {"idle", "prune", "destroyed"} \cup Reading \cup Closing

\* Until a start command hands its call to a bug it is the call's only user.
StartPhase ==
  \A s \in Streams :
    /\ pc[s] \in {"idle", "connect", "spawn", "listen", "add", "cancel", "join"} =>
         bug[s] = "none"
    /\ pc[s] \in {"idle", "connect"} => call[s] = "none"
    /\ pc[s] \in {"spawn", "listen", "add"} => call[s] = "open"
    /\ pc[s] \in {"idle", "connect", "spawn"} => reader[s] = "none"
    /\ call[s] = "none" => reader[s] = "none"
    /\ pc[s] = "publish" => bug[s] \in {"linked", "pruned", "removed"}

\* A bug on the session has an open call, and the READ callback a linked bug.
ReadPhase ==
  /\ \A s \in Streams : bug[s] \in {"linked", "pruned"} => call[s] = "open"
  /\ pc[Session] \in Reading => bug[work[Session]] = "linked"

\* A closing thread has unlinked the bug, or never made one, and is alone.
ClosePhase ==
  /\ \A t \in Threads : pc[t] \in Closing =>
       /\ t \in Streams \/ bug[work[t]] = "removed"
       /\ call[work[t]] = IF pc[t] = "join" THEN "cancelled" ELSE "open"
  /\ \A s \in Streams : call[s] = "deleted" => reader[s] \in {"none", "exited"}
  /\ OneCloser

\* A pointer a stop command can find is that of a bug that was added.
Pointers ==
  /\ private # None => bug[private] \in {"linked", "pruned", "removed"}
  /\ \A c \in Stops : pc[c] = "idle" => work[c] = None
  /\ \A c \in Stops : work[c] # None => bug[work[c]] \in {"linked", "pruned", "removed"}
  /\ StopSilences

Ownership == Kinds /\ StartPhase /\ ReadPhase /\ ClosePhase /\ Pointers

LEMMA OwnershipInvariant == Spec => []Ownership
<1> USE ThreadsAssumption
<1>1. Init => Ownership
  BY DEF Init, Ownership, Kinds, StartPhase, ReadPhase, ClosePhase, Pointers,
         OneCloser, StopSilences, Api, Threads, Closing, Reading
<1>2. TypeInv /\ Ownership /\ [Next]_recognizeVars => Ownership'
  <2> SUFFICES ASSUME TypeInv, Ownership, [Next]_recognizeVars PROVE Ownership'
    OBVIOUS
  <2> /\ \E P : pc \in [Threads -> P]
      /\ work \in [Threads -> Streams \cup {None}]
      /\ private \in Streams \cup {None}
      /\ \E B : bug \in [Streams -> B]
      /\ \E C : call \in [Streams -> C]
      /\ \E R : reader \in [Streams -> R]
      /\ WorkOK
    <3> TypeOK /\ WorkOK
      BY DEF TypeInv
    <3>1. \E P : pc \in [Threads -> P]
      BY DEF TypeOK
    <3>2. \E B : bug \in [Streams -> B]
      BY DEF TypeOK
    <3>3. \E C : call \in [Streams -> C]
      BY DEF TypeOK
    <3>4. \E R : reader \in [Streams -> R]
      BY DEF TypeOK
    <3> QED
      BY <3>1, <3>2, <3>3, <3>4 DEF TypeOK
  <2> USE DEF Api, Threads, Closing, Reading, WorkOK, Busy, Goto, Ownership, Kinds,
              StartPhase, ReadPhase, ClosePhase, Pointers, OneCloser, StopSilences,
              threadVars, streamVars, channelVars, audioVars
  <2>1. ASSUME NEW c \in Api, Locate(c) PROVE Ownership'
    <3>1. CASE ~up
      <4> pc[c] = "idle" /\ pc' = [pc EXCEPT ![c] = "done"]
          /\ UNCHANGED <<work, private, bug, call, reader>>
        BY <2>1, <3>1 DEF Locate
      <4> QED
        BY <3>1
    <3>2. CASE up /\ c \in Streams
      BY <2>1, <3>2 DEF Locate
    <3>3. CASE up /\ c \in Stops
      BY <2>1, <3>3 DEF Locate
    <3> QED
      BY <3>1, <3>2, <3>3
  <2>2. ASSUME NEW s \in Streams, Connect(s) PROVE Ownership'
    BY <2>2 DEF Connect
  <2>3. ASSUME NEW s \in Streams, Spawn(s) PROVE Ownership'
    BY <2>3 DEF Spawn
  <2>4. ASSUME NEW s \in Streams, Listen(s) PROVE Ownership'
    BY <2>4 DEF Listen
  <2>5. ASSUME NEW s \in Streams, AddRefused(s) PROVE Ownership'
    <3>1. Kinds'
      BY <2>5 DEF AddRefused
    <3>2. StartPhase'
      BY <2>5 DEF AddRefused
    <3>3. ReadPhase'
      BY <2>5 DEF AddRefused
    <3>4. ClosePhase'
      BY <2>5 DEF AddRefused
    <3>5. Pointers'
      BY <2>5 DEF AddRefused
    <3> QED
      BY <3>1, <3>2, <3>3, <3>4, <3>5
  <2>6. ASSUME NEW s \in Streams, AddBug(s) PROVE Ownership'
    BY <2>6 DEF AddBug
  <2>7. ASSUME NEW s \in Streams, Publish(s) PROVE Ownership'
    BY <2>7 DEF Publish
  <2>8. ASSUME NEW c \in Stops, StopClear(c) PROVE Ownership'
    BY <2>8 DEF StopClear
  <2>9. ASSUME NEW c \in Stops, StopRemove(c) PROVE Ownership'
    BY <2>9 DEF StopRemove
  <2>10. ASSUME NEW t \in Threads, CloseMark(t) PROVE Ownership'
    BY <2>10 DEF CloseMark
  <2>11. ASSUME NEW t \in Threads, CloseCancel(t) PROVE Ownership'
    BY <2>11 DEF CloseCancel
  <2>12. ASSUME NEW t \in Threads, CloseJoin(t) PROVE Ownership'
    BY <2>12 DEF CloseJoin, AfterClose
  <2>13. ASSUME NEW s \in Streams, Flush(s) PROVE Ownership'
    BY <2>13 DEF Flush
  <2>14. CASE CheckBreak
    BY <2>14 DEF CheckBreak, ReturnFalse
  <2>15. CASE VadBreak
    BY <2>15 DEF VadBreak, ReturnFalse
  <2>16. CASE SendFrame
    BY <2>16 DEF SendFrame
  <2>27. CASE WriteReturns
    <3>1. Kinds'
      BY <2>27 DEF WriteReturns, ReturnFalse
    <3>2. StartPhase'
      BY <2>27 DEF WriteReturns, ReturnFalse
    <3>3. ReadPhase'
      BY <2>27 DEF WriteReturns, ReturnFalse
    <3>4. ClosePhase'
      BY <2>27 DEF WriteReturns, ReturnFalse
    <3>5. Pointers'
      BY <2>27 DEF WriteReturns, ReturnFalse
    <3> QED
      BY <3>1, <3>2, <3>3, <3>4, <3>5
  <2>17. CASE NoFrame
    BY <2>17 DEF NoFrame
  <2>18. CASE Prune
    BY <2>18 DEF Prune
  <2>19. CASE HangUp
    BY <2>19 DEF HangUp
  <2>20. ASSUME NEW s \in Streams, RemoveAll(s) PROVE Ownership'
    BY <2>20 DEF RemoveAll
  <2>21. CASE Destroy
    BY <2>21 DEF Destroy
  <2>22. ASSUME NEW s \in Streams, ReaderReply(s) PROVE Ownership'
    BY <2>22 DEF ReaderReply
  <2>23. ASSUME NEW s \in Streams, ReaderApply(s) PROVE Ownership'
    BY <2>23 DEF ReaderApply
  <2>24. ASSUME NEW s \in Streams, ReaderEof(s) PROVE Ownership'
    BY <2>24 DEF ReaderEof
  <2>25. ASSUME NEW s \in Streams, ReaderBreak(s) PROVE Ownership'
    BY <2>25 DEF ReaderBreak
  <2>26. CASE UNCHANGED recognizeVars
    BY <2>26 DEF recognizeVars
  <2> QED
    BY <2>1, <2>2, <2>3, <2>4, <2>5, <2>6, <2>7, <2>8, <2>9, <2>10, <2>11, <2>12,
       <2>13, <2>14, <2>15, <2>16, <2>17, <2>18, <2>19, <2>20, <2>21, <2>22, <2>23,
       <2>24, <2>25, <2>26, <2>27
       DEF Next, Start, Stop, Close, Reader, Frame, Teardown
<1>3. QED
  BY TypeInvariant, <1>1, <1>2, PTL DEF Spec

-----------------------------------------------------------------------------
\* A deleted RecognizeCall is never used again, whatever the order in which
\* commands, callbacks, replies and the hangup arrive.
THEOREM MemorySafety == Spec => []NoUseAfterFree
<1>1. TypeInv /\ Ownership => NoUseAfterFree
  BY DEF TypeInv, WorkOK, Busy, Ownership, Kinds, StartPhase, ReadPhase, ClosePhase,
         NoUseAfterFree, Threads, Api, Closing, Reading
<1>2. QED
  BY TypeInvariant, OwnershipInvariant, <1>1, PTL

\* Finish and delete run in one thread only.
THEOREM SingleCloser == Spec => []OneCloser
<1>1. Ownership => OneCloser
  BY DEF Ownership, ClosePhase
<1>2. QED
  BY OwnershipInvariant, <1>1, PTL

\* A stop that found a bug returns with the bug off the session.
THEOREM StopIsFinal == Spec => []StopSilences
<1>1. Ownership => StopSilences
  BY DEF Ownership, Pointers
<1>2. QED
  BY OwnershipInvariant, <1>1, PTL

-----------------------------------------------------------------------------
(* What the reader hands to the callbacks: the variables and the flags of a   *)
(* reply, stored one by one while the session's thread takes them.            *)

\* The replies are numbered as they come.
Numbered ==
  \A s \in Streams : vars[s] <= received[s] /\ \A n \in applied[s] : n <= received[s]

\* Outside of the step between a reply and its flags the flag is the reply's.
Flagged ==
  \A s \in Streams :
    /\ reader[s] # "apply" => interrupted[s] = reply[s].interrupted
    /\ isBreak[s] => reader[s] = "exited"

Handed == Numbered /\ VarsInOrder /\ Flagged

LEMMA HandedInvariant == Spec => []Handed
<1>1. Init => Handed
  <2>1. Init => Numbered /\ VarsInOrder
    BY InputsAssumption DEF Init, Numbered, VarsInOrder
  <2>2. Init => Flagged
    <3>1. NoReply.interrupted = FALSE
      BY DEF NoReply
    <3>2. Init => \A s \in Streams : interrupted[s] = reply[s].interrupted
      BY <3>1, Zenon DEF Init
    <3>3. Init => \A s \in Streams : isBreak[s] => reader[s] = "exited"
      BY DEF Init
    <3> QED
      BY <3>2, <3>3 DEF Flagged
  <2> QED
    BY <2>1, <2>2 DEF Handed
<1>2. TypeInv /\ Ownership /\ Handed /\ [Next]_recognizeVars => Handed'
  <2> SUFFICES ASSUME TypeInv, Ownership, Handed, [Next]_recognizeVars PROVE Handed'
    OBVIOUS
  <2> /\ reader \in [Streams -> {"none", "read", "apply", "break", "exited"}]
      /\ isBreak \in [Streams -> BOOLEAN] /\ interrupted \in [Streams -> BOOLEAN]
      /\ reply \in [Streams -> ReplyFlags] /\ received \in [Streams -> 0..MaxReplies]
      /\ vars \in [Streams -> 0..MaxReplies] /\ applied \in [Streams -> SUBSET (1..MaxReplies)]
      /\ MaxReplies \in Nat
    BY InputsAssumption DEF TypeInv, TypeOK
  <2> USE DEF Handed, Numbered, VarsInOrder, Flagged,
              threadVars, streamVars, channelVars, audioVars
  <2>1. ASSUME NEW s \in Streams, Spawn(s) PROVE Handed'
    <3>1. reader[s] = "none" /\ reader' = [reader EXCEPT ![s] = "read"]
      BY <2>1 DEF Spawn, Goto, Ownership, StartPhase
    <3> QED
      BY <2>1, <3>1 DEF Spawn
  <2>2. ASSUME NEW s \in Streams, Flush(s) PROVE Handed'
    <3>1. Numbered'
      BY <2>2 DEF Flush
    <3>2. VarsInOrder'
      BY <2>2 DEF Flush
    <3>3. Flagged'
      BY <2>2 DEF Flush
    <3> QED
      BY <3>1, <3>2, <3>3
  <2>3. ASSUME NEW s \in Streams, ReaderReply(s) PROVE Handed'
    BY <2>3 DEF ReaderReply
  <2>4. ASSUME NEW s \in Streams, ReaderApply(s) PROVE Handed'
    BY <2>4 DEF ReaderApply
  <2>5. ASSUME NEW s \in Streams, ReaderEof(s) PROVE Handed'
    BY <2>5 DEF ReaderEof
  <2>6. ASSUME NEW s \in Streams, ReaderBreak(s) PROVE Handed'
    BY <2>6 DEF ReaderBreak
  <2>7. CASE UNCHANGED <<reader, isBreak, interrupted, reply, received, vars, applied>>
    BY <2>7
  <2>8. ASSUME NEW c \in Api, Locate(c)
       PROVE  UNCHANGED <<reader, isBreak, interrupted, reply, received, vars, applied>>
    BY <2>8 DEF Locate
  <2>9. ASSUME NEW s \in Streams, Connect(s) \/ Listen(s) \/ AddRefused(s) \/
               AddBug(s) \/ Publish(s) \/ RemoveAll(s)
       PROVE  UNCHANGED <<reader, isBreak, interrupted, reply, received, vars, applied>>
    BY <2>9 DEF Connect, Listen, AddRefused, AddBug, Publish, RemoveAll
  <2>10. ASSUME NEW c \in Stops, StopClear(c) \/ StopRemove(c)
       PROVE  UNCHANGED <<reader, isBreak, interrupted, reply, received, vars, applied>>
    BY <2>10 DEF StopClear, StopRemove
  <2>11. ASSUME NEW t \in Threads, CloseMark(t) \/ CloseCancel(t) \/ CloseJoin(t)
       PROVE  UNCHANGED <<reader, isBreak, interrupted, reply, received, vars, applied>>
    BY <2>11 DEF CloseMark, CloseCancel, CloseJoin, AfterClose
  <2>12. ASSUME CheckBreak \/ VadBreak \/ SendFrame \/ WriteReturns \/ NoFrame \/ Prune \/ HangUp \/
          Destroy
       PROVE  UNCHANGED <<reader, isBreak, interrupted, reply, received, vars, applied>>
    BY <2>12 DEF CheckBreak, ReturnFalse, VadBreak, SendFrame, WriteReturns, NoFrame, Prune,
           HangUp, Destroy
  <2>13. CASE UNCHANGED recognizeVars
    BY <2>13 DEF recognizeVars
  <2> QED
    BY <2>1, <2>2, <2>3, <2>4, <2>5, <2>6, <2>7, <2>8, <2>9, <2>10, <2>11, <2>12, 
       <2>13
       DEF Next, Start, Stop, Close, Reader, Frame, Teardown
<1>3. QED
  BY TypeInvariant, OwnershipInvariant, <1>1, <1>2, PTL DEF Spec

\* The variables of a reply are set at most once and never after those of a later reply.
THEOREM VariablesInOrder == Spec => []VarsInOrder
<1>1. Handed => VarsInOrder
  BY DEF Handed
<1>2. QED
  BY HandedInvariant, <1>1, PTL

-----------------------------------------------------------------------------
(* How recognitions end: what CLOSE reports, and what is left afterwards.     *)

\* A pruned bug is in the hands of the session's thread, the call of a removed one in
\* those of the thread that closes it, and nothing outlives the session.
Attended ==
  /\ \A s \in Streams : bug[s] = "pruned" => pc[Session] = "prune" /\ work[Session] = s
  /\ \A s \in Streams : bug[s] = "removed" =>
       call[s] = "deleted" \/ \E t \in Threads : pc[t] \in Closing /\ work[t] = s
  /\ \A s \in Streams : bug[s] = "none" /\ pc[s] = "done" => call[s] \in {"none", "deleted"}
  /\ pc[Session] = "destroyed" =>
       ~up /\ (\A s \in Streams : bug[s] # "linked") /\ \A c \in Api : pc[c] \in {"idle", "done"}

\* A callback ends a bug because of the bot only when the reader had left its loop.
BreakSeen == \A s \in Streams : why[s] = "break" => isBreak[s]

Ended == Attended /\ BreakSeen /\ BargeInHonoured /\ FinalReported

LEMMA EndedInvariant == Spec => []Ended
<1> USE ThreadsAssumption
<1>1. Init => Ended
  BY DEF Init, Ended, Attended, BreakSeen, BargeInHonoured, FinalReported, Api, Threads, Closing
<1>2. TypeInv /\ Ownership /\ Handed /\ Ended /\ [Next]_recognizeVars => Ended'
  <2> SUFFICES ASSUME TypeInv, Ownership, Handed, Ended, [Next]_recognizeVars PROVE Ended'
    OBVIOUS
  <2> /\ pc \in [Threads -> {"idle", "connect", "spawn", "listen", "add", "publish",
                             "clear", "remove", "prune", "done", "destroyed"}
                            \cup Closing \cup Reading]
      /\ work \in [Threads -> Streams \cup {None}]
      /\ bug \in [Streams -> {"none", "linked", "pruned", "removed", "refused", "failed"}]
      /\ call \in [Streams -> {"none", "open", "cancelled", "deleted"}]
      /\ why \in [Streams -> {"none", "break", "vad", "write", "stop", "hangup"}]
      /\ cut \subseteq Streams
      /\ WorkOK
    BY DEF TypeInv, TypeOK
  <2> isBreak \in [Streams -> BOOLEAN] /\ interrupted \in [Streams -> BOOLEAN]
    BY DEF TypeInv, TypeOK
  <2> Kinds /\ StartPhase /\ ReadPhase /\ ClosePhase /\ Flagged
    BY DEF Ownership, Handed
  <2> USE DEF Api, Threads, Closing, Reading, Goto, WorkOK, Busy, Kinds, StartPhase, ReadPhase,
              ClosePhase, OneCloser, threadVars, streamVars, channelVars, audioVars
  <2>1. ASSUME NEW c \in Api, Locate(c) PROVE Ended'
    <3>1. Attended'
      BY <2>1 DEF Locate, Ended, Attended
    <3>2. BreakSeen'
      BY <2>1 DEF Locate, Ended, BreakSeen
    <3>3. BargeInHonoured'
      BY <2>1 DEF Locate, Ended, BargeInHonoured, Flagged
    <3>4. FinalReported'
      BY <2>1 DEF Locate, Ended, FinalReported
    <3> QED
      BY <3>1, <3>2, <3>3, <3>4 DEF Ended
  <2>2. ASSUME NEW s \in Streams, Connect(s) PROVE Ended'
    <3>1. Attended'
      BY <2>2 DEF Connect, Ended, Attended
    <3>2. BreakSeen'
      BY <2>2 DEF Connect, Ended, BreakSeen
    <3>3. BargeInHonoured'
      BY <2>2 DEF Connect, Ended, BargeInHonoured, Flagged
    <3>4. FinalReported'
      BY <2>2 DEF Connect, Ended, FinalReported
    <3> QED
      BY <3>1, <3>2, <3>3, <3>4 DEF Ended
  <2>3. ASSUME NEW s \in Streams, Spawn(s) PROVE Ended'
    BY <2>3 DEF Spawn,
           Ended, Attended, BreakSeen, BargeInHonoured, FinalReported, Flagged
  <2>4. ASSUME NEW s \in Streams, Listen(s) PROVE Ended'
    BY <2>4 DEF Listen,
           Ended, Attended, BreakSeen, BargeInHonoured, FinalReported, Flagged
  <2>5. ASSUME NEW s \in Streams, AddRefused(s) PROVE Ended'
    BY <2>5 DEF AddRefused,
           Ended, Attended, BreakSeen, BargeInHonoured, FinalReported, Flagged
  <2>6. ASSUME NEW s \in Streams, AddBug(s) PROVE Ended'
    BY <2>6 DEF AddBug,
           Ended, Attended, BreakSeen, BargeInHonoured, FinalReported, Flagged
  <2>7. ASSUME NEW s \in Streams, Publish(s) PROVE Ended'
    BY <2>7 DEF Publish,
           Ended, Attended, BreakSeen, BargeInHonoured, FinalReported, Flagged
  <2>8. ASSUME NEW c \in Stops, StopClear(c) PROVE Ended'
    BY <2>8 DEF StopClear,
           Ended, Attended, BreakSeen, BargeInHonoured, FinalReported, Flagged
  <2>9. ASSUME NEW c \in Stops, StopRemove(c) PROVE Ended'
    BY <2>9 DEF StopRemove,
           Ended, Attended, BreakSeen, BargeInHonoured, FinalReported, Flagged
  <2>10. ASSUME NEW t \in Threads, CloseMark(t) PROVE Ended'
    <3>1. Attended'
      BY <2>10 DEF CloseMark, Ended, Attended
    <3>2. BreakSeen'
      BY <2>10 DEF CloseMark, Ended, BreakSeen
    <3>3. BargeInHonoured'
      <4> SUFFICES ASSUME NEW s \in Streams, why[s] = "break", reply[s].interrupted,
                          bug[s] = "removed", \A u \in Threads : pc'[u] = "mark" => work[u] # s
                   PROVE  s \in cut'
        BY <2>10 DEF CloseMark, BargeInHonoured
      <4>1. interrupted[s]
        BY DEF Ended, BreakSeen, Flagged
      <4>2. CASE work[t] = s
        BY <2>10, <4>1, <4>2 DEF CloseMark
      <4>3. CASE work[t] # s
        <5>1. \A u \in Threads : pc[u] = "mark" => work[u] # s
          BY <2>10, <4>3 DEF CloseMark
        <5>2. s \in cut
          BY <5>1 DEF Ended, BargeInHonoured
        <5> QED
          BY <2>10, <5>2 DEF CloseMark
      <4> QED
        BY <4>2, <4>3
    <3>4. FinalReported'
      BY <2>10 DEF CloseMark, Ended, FinalReported
    <3> QED
      BY <3>1, <3>2, <3>3, <3>4 DEF Ended
  <2>11. ASSUME NEW t \in Threads, CloseCancel(t) PROVE Ended'
    BY <2>11 DEF CloseCancel,
           Ended, Attended, BreakSeen, BargeInHonoured, FinalReported, Flagged
  <2>12. ASSUME NEW t \in Threads, CloseJoin(t) PROVE Ended'
    BY <2>12 DEF CloseJoin, AfterClose,
           Ended, Attended, BreakSeen, BargeInHonoured, FinalReported, Flagged
  <2>13. ASSUME NEW s \in Streams, Flush(s) PROVE Ended'
    BY <2>13 DEF Flush,
           Ended, Attended, BreakSeen, BargeInHonoured, FinalReported, Flagged
  <2>14. CASE CheckBreak
    <3>1. Attended'
      BY <2>14 DEF CheckBreak, ReturnFalse, Ended, Attended
    <3>2. BreakSeen'
      BY <2>14 DEF CheckBreak, ReturnFalse, Ended, BreakSeen
    <3>3. BargeInHonoured'
      BY <2>14 DEF CheckBreak, ReturnFalse, Ended, BargeInHonoured, Flagged
    <3>4. FinalReported'
      BY <2>14 DEF CheckBreak, ReturnFalse, Ended, FinalReported
    <3> QED
      BY <3>1, <3>2, <3>3, <3>4 DEF Ended
  <2>15. CASE VadBreak
    BY <2>15 DEF VadBreak, ReturnFalse,
           Ended, Attended, BreakSeen, BargeInHonoured, FinalReported, Flagged
  <2>16. CASE SendFrame
    BY <2>16 DEF SendFrame,
           Ended, Attended, BreakSeen, BargeInHonoured, FinalReported, Flagged
  <2>27. CASE WriteReturns
    <3>1. Attended'
      <4>1. /\ pc[Session] = "send" /\ Session \notin Api
            /\ \A t \in Threads \ {Session} : pc'[t] = pc[t]
            /\ UNCHANGED <<up, work, call>>
        BY <2>27 DEF WriteReturns
      <4>2. CASE pc'[Session] = "idle" /\ UNCHANGED bug
        BY <4>1, <4>2 DEF Ended, Attended
      <4>3. CASE pc'[Session] = "prune" /\ bug' = [bug EXCEPT ![work[Session]] = "pruned"]
        <5>1. bug[work[Session]] = "linked" /\ \A s \in Streams : bug[s] # "pruned"
          BY <4>1 DEF Ended, Attended
        <5>2. \A s \in Streams : bug'[s] = IF s = work[Session] THEN "pruned" ELSE bug[s]
          BY <4>3 DEF TypeInv, TypeOK
        <5> QED
          BY <4>1, <4>3, <5>1, <5>2 DEF Ended, Attended
      <4> QED
        BY <2>27, <4>2, <4>3 DEF WriteReturns, ReturnFalse
    <3>2. BreakSeen'
      BY <2>27 DEF WriteReturns, ReturnFalse, Ended, BreakSeen
    <3>3. BargeInHonoured'
      BY <2>27 DEF WriteReturns, ReturnFalse, Ended, BargeInHonoured
    <3>4. FinalReported'
      BY <2>27 DEF WriteReturns, ReturnFalse, Ended, FinalReported
    <3> QED
      BY <3>1, <3>2, <3>3, <3>4 DEF Ended
  <2>17. CASE NoFrame
    BY <2>17 DEF NoFrame,
           Ended, Attended, BreakSeen, BargeInHonoured, FinalReported, Flagged
  <2>18. CASE Prune
    BY <2>18 DEF Prune,
           Ended, Attended, BreakSeen, BargeInHonoured, FinalReported, Flagged
  <2>19. CASE HangUp
    BY <2>19 DEF HangUp,
           Ended, Attended, BreakSeen, BargeInHonoured, FinalReported, Flagged
  <2>20. ASSUME NEW s \in Streams, RemoveAll(s) PROVE Ended'
    BY <2>20 DEF RemoveAll,
           Ended, Attended, BreakSeen, BargeInHonoured, FinalReported, Flagged
  <2>21. CASE Destroy
    BY <2>21 DEF Destroy,
           Ended, Attended, BreakSeen, BargeInHonoured, FinalReported, Flagged
  <2>22. ASSUME NEW s \in Streams, ReaderReply(s) PROVE Ended'
    <3>1. Attended'
      BY <2>22 DEF ReaderReply, Ended, Attended
    <3>2. BreakSeen'
      BY <2>22 DEF ReaderReply, Ended, BreakSeen
    <3>3. BargeInHonoured'
      <4>1. why[s] # "break"
        BY <2>22 DEF ReaderReply, Ended, BreakSeen, Flagged
      <4>2. \A z \in Streams \ {s} : reply'[z] = reply[z]
        BY <2>22 DEF ReaderReply, TypeInv, TypeOK
      <4> QED
        BY <2>22, <4>1, <4>2 DEF ReaderReply, Ended, BargeInHonoured
    <3>4. FinalReported'
      BY <2>22 DEF ReaderReply, Ended, FinalReported
    <3> QED
      BY <3>1, <3>2, <3>3, <3>4 DEF Ended
  <2>23. ASSUME NEW s \in Streams, ReaderApply(s) PROVE Ended'
    BY <2>23 DEF ReaderApply,
           Ended, Attended, BreakSeen, BargeInHonoured, FinalReported, Flagged
  <2>24. ASSUME NEW s \in Streams, ReaderEof(s) PROVE Ended'
    BY <2>24 DEF ReaderEof,
           Ended, Attended, BreakSeen, BargeInHonoured, FinalReported, Flagged
  <2>25. ASSUME NEW s \in Streams, ReaderBreak(s) PROVE Ended'
    BY <2>25 DEF ReaderBreak,
           Ended, Attended, BreakSeen, BargeInHonoured, FinalReported, Flagged
  <2>26. CASE UNCHANGED recognizeVars
    <3>1. Attended'
      BY <2>26 DEF recognizeVars, Ended, Attended
    <3>2. BreakSeen'
      BY <2>26 DEF recognizeVars, Ended, BreakSeen
    <3>3. BargeInHonoured'
      BY <2>26 DEF recognizeVars, Ended, BargeInHonoured, Flagged
    <3>4. FinalReported'
      BY <2>26 DEF recognizeVars, Ended, FinalReported
    <3> QED
      BY <3>1, <3>2, <3>3, <3>4 DEF Ended
  <2> QED
    BY <2>1, <2>2, <2>3, <2>4, <2>5, <2>6, <2>7, <2>8, <2>9, <2>10, <2>11, <2>12, 
       <2>13, <2>14, <2>15, <2>16, <2>17, <2>18, <2>19, <2>20, <2>21, <2>22, <2>23, <2>24, 
       <2>25, <2>26, <2>27
       DEF Next, Start, Stop, Close, Reader, Frame, Teardown
<1>3. QED
  BY TypeInvariant, OwnershipInvariant, HandedInvariant, <1>1, <1>2, PTL DEF Spec

\* A barge-in that the bot's last reply asked for is never lost to the race of the
\* reader's plain flag with CLOSE.
THEOREM BargeInIsHonoured == Spec => []BargeInHonoured
<1>1. Ended => BargeInHonoured
  BY DEF Ended
<1>2. QED
  BY EndedInvariant, <1>1, PTL

\* The dialplan, which waits for wbt_stt_final, is told.
THEOREM FinalIsReported == Spec => []FinalReported
<1>1. Ended => FinalReported
  BY DEF Ended
<1>2. QED
  BY EndedInvariant, <1>1, PTL

\* A destroyed session leaves no bug and no call behind, but that of a refused bug.
THEOREM NothingIsLeft == Spec => []NothingLeft
<1>1. TypeInv /\ Ownership /\ Ended => NothingLeft
  BY ThreadsAssumption DEF TypeInv, TypeOK, WorkOK, Ownership, Kinds, StartPhase, Ended, Attended,
     NothingLeft, Threads, Api, Closing
<1>2. QED
  BY TypeInvariant, OwnershipInvariant, EndedInvariant, <1>1, PTL

-----------------------------------------------------------------------------
(* The pointer of a running recognition, and its silence detector.            *)

\* Before a bug is linked no silence was counted; one that gave up is on the session
\* no more; the detector of a linked bug has not waited its timeout out.
Quiet ==
  /\ \A s \in Streams : bug[s] = "none" => silence[s] = 0
  /\ sttError # None => bug[sttError] \in {"pruned", "removed"}

Watched == StopReaches /\ Quiet /\ VadBreaksInSilence

LEMMA WatchedInvariant == Spec => []Watched
<1> USE ThreadsAssumption
<1>1. Init => Watched
  BY DEF Init, Watched, StopReaches, Quiet, VadBreaksInSilence, Api, Threads
<1>2. TypeInv /\ Ownership /\ Watched /\ [Next]_recognizeVars => Watched'
  <2> SUFFICES ASSUME TypeInv, Ownership, Watched, [Next]_recognizeVars PROVE Watched'
    OBVIOUS
  <2> /\ pc \in [Threads -> {"idle", "connect", "spawn", "listen", "add", "publish",
                             "clear", "remove", "prune", "done", "destroyed"}
                            \cup Closing \cup Reading]
      /\ work \in [Threads -> Streams \cup {None}]
      /\ private \in Streams \cup {None}
      /\ bug \in [Streams -> {"none", "linked", "pruned", "removed", "refused", "failed"}]
      /\ vad \in [Streams -> Nat \cup {-1}] /\ silence \in [Streams -> Nat]
      /\ sttError \in Streams \cup {None}
      /\ displaced \subseteq Streams
      /\ WorkOK
    BY DEF TypeInv, TypeOK
  <2> Kinds /\ StartPhase /\ ReadPhase
    BY DEF Ownership
  <2> USE DEF Api, Threads, Closing, Reading, Goto, WorkOK, Busy, Kinds, StartPhase, ReadPhase,
              threadVars, streamVars, channelVars, audioVars
  <2>1. ASSUME NEW c \in Api, Locate(c) PROVE Watched'
    BY <2>1 DEF Locate, Watched, StopReaches, Quiet, VadBreaksInSilence
  <2>2. ASSUME NEW s \in Streams, Connect(s) PROVE Watched'
    BY <2>2 DEF Connect, Watched, StopReaches, Quiet, VadBreaksInSilence
  <2>3. ASSUME NEW s \in Streams, Spawn(s) PROVE Watched'
    BY <2>3 DEF Spawn, Watched, StopReaches, Quiet, VadBreaksInSilence
  <2>4. ASSUME NEW s \in Streams, Listen(s) PROVE Watched'
    BY <2>4 DEF Listen, Watched, StopReaches, Quiet, VadBreaksInSilence
  <2>5. ASSUME NEW s \in Streams, AddRefused(s) PROVE Watched'
    BY <2>5 DEF AddRefused, Watched, StopReaches, Quiet, VadBreaksInSilence
  <2>6. ASSUME NEW s \in Streams, AddBug(s) PROVE Watched'
    BY <2>6 DEF AddBug, Watched, StopReaches, Quiet, VadBreaksInSilence
  <2>7. ASSUME NEW s \in Streams, Publish(s) PROVE Watched'
    BY <2>7 DEF Publish, Watched, StopReaches, Quiet, VadBreaksInSilence
  <2>8. ASSUME NEW c \in Stops, StopClear(c) PROVE Watched'
    BY <2>8 DEF StopClear, Watched, StopReaches, Quiet, VadBreaksInSilence
  <2>9. ASSUME NEW c \in Stops, StopRemove(c) PROVE Watched'
    BY <2>9 DEF StopRemove, Watched, StopReaches, Quiet, VadBreaksInSilence
  <2>10. ASSUME NEW t \in Threads, CloseMark(t) PROVE Watched'
    BY <2>10 DEF CloseMark, Watched, StopReaches, Quiet, VadBreaksInSilence
  <2>11. ASSUME NEW t \in Threads, CloseCancel(t) PROVE Watched'
    BY <2>11 DEF CloseCancel, Watched, StopReaches, Quiet, VadBreaksInSilence
  <2>12. ASSUME NEW t \in Threads, CloseJoin(t) PROVE Watched'
    BY <2>12 DEF CloseJoin, AfterClose, Watched, StopReaches, Quiet, VadBreaksInSilence
  <2>13. ASSUME NEW s \in Streams, Flush(s) PROVE Watched'
    BY <2>13 DEF Flush, Watched, StopReaches, Quiet, VadBreaksInSilence
  <2>14. CASE CheckBreak
    BY <2>14 DEF CheckBreak, ReturnFalse,
           Watched, StopReaches, Quiet, VadBreaksInSilence
  <2>15. CASE VadBreak
    BY <2>15 DEF VadBreak, ReturnFalse, Watched, StopReaches, Quiet, VadBreaksInSilence
  <2>16. CASE SendFrame
    BY <2>16 DEF SendFrame, Watched, StopReaches, Quiet, VadBreaksInSilence
  <2>27. CASE WriteReturns
    BY <2>27 DEF WriteReturns, ReturnFalse, Watched, StopReaches, Quiet, VadBreaksInSilence
  <2>17. CASE NoFrame
    BY <2>17 DEF NoFrame, Watched, StopReaches, Quiet, VadBreaksInSilence
  <2>18. CASE Prune
    BY <2>18 DEF Prune, Watched, StopReaches, Quiet, VadBreaksInSilence
  <2>19. CASE HangUp
    BY <2>19 DEF HangUp, Watched, StopReaches, Quiet, VadBreaksInSilence
  <2>20. ASSUME NEW s \in Streams, RemoveAll(s) PROVE Watched'
    BY <2>20 DEF RemoveAll, Watched, StopReaches, Quiet, VadBreaksInSilence
  <2>21. CASE Destroy
    BY <2>21 DEF Destroy, Watched, StopReaches, Quiet, VadBreaksInSilence
  <2>22. ASSUME NEW s \in Streams, ReaderReply(s) PROVE Watched'
    BY <2>22 DEF ReaderReply, Watched, StopReaches, Quiet, VadBreaksInSilence
  <2>23. ASSUME NEW s \in Streams, ReaderApply(s) PROVE Watched'
    BY <2>23 DEF ReaderApply, Watched, StopReaches, Quiet, VadBreaksInSilence
  <2>24. ASSUME NEW s \in Streams, ReaderEof(s) PROVE Watched'
    BY <2>24 DEF ReaderEof, Watched, StopReaches, Quiet, VadBreaksInSilence
  <2>25. ASSUME NEW s \in Streams, ReaderBreak(s) PROVE Watched'
    BY <2>25 DEF ReaderBreak, Watched, StopReaches, Quiet, VadBreaksInSilence
  <2>26. CASE UNCHANGED recognizeVars
    <3>1. StopReaches'
      BY <2>26 DEF recognizeVars, Watched, StopReaches
    <3>2. Quiet'
      BY <2>26 DEF recognizeVars, Watched, Quiet
    <3>3. VadBreaksInSilence'
      BY <2>26 DEF recognizeVars, Watched, VadBreaksInSilence, Quiet
    <3> QED
      BY <3>1, <3>2, <3>3 DEF Watched
  <2> QED
    BY <2>1, <2>2, <2>3, <2>4, <2>5, <2>6, <2>7, <2>8, <2>9, <2>10, <2>11, <2>12, 
       <2>13, <2>14, <2>15, <2>16, <2>17, <2>18, <2>19, <2>20, <2>21, <2>22, <2>23, <2>24, 
       <2>25, <2>26, <2>27
       DEF Next, Start, Stop, Close, Reader, Frame, Teardown
<1>3. QED
  BY TypeInvariant, OwnershipInvariant, <1>1, <1>2, PTL DEF Spec

\* A running recognition can be stopped, unless another command took its pointer.
THEOREM StopCanReach == Spec => []StopReaches
<1>1. Watched => StopReaches
  BY DEF Watched
<1>2. QED
  BY WatchedInvariant, <1>1, PTL

\* The silence detector ends a recognition after its timeout, and only in silence.
THEOREM BreaksInSilence == Spec => []VadBreaksInSilence
<1>1. Watched => VadBreaksInSilence
  BY DEF Watched
<1>2. QED
  BY WatchedInvariant, <1>1, PTL

-----------------------------------------------------------------------------
\* Every call of this module goes through the life of a gRPC client stream.
THEOREM LivesAsStream == Spec => StreamLives
<1> DEFINE stream == [s \in Streams |-> IF call[s] = "cancelled" THEN "finishing"
                                         ELSE call[s]]
           thread == [s \in Streams |-> IF reader[s] \in {"read", "apply", "break"}
                                         THEN "running" ELSE reader[s]]
<1>1. Init => Life!LifeInit
  BY DEF Init, Life!LifeInit
<1>2. TypeInv /\ Ownership /\ [Next]_recognizeVars => [Life!LifeNext]_(Life!lifeVars)
  <2> SUFFICES ASSUME TypeInv, Ownership, [Next]_recognizeVars
               PROVE  Life!LifeNext \/ UNCHANGED <<stream, thread>>
    BY DEF Life!lifeVars
  <2> USE DEF TypeInv, WorkOK, Goto
  <2>0. /\ call \in [Streams -> {"none", "open", "cancelled", "deleted"}]
        /\ reader \in [Streams -> {"none", "read", "apply", "break", "exited"}]
    BY DEF TypeOK
  <2>1. CASE UNCHANGED <<call, reader>>
    BY <2>1
  <2>2. ASSUME NEW s \in Streams, Connect(s), call' # call
        PROVE  Life!Open(s)
    <3>2. pc[s] = "connect" /\ call' = [call EXCEPT ![s] = "open"] /\ UNCHANGED reader
      BY <2>2 DEF Connect, streamVars
    <3> QED
      BY <2>0, <3>2 DEF Ownership, StartPhase, Life!Open
  <2>3. ASSUME NEW s \in Streams, Spawn(s)
        PROVE  Life!Spawn(s)
    BY <2>0, <2>3 DEF Spawn, Ownership, StartPhase, Life!Spawn
  <2>4. ASSUME NEW t \in Threads, CloseCancel(t)
        PROVE  \E s \in Streams : Life!Finish(s)
    <3>1. PICK s \in Streams : s = work[t]
      BY <2>4 DEF CloseCancel, Closing, Busy
    <3> Life!Finish(s)
      BY <2>0, <2>4, <3>1 DEF CloseCancel, Ownership, ClosePhase, Closing, Busy, Life!Finish
    <3> QED
      OBVIOUS
  <2>5. ASSUME NEW t \in Threads, CloseJoin(t)
        PROVE  \E s \in Streams : Life!Delete(s)
    <3>1. PICK s \in Streams : s = work[t]
      BY <2>5 DEF CloseJoin, Closing, Busy
    <3> Life!Delete(s)
      BY <2>0, <2>5, <3>1 DEF CloseJoin, Ownership, ClosePhase, Closing, Busy, Life!Delete
    <3> QED
      OBVIOUS
  <2>6. ASSUME NEW s \in Streams, ReaderBreak(s)
        PROVE  Life!Exit(s)
    BY <2>0, <2>6 DEF ReaderBreak, Ownership, StartPhase, ClosePhase, Life!Exit
  <2>7. ASSUME NEW s \in Streams, ReaderReply(s) \/ ReaderApply(s) \/ ReaderEof(s)
        PROVE  UNCHANGED <<stream, thread>>
    <3>1. /\ call' = call
          /\ reader[s] \in {"read", "apply"}
          /\ \E r \in {"read", "apply", "break"} : reader' = [reader EXCEPT ![s] = r]
      BY <2>7 DEF ReaderReply, ReaderApply, ReaderEof
    <3> QED
      BY <2>0, <3>1
  <2>8. \/ UNCHANGED <<call, reader>>
        \/ \E s \in Streams : \/ Connect(s) /\ call' # call
                             \/ Spawn(s) \/ ReaderBreak(s)
                             \/ ReaderReply(s) \/ ReaderApply(s) \/ ReaderEof(s)
        \/ \E t \in Threads : CloseCancel(t) \/ CloseJoin(t)
    <3> USE DEF streamVars
    <3>1. ASSUME NEW s \in Streams, Connect(s), call' = call
          PROVE  UNCHANGED reader
      BY <3>1 DEF Connect
    <3>2. ASSUME NEW s \in Streams,
                 Listen(s) \/ AddRefused(s) \/ AddBug(s) \/ Publish(s) \/ Flush(s)
                 \/ RemoveAll(s)
          PROVE  UNCHANGED <<call, reader>>
      BY <3>2 DEF Listen, AddRefused, AddBug, Publish, Flush, RemoveAll
    <3>3. ASSUME NEW c, Locate(c) \/ StopClear(c) \/ StopRemove(c) \/ CloseMark(c)
          PROVE  UNCHANGED <<call, reader>>
      BY <3>3 DEF Locate, StopClear, StopRemove, CloseMark
    <3>4. CheckBreak \/ VadBreak \/ SendFrame \/ WriteReturns \/ NoFrame \/ Prune \/ HangUp \/ Destroy
          => UNCHANGED <<call, reader>>
      BY DEF CheckBreak, VadBreak, SendFrame, WriteReturns, NoFrame, Prune, HangUp, Destroy
    <3>5. UNCHANGED recognizeVars => UNCHANGED <<call, reader>>
      BY DEF recognizeVars
    <3> QED
      BY <3>1, <3>2, <3>3, <3>4, <3>5
         DEF Next, Start, Stop, Close, Reader, Frame, Teardown
  <2> QED
    <3>1. ASSUME NEW s \in Streams, \/ Connect(s) /\ call' # call
                                   \/ Spawn(s) \/ ReaderBreak(s)
          PROVE  Life!LifeNext
      BY <2>2, <2>3, <2>6, <3>1 DEF Life!LifeNext
    <3>2. ASSUME NEW t \in Threads, CloseCancel(t) \/ CloseJoin(t)
          PROVE  Life!LifeNext
      BY <2>4, <2>5, <3>2 DEF Life!LifeNext
    <3>3. ASSUME NEW s \in Streams, ReaderReply(s) \/ ReaderApply(s) \/ ReaderEof(s)
          PROVE  UNCHANGED <<stream, thread>>
      BY <2>7, <3>3
    <3> HIDE DEF stream, thread
    <3>4. CASE \E s \in Streams : \/ Connect(s) /\ call' # call
                                 \/ Spawn(s) \/ ReaderBreak(s)
                                 \/ ReaderReply(s) \/ ReaderApply(s) \/ ReaderEof(s)
      BY <3>1, <3>3, <3>4
    <3>5. CASE \E t \in Threads : CloseCancel(t) \/ CloseJoin(t)
      BY <3>2, <3>5
    <3> QED
      BY <2>1, <2>8, <3>4, <3>5
<1>3. QED
  BY TypeInvariant, OwnershipInvariant, <1>1, <1>2, PTL DEF Spec, StreamLives, Life!LifeSpec
=============================================================================
