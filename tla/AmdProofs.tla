------------------------------ MODULE AmdProofs ------------------------------
(***************************************************************************)
(* Theorems about Amd, for all labels of the service.                      *)
(***************************************************************************)
EXTENDS Amd, TLAPS

Closing == {"finish", "status", "verdict", "execute", "report", "tell", "end"}

\* The positive application runs in CLOSE, and not after an error.
RunsInClose == pc = "running" /\ skip

\* The session's thread, the bug and the client go through their lives together.
Phases ==
  /\ pc \in {"start", "listen", "add"} => bug = "none"
  /\ bug = "linked" => pc \in {"idle", "write", "look"}
  /\ pc \in {"write", "look"} => bug = "linked"
  /\ pc \in Closing \/ RunsInClose => bug = "removed"
  /\ pc = "start" => call = "none"
  /\ pc \in {"listen", "add", "finish"} \/ bug = "linked" => call = "open"
  /\ pc \in Closing \ {"finish"} \/ RunsInClose => call = "finishing"

\* The reader thread is there from Listen to the join in Finish.
ReaderPhases ==
  /\ call = "none" \/ pc = "listen" => reader = "none"
  /\ pc \in Closing \ {"finish", "status"} \/ RunsInClose \/ call = "deleted" =>
       reader = "exited"

\* Nothing is reported before the verdict is told.
Quiet ==
  /\ pc \in {"start", "listen", "add"} \cup Closing \/ RunsInClose \/ bug = "linked" =>
       amdError = FALSE /\ hung = FALSE /\ (pc # "end" => events = 0 /\ positive = "unset")
  /\ pc \in {"start", "listen", "add", "finish", "status", "verdict"} \/ bug = "linked" =>
       executed = 0 /\ skip = FALSE
  /\ positive # "unset" => pc \in {"end", "idle", "destroyed"} /\ bug = "removed"

\* The positive application is handed over for a person only, who is the one the
\* verdict is about, and the channel it left hung up is not found up again.
Person ==
  /\ skip => answered /\ verdict \in Positive
  /\ pc = "execute" => skip = TRUE /\ executed = 0
  /\ pc \in {"report", "tell", "end"} \/ RunsInClose =>
       executed = (IF skip /\ app # "unset" THEN 1 ELSE 0)
  /\ pc \in {"tell", "end"} => amdAi = verdict
  /\ pc = "end" /\ positive = "true" => skip = TRUE
  /\ gone => ~up
  /\ pc = "tell" /\ ready => ~gone

AmdInv == Phases /\ ReaderPhases /\ Quiet /\ Person /\ HangsUpOnVerdict /\ PositiveHonest

LEMMA AmdInvariant == Spec => [](TypeOK /\ AmdInv)
<1> USE DEF Goto, callVars, localVars, outcomeVars, Closing
<1>1. Init => TypeOK /\ AmdInv
  <2>1. Init => up \in BOOLEAN /\ dataReady \in BOOLEAN /\ isError \in BOOLEAN /\ skip \in BOOLEAN
                /\ ready \in BOOLEAN /\ amdError \in BOOLEAN /\ gone \in BOOLEAN /\ hung \in BOOLEAN
    BY DEF Init
  <2>2. Init => TypeOK
    BY <2>1 DEF Init, TypeOK
  <2>3. Init => AmdInv
    BY DEF Init, AmdInv, Phases, ReaderPhases, Quiet, Person, RunsInClose,
           HangsUpOnVerdict, PositiveHonest
  <2> QED
    BY <2>2, <2>3
<1>2. TypeOK /\ AmdInv /\ [Next]_amdVars => TypeOK'
  <2> SUFFICES ASSUME TypeOK, AmdInv, [Next]_amdVars PROVE TypeOK'
    OBVIOUS
  <2> USE DEF TypeOK
  <2>1. CASE Rejected
    <3>1. amdError' \in BOOLEAN /\ gone' \in BOOLEAN
      BY <2>1 DEF Rejected, Fail, DoExecute
    <3>2. events' \in 0..1 /\ executed' \in 0..1
      BY <2>1 DEF Rejected, Fail, DoExecute, AmdInv, Quiet
    <3>3. pc' \in {"running", "idle"}
      BY <2>1 DEF Rejected, Fail, DoExecute
    <3> QED
      BY <2>1, <3>1, <3>2, <3>3 DEF Rejected, Fail, DoExecute
  <2>2. CASE Open
    BY <2>2 DEF Open
  <2>3. CASE Listen
    BY <2>3 DEF Listen
  <2>4. CASE AddRefused
    <3>1. amdError' \in BOOLEAN /\ gone' \in BOOLEAN
      BY <2>4 DEF AddRefused, Fail, DoExecute
    <3>2. events' \in 0..1 /\ executed' \in 0..1
      BY <2>4 DEF AddRefused, Fail, DoExecute, AmdInv, Quiet
    <3>3. pc' \in {"running", "idle"}
      BY <2>4 DEF AddRefused, Fail, DoExecute
    <3> QED
      BY <2>4, <3>1, <3>2, <3>3 DEF AddRefused, Fail, DoExecute
  <2>5. CASE AddBug
    BY <2>5 DEF AddBug
  <2>6. CASE SendFrame
    BY <2>6 DEF SendFrame
  <2>7. CASE RemoveAll
    BY <2>7 DEF RemoveAll
  <2>8. CASE FinishWrites
    BY <2>8 DEF FinishWrites
  <2>9. CASE FinishStatus
    BY <2>9 DEF FinishStatus
  <2>10. CASE Decide
    <3>1. skip' \in BOOLEAN
      BY <2>10 DEF Decide
    <3>2. verdict' \in Labels \cup {"unset"}
      BY <2>10 DEF Decide, Labels
    <3>3. pc' \in {"execute", "report"}
      BY <2>10 DEF Decide
    <3> QED
      BY <2>10, <3>1, <3>2, <3>3 DEF Decide
  <2>11. CASE Execute
    <3>1. executed' \in 0..1
      BY <2>11 DEF Execute, DoExecute, AmdInv, Person
    <3>2. gone' \in BOOLEAN /\ pc' \in {"running", "report"}
      BY <2>11 DEF Execute, DoExecute
    <3> QED
      BY <2>11, <3>1, <3>2 DEF Execute
  <2>12. CASE Report
    BY <2>12 DEF Report
  <2>21. CASE Returns
    <3>1. gone' \in BOOLEAN /\ pc' \in {"report", "idle"}
      BY <2>21 DEF Returns
    <3> QED
      BY <2>21, <3>1 DEF Returns
  <2>22. CASE WriteReturns
    BY <2>22 DEF WriteReturns
  <2>23. CASE Finished
    BY <2>23 DEF Finished
  <2>27. CASE MaxSilence
    BY <2>27 DEF MaxSilence
  <2>24. CASE NotFinished
    BY <2>24 DEF NotFinished
  <2>25. CASE Tell
    <3>1. events' \in 0..1
      BY <2>25 DEF Tell, AmdInv, Quiet
    <3>2. positive' \in {"unset", "false", "true"}
      BY <2>25 DEF Tell
    <3> QED
      BY <2>25, <3>1, <3>2 DEF Tell
  <2>26. CASE End
    <3>1. up' \in BOOLEAN /\ hung' \in BOOLEAN
      BY <2>26 DEF End
    <3> QED
      BY <2>26, <3>1 DEF End
  <2>13. CASE ReaderReply
    BY <2>13 DEF ReaderReply
  <2>14. CASE ReaderEof
    BY <2>14 DEF ReaderEof
  <2>15. CASE ReaderReady
    BY <2>15 DEF ReaderReady
  <2>16. CASE ServerEnds
    BY <2>16 DEF ServerEnds
  <2>17. CASE Answer
    BY <2>17 DEF Answer
  <2>18. CASE HangUp
    <3>1. up' \in BOOLEAN
      BY <2>18 DEF HangUp
    <3> QED
      BY <2>18, <3>1 DEF HangUp
  <2>19. CASE Destroy
    BY <2>19 DEF Destroy
  <2>20. CASE UNCHANGED amdVars
    BY <2>20 DEF amdVars
  <2> QED
    BY <2>1, <2>2, <2>3, <2>4, <2>5, <2>6, <2>7, <2>8, <2>9, <2>10,
       <2>11, <2>12, <2>13, <2>14, <2>15, <2>16, <2>17, <2>18, <2>19, <2>20,
       <2>21, <2>22, <2>23, <2>24, <2>25, <2>26, <2>27
       DEF Next, Dial, App, Frame, Close, Reader
<1>3. TypeOK /\ AmdInv /\ [Next]_amdVars => AmdInv'
  <2> SUFFICES ASSUME TypeOK, AmdInv, [Next]_amdVars PROVE AmdInv'
    OBVIOUS
  <2> USE DEF TypeOK, AmdInv, Phases, ReaderPhases, Quiet, Person, RunsInClose,
           HangsUpOnVerdict, PositiveHonest
  <2>1. CASE Rejected
    BY <2>1 DEF Rejected, Fail, DoExecute
  <2>2. CASE Open
    BY <2>2 DEF Open
  <2>3. CASE Listen
    BY <2>3 DEF Listen
  <2>4. CASE AddRefused
    BY <2>4 DEF AddRefused, Fail, DoExecute
  <2>5. CASE AddBug
    BY <2>5 DEF AddBug
  <2>6. CASE SendFrame
    BY <2>6 DEF SendFrame
  <2>7. CASE RemoveAll
    BY <2>7 DEF RemoveAll
  <2>8. CASE FinishWrites
    BY <2>8 DEF FinishWrites
  <2>9. CASE FinishStatus
    BY <2>9 DEF FinishStatus
  <2>10. CASE Decide
    BY <2>10 DEF Decide
  <2>11. CASE Execute
    BY <2>11 DEF Execute, DoExecute
  <2>12. CASE Report
    BY <2>12 DEF Report
  <2>21. CASE Returns
    BY <2>21 DEF Returns
  <2>22. CASE WriteReturns
    BY <2>22 DEF WriteReturns
  <2>23. CASE Finished
    BY <2>23 DEF Finished
  <2>27. CASE MaxSilence
    BY <2>27 DEF MaxSilence
  <2>24. CASE NotFinished
    BY <2>24 DEF NotFinished
  <2>25. CASE Tell
    BY <2>25 DEF Tell
  <2>26. CASE End
    BY <2>26 DEF End
  <2>13. CASE ReaderReply
    BY <2>13 DEF ReaderReply
  <2>14. CASE ReaderEof
    BY <2>14 DEF ReaderEof
  <2>15. CASE ReaderReady
    BY <2>15 DEF ReaderReady
  <2>16. CASE ServerEnds
    BY <2>16 DEF ServerEnds
  <2>17. CASE Answer
    BY <2>17 DEF Answer
  <2>18. CASE HangUp
    BY <2>18 DEF HangUp
  <2>19. CASE Destroy
    BY <2>19 DEF Destroy
  <2>20. CASE UNCHANGED amdVars
    BY <2>20 DEF amdVars
  <2> QED
    BY <2>1, <2>2, <2>3, <2>4, <2>5, <2>6, <2>7, <2>8, <2>9, <2>10,
       <2>11, <2>12, <2>13, <2>14, <2>15, <2>16, <2>17, <2>18, <2>19, <2>20,
       <2>21, <2>22, <2>23, <2>24, <2>25, <2>26, <2>27
       DEF Next, Dial, App, Frame, Close, Reader
<1>4. QED
  BY <1>1, <1>2, <1>3, PTL DEF Spec

\* Every variable keeps its type: no call fires more than one event, nor hands
\* the positive application over more than once.
THEOREM TypeCorrect == Spec => []TypeOK
  BY AmdInvariant, PTL

\* The module hangs up only on a verdict: never because the stream failed, and never
\* after it has started the positive application.
THEOREM OnlyOnVerdict == Spec => []HangsUpOnVerdict
<1>1. AmdInv => HangsUpOnVerdict
  BY DEF AmdInv
<1>2. QED
  BY AmdInvariant, <1>1, PTL

\* wbt_amd_ai_positive says "true" only of an answered call with a positive label,
\* whose application, if it has one, was handed over once and left the channel up,
\* and that the module itself does not hang up, whoever hangs it up meanwhile.
THEOREM PositiveIsHonest == Spec => []PositiveHonest
<1>1. AmdInv => PositiveHonest
  BY DEF AmdInv
<1>2. QED
  BY AmdInvariant, <1>1, PTL

-----------------------------------------------------------------------------
(* The client's stream lives as StreamLife says.                           *)

\* The client's stream is opened once, its reader joined before the client is deleted.
THEOREM LivesAsStream == Spec => StreamLives
<1>1. Init => Life!LifeInit
  BY DEF Init, Life!LifeInit
<1>2. TypeOK /\ AmdInv /\ [Next]_amdVars => [Life!LifeNext]_(Life!lifeVars)
  <2> SUFFICES ASSUME TypeOK, AmdInv, [Next]_amdVars
               PROVE  Life!LifeNext \/ UNCHANGED Life!lifeVars
    OBVIOUS
  <2> USE DEF Life!LifeNext, Life!lifeVars, Goto, callVars, localVars
  <2>1. CASE Rejected
    BY <2>1 DEF Rejected, Fail, DoExecute
  <2>2. CASE Open
    <3>1. Life!Open("amd")
      BY <2>2 DEF Open, Life!Open, TypeOK, AmdInv, Phases, ReaderPhases, Closing
    <3> QED
      BY <3>1
  <2>3. CASE Listen
    <3>1. Life!Spawn("amd")
      BY <2>3 DEF Listen, Life!Spawn, TypeOK, AmdInv, Phases, ReaderPhases, Closing
    <3> QED
      BY <3>1
  <2>4. CASE AddRefused
    BY <2>4 DEF AddRefused, Fail, DoExecute
  <2>5. CASE AddBug
    BY <2>5 DEF AddBug
  <2>6. CASE SendFrame
    BY <2>6 DEF SendFrame
  <2>7. CASE RemoveAll
    BY <2>7 DEF RemoveAll
  <2>8. CASE FinishWrites
    <3>1. Life!Finish("amd")
      BY <2>8 DEF FinishWrites, Life!Finish, TypeOK, AmdInv, Phases, ReaderPhases, Closing
    <3> QED
      BY <3>1
  <2>9. CASE FinishStatus
    BY <2>9 DEF FinishStatus
  <2>10. CASE Decide
    BY <2>10 DEF Decide
  <2>11. CASE Execute
    BY <2>11 DEF Execute, DoExecute
  <2>12. CASE Report
    BY <2>12 DEF Report
  <2>21. CASE Returns
    BY <2>21 DEF Returns
  <2>22. CASE WriteReturns
    BY <2>22 DEF WriteReturns
  <2>23. CASE Finished
    BY <2>23 DEF Finished
  <2>27. CASE MaxSilence
    BY <2>27 DEF MaxSilence
  <2>24. CASE NotFinished
    BY <2>24 DEF NotFinished
  <2>25. CASE Tell
    BY <2>25 DEF Tell
  <2>26. CASE End
    <3>1. Life!Delete("amd")
      BY <2>26 DEF End, Life!Delete, TypeOK, AmdInv, Phases, ReaderPhases, Closing
    <3> QED
      BY <3>1
  <2>13. CASE ReaderReply
    BY <2>13 DEF ReaderReply
  <2>14. CASE ReaderEof
    BY <2>14 DEF ReaderEof
  <2>15. CASE ReaderReady
    <3>1. Life!Exit("amd")
      BY <2>15 DEF ReaderReady, Life!Exit, TypeOK, AmdInv, Phases, ReaderPhases, Closing
    <3> QED
      BY <3>1
  <2>16. CASE ServerEnds
    BY <2>16 DEF ServerEnds
  <2>17. CASE Answer
    BY <2>17 DEF Answer
  <2>18. CASE HangUp
    BY <2>18 DEF HangUp
  <2>19. CASE Destroy
    BY <2>19 DEF Destroy
  <2>20. CASE UNCHANGED amdVars
    BY <2>20 DEF amdVars
  <2> QED
    BY <2>1, <2>2, <2>3, <2>4, <2>5, <2>6, <2>7, <2>8, <2>9, <2>10,
       <2>11, <2>12, <2>13, <2>14, <2>15, <2>16, <2>17, <2>18, <2>19, <2>20,
       <2>21, <2>22, <2>23, <2>24, <2>25, <2>26, <2>27
       DEF Next, Dial, App, Frame, Close, Reader
<1>3. QED
  BY <1>1, <1>2, AmdInvariant, PTL DEF Spec, StreamLives, Life!LifeSpec
=============================================================================
