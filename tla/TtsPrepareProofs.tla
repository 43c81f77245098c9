--------------------------- MODULE TtsPrepareProofs ---------------------------
(***************************************************************************)
(* Theorems about TtsPrepare, for any number of files and every set of     *)
(* status codes.                                                           *)
(***************************************************************************)
EXTENDS TtsPrepare, TLAPS

\* While the channel is there each file but the one that plays has left its result.
Counted == up => results = (IF pc = "idle" THEN files ELSE files - 1)

\* A file that plays was opened, and its 200 has grounds, as has that of the last one.
Grounded ==
  /\ pc # "idle" => files > 0
  /\ pc # "idle" /\ file.cached => grounds = "cache"
  /\ pc # "idle" /\ file.code = 200 => grounds # "none"
  /\ up /\ pc = "idle" /\ response = 200 => grounds # "none"

\* The two variables agree, and no file leaves its connection open.
Agreeing ==
  /\ error = NoError <=> response \in {0, 200}
  /\ pc = "idle" => conn = "none"

LEMMA Invariant == Init /\ [][Next]_ttsVars => [](TypeOK /\ Counted /\ Grounded /\ Agreeing)
<1>1. Init => TypeOK /\ Counted /\ Grounded /\ Agreeing
  <2>1. Init => up \in BOOLEAN /\ file \in [cached : BOOLEAN, code : Codes, err : BOOLEAN,
                                            unavailable : 0 .. MaxUnavailable]
    BY FilesAssumption DEF Init, NewFile
  <2> QED
    BY <2>1, FilesAssumption DEF Init, TypeOK, Counted, Grounded, Agreeing, NoAnswer, NewFile
<1>2. TypeOK /\ Counted /\ Grounded /\ [Next]_ttsVars => TypeOK'
  <2> SUFFICES ASSUME TypeOK, Counted, Grounded, [Next]_ttsVars PROVE TypeOK'
    OBVIOUS
  <2> USE FilesAssumption DEF TypeOK
  <2>1. CASE OpenCached
    <3>1. file' \in [cached : BOOLEAN, code : Codes, err : BOOLEAN,
                   unavailable : 0 .. MaxUnavailable]
      <4>1. NewFile \in [cached : BOOLEAN, code : Codes, err : BOOLEAN,
                     unavailable : 0 .. MaxUnavailable]
        BY FilesAssumption DEF NewFile
      <4> QED
        BY <2>1, <4>1 DEF OpenCached
    <3>2. files' \in 0 .. MaxFiles /\ answer' = NoAnswer
      BY <2>1 DEF OpenCached, NextFile
    <3>3. pc' = "playing" /\ conn' \in {"none", "open"} /\ grounds' \in {"cache", "none"}
          /\ UNCHANGED <<up, response, error, results>>
      BY <2>1 DEF OpenCached, NextFile
    <3> QED
      BY <3>1, <3>2, <3>3
  <2>2. CASE OpenFails
    <3>1. file' \in [cached : BOOLEAN, code : Codes, err : BOOLEAN,
                   unavailable : 0 .. MaxUnavailable]
      BY <2>2, FilesAssumption DEF OpenFails, NextFile, SetResult, NewFile
    <3>2. files' \in 0 .. MaxFiles /\ answer' = NoAnswer
      BY <2>2 DEF OpenFails, NextFile, SetResult
    <3>3. results' \in 0 .. MaxFiles
      BY <2>2 DEF OpenFails, NextFile, SetResult, Counted
    <3>4. response' \in Codes \cup {0} /\ error' \in {NoError, "prepare", "json"}
      BY <2>2 DEF OpenFails, NextFile, SetResult
    <3>5. conn' = "none" /\ grounds' = "none" /\ UNCHANGED <<up, pc>>
      BY <2>2 DEF OpenFails, NextFile, SetResult
    <3> QED
      BY <3>1, <3>2, <3>3, <3>4, <3>5
  <2>3. CASE OpenConnected
    <3>1. file' \in [cached : BOOLEAN, code : Codes, err : BOOLEAN,
                   unavailable : 0 .. MaxUnavailable]
      BY <2>3, FilesAssumption DEF OpenConnected, NextFile, NewFile
    <3>2. files' \in 0 .. MaxFiles /\ answer' = NoAnswer
      BY <2>3 DEF OpenConnected, NextFile
    <3>3. pc' = "playing" /\ conn' \in {"none", "open"} /\ grounds' \in {"cache", "none"}
          /\ UNCHANGED <<up, response, error, results>>
      BY <2>3 DEF OpenConnected, NextFile
    <3> QED
      BY <3>1, <3>2, <3>3
  <2>4. CASE ReadCached
    BY <2>4 DEF ReadCached
  <2>5. CASE ReadAnswer
    <3>1. file' \in [cached : BOOLEAN, code : Codes, err : BOOLEAN,
                   unavailable : 0 .. MaxUnavailable]
      <4>1. CASE answer.kind = "reply"
        <5>1. answer.code \in Codes /\ answer.json \in BOOLEAN
          BY <4>1 DEF Answers, NoAnswer
        <5> QED
          BY <2>5, <4>1, <5>1 DEF ReadAnswer, Extracted
      <4>2. CASE answer.kind # "reply"
        BY <2>5, <4>2 DEF ReadAnswer, Extracted
      <4> QED
        BY <4>1, <4>2
    <3> QED
      BY <2>5, <3>1 DEF ReadAnswer
  <2>6. CASE ReadReset
    BY <2>6 DEF ReadReset
  <2>7. CASE ReadSilence
    BY <2>7 DEF ReadSilence, ttsVars
  <2>8. CASE ReadInterrupted
    <3>1. file' \in [cached : BOOLEAN, code : Codes, err : BOOLEAN,
                   unavailable : 0 .. MaxUnavailable]
      BY <2>8 DEF ReadInterrupted
    <3>2. pc' \in {"playing", "ended"}
      BY <2>8 DEF ReadInterrupted
    <3> QED
      BY <2>8, <3>1, <3>2 DEF ReadInterrupted
  <2>9. CASE ReadBadDescriptor
    BY <2>9 DEF ReadBadDescriptor
  <2>10. CASE Close
    <3>1. results' \in 0 .. MaxFiles
      BY <2>10 DEF Close, SetResult, Counted, Grounded
    <3>2. response' \in Codes \cup {0} /\ error' \in {NoError, "prepare", "json"}
      BY <2>10 DEF Close, SetResult
    <3> QED
      BY <2>10, <3>1, <3>2 DEF Close
  <2>11. CASE ServerAnswers
    BY <2>11 DEF ServerAnswers
  <2>12. CASE Hangup
    BY <2>12 DEF Hangup
  <2>13. CASE UNCHANGED ttsVars
    BY <2>13 DEF ttsVars
  <2> QED
    BY <2>1, <2>2, <2>3, <2>4, <2>5, <2>6, <2>7, <2>8, <2>9, <2>10,
       <2>11, <2>12, <2>13
       DEF Next, Read
<1>3. TypeOK /\ Counted /\ Grounded /\ Agreeing /\ [Next]_ttsVars => Counted'
  <2> SUFFICES ASSUME TypeOK, Counted, Grounded, Agreeing, [Next]_ttsVars PROVE Counted'
    OBVIOUS
    <2> files \in 0 .. MaxFiles /\ results \in 0 .. MaxFiles /\ MaxFiles \in Nat
    BY FilesAssumption DEF TypeOK
  <2> USE DEF Counted
  <2>1. CASE OpenCached
    BY <2>1 DEF OpenCached, NextFile
  <2>2. CASE OpenFails
    BY <2>2 DEF OpenFails, NextFile, SetResult
  <2>3. CASE OpenConnected
    BY <2>3 DEF OpenConnected, NextFile
  <2>4. CASE ReadCached
    BY <2>4 DEF ReadCached
  <2>5. CASE ReadAnswer
    BY <2>5 DEF ReadAnswer, Extracted
  <2>6. CASE ReadReset
    BY <2>6 DEF ReadReset
  <2>7. CASE ReadSilence
    BY <2>7 DEF ReadSilence, ttsVars
  <2>8. CASE ReadInterrupted
    BY <2>8 DEF ReadInterrupted
  <2>9. CASE ReadBadDescriptor
    BY <2>9 DEF ReadBadDescriptor
  <2>10. CASE Close
    BY <2>10 DEF Close, SetResult
  <2>11. CASE ServerAnswers
    BY <2>11 DEF ServerAnswers
  <2>12. CASE Hangup
    BY <2>12 DEF Hangup
  <2>13. CASE UNCHANGED ttsVars
    BY <2>13 DEF ttsVars
  <2> QED
    BY <2>1, <2>2, <2>3, <2>4, <2>5, <2>6, <2>7, <2>8, <2>9, <2>10,
       <2>11, <2>12, <2>13
       DEF Next, Read
<1>4. TypeOK /\ Counted /\ Grounded /\ Agreeing /\ [Next]_ttsVars => Grounded'
  <2> SUFFICES ASSUME TypeOK, Counted, Grounded, Agreeing, [Next]_ttsVars PROVE Grounded'
    OBVIOUS
    <2> files \in 0 .. MaxFiles /\ MaxFiles \in Nat /\ pc \in {"idle", "playing", "ended"}
    BY FilesAssumption DEF TypeOK
  <2> file \in [cached : BOOLEAN, code : Codes, err : BOOLEAN,
                 unavailable : 0 .. MaxUnavailable]
    BY DEF TypeOK
  <2> NewFile.cached = FALSE /\ NewFile.code = 500 /\ [NewFile EXCEPT !.cached = TRUE].code = 500
    BY DEF NewFile
  <2> USE DEF Grounded
  <2>1. CASE OpenCached
    BY <2>1 DEF OpenCached, NextFile
  <2>2. CASE OpenFails
    BY <2>2 DEF OpenFails, NextFile, SetResult
  <2>3. CASE OpenConnected
    BY <2>3 DEF OpenConnected, NextFile
  <2>4. CASE ReadCached
    BY <2>4 DEF ReadCached
  <2>5. CASE ReadAnswer
    BY <2>5 DEF ReadAnswer, Extracted
  <2>6. CASE ReadReset
    BY <2>6 DEF ReadReset
  <2>7. CASE ReadSilence
    BY <2>7 DEF ReadSilence, ttsVars
  <2>8. CASE ReadInterrupted
    BY <2>8 DEF ReadInterrupted
  <2>9. CASE ReadBadDescriptor
    BY <2>9 DEF ReadBadDescriptor
  <2>10. CASE Close
    BY <2>10 DEF Close, SetResult
  <2>11. CASE ServerAnswers
    BY <2>11 DEF ServerAnswers
  <2>12. CASE Hangup
    BY <2>12 DEF Hangup
  <2>13. CASE UNCHANGED ttsVars
    BY <2>13 DEF ttsVars
  <2> QED
    BY <2>1, <2>2, <2>3, <2>4, <2>5, <2>6, <2>7, <2>8, <2>9, <2>10,
       <2>11, <2>12, <2>13
       DEF Next, Read
<1>5. TypeOK /\ Counted /\ Grounded /\ Agreeing /\ [Next]_ttsVars => Agreeing'
  <2> SUFFICES ASSUME TypeOK, Counted, Grounded, Agreeing, [Next]_ttsVars PROVE Agreeing'
    OBVIOUS
    <2> pc \in {"idle", "playing", "ended"} /\ file.code \in Codes /\ 0 \notin Codes
    BY FilesAssumption DEF TypeOK
  <2> NoError # "json" /\ NoError # "prepare"
    BY DEF NoError
  <2> USE DEF Agreeing
  <2>1. CASE OpenCached
    BY <2>1 DEF OpenCached, NextFile
  <2>2. CASE OpenFails
    BY <2>2 DEF OpenFails, NextFile, SetResult
  <2>3. CASE OpenConnected
    BY <2>3 DEF OpenConnected, NextFile
  <2>4. CASE ReadCached
    BY <2>4 DEF ReadCached
  <2>5. CASE ReadAnswer
    BY <2>5 DEF ReadAnswer, Extracted
  <2>6. CASE ReadReset
    BY <2>6 DEF ReadReset
  <2>7. CASE ReadSilence
    BY <2>7 DEF ReadSilence, ttsVars
  <2>8. CASE ReadInterrupted
    BY <2>8 DEF ReadInterrupted
  <2>9. CASE ReadBadDescriptor
    BY <2>9 DEF ReadBadDescriptor
  <2>10. CASE Close
    BY <2>10 DEF Close, SetResult
  <2>11. CASE ServerAnswers
    BY <2>11 DEF ServerAnswers
  <2>12. CASE Hangup
    BY <2>12 DEF Hangup
  <2>13. CASE UNCHANGED ttsVars
    BY <2>13 DEF ttsVars
  <2> QED
    BY <2>1, <2>2, <2>3, <2>4, <2>5, <2>6, <2>7, <2>8, <2>9, <2>10,
       <2>11, <2>12, <2>13
       DEF Next, Read
<1>6. QED
  BY <1>1, <1>2, <1>3, <1>4, <1>5, PTL

\* Every variable keeps its type: a file is spoiled by MaxUnavailable interruptions at most.
THEOREM TypeCorrect == Spec => []TypeOK
  BY Invariant, PTL DEF Spec

\* Once a file is done its connection is closed and, unless the channel is gone, its
\* result is there, with variables that agree and a 200 that has grounds.
THEOREM EveryFileSettled == Spec => []FileSettled
<1>1. TypeOK /\ Counted /\ Grounded /\ Agreeing => FileSettled
  BY DEF TypeOK, Counted, Grounded, Agreeing, FileSettled
<1>2. QED
  BY Invariant, <1>1, PTL DEF Spec
=============================================================================
