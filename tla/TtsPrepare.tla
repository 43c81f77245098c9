------------------------------ MODULE TtsPrepare ------------------------------
(***************************************************************************)
(* The file interface that has a server prepare a text for playback.       *)
(* Opening a file asks the server; while it is read it gives silence until *)
(* the server answers; the result is left in two variables of the channel  *)
(* the file names.  The player opens, reads and closes one file after      *)
(* another; server, hangup and break act between its calls.                *)
(***************************************************************************)
EXTENDS Integers

CONSTANTS
  MaxFiles,         \* files played one after another
  MaxUnavailable,   \* reads that an interrupted select may spoil (10 in the code)
  Codes             \* status codes of the server

ASSUME FilesAssumption ==
  /\ MaxFiles \in Nat /\ MaxUnavailable \in Nat /\ 200 \in Codes /\ 500 \in Codes
  /\ Codes \subseteq Nat \ {0}

VARIABLES
  up,        \* the channel is found by switch_core_session_locate
  files,     \* files opened so far, or tried
  pc,        \* the player: "idle", "playing", "ended" (not closed yet)
  file,      \* the handle: cached, code, err, unavailable
  conn,      \* the connection: "none", "open"
  answer,    \* what the socket holds: nothing, a reply, the end or the break of the connection
  response,  \* wbt_tts_response, 0 while it is not set
  error,     \* wbt_tts_error: NoError, "prepare" (its default text) or "json" (the body)
  grounds,   \* history: what the file's code is based on
  results    \* history: results left on the channel

ttsVars == <<up, files, pc, file, conn, answer, response, error, grounds, results>>

\* The variable is not set.
NoError == ""

NoAnswer == [kind |-> "nothing"]
Answers  == [kind : {"reply"}, code : Codes, json : BOOLEAN] \cup [kind : {"closed", "reset"}]

\* Handle of a file just opened.
NewFile == [cached |-> FALSE, code |-> 500, err |-> FALSE, unavailable |-> 0]

TypeOK ==
  /\ up \in BOOLEAN
  /\ files \in 0 .. MaxFiles
  /\ pc \in {"idle", "playing", "ended"}
  /\ file \in [cached : BOOLEAN, code : Codes, err : BOOLEAN, unavailable : 0 .. MaxUnavailable]
  /\ conn \in {"none", "open"}
  /\ answer \in Answers \cup {NoAnswer}
  /\ response \in Codes \cup {0}
  /\ error \in {NoError, "prepare", "json"}
  /\ grounds \in {"none", "cache", "server", "badfd"}
  /\ results \in 0 .. MaxFiles

Init ==
  /\ up = TRUE
  /\ files = 0
  /\ pc = "idle"
  /\ file = NewFile
  /\ conn = "none"
  /\ answer = NoAnswer
  /\ response = 0
  /\ error = NoError
  /\ grounds = "none"
  /\ results = 0

-----------------------------------------------------------------------------
\* tts_set_result: a channel that is gone gets none.
SetResult(code, err) ==
  \/ /\ up
     /\ response' = code
     /\ error' = IF code = 200 THEN NoError ELSE IF err THEN "json" ELSE "prepare"
     /\ results' = results + 1
  \/ /\ ~up
     /\ UNCHANGED <<response, error, results>>

NextFile ==
  /\ pc = "idle" /\ files < MaxFiles
  /\ files' = files + 1
  /\ answer' = NoAnswer

\* The cache has the file.
OpenCached ==
  /\ NextFile
  /\ pc' = "playing"
  /\ file' = [NewFile EXCEPT !.cached = TRUE]
  /\ conn' = "none"
  /\ grounds' = "cache"
  /\ UNCHANGED <<up, response, error, results>>

\* Mutant: a failed request leaves no result.
OpenFailsSilent ==
  /\ NextFile
  /\ file' = NewFile
  /\ conn' = "none"
  /\ grounds' = "none"
  /\ UNCHANGED <<up, pc, response, error, results>>

\* No connection, no socket, or the request cannot be sent: the player does not close
\* a file that did not open.
OpenFails ==
  /\ NextFile
  /\ file' = NewFile
  /\ conn' = "none"
  /\ grounds' = "none"
  /\ SetResult(500, FALSE)
  /\ UNCHANGED <<up, pc>>

\* The request is sent.
OpenConnected ==
  /\ NextFile
  /\ pc' = "playing"
  /\ file' = NewFile
  /\ conn' = "open"
  /\ grounds' = "none"
  /\ UNCHANGED <<up, response, error, results>>

-----------------------------------------------------------------------------
(* One read.  The player goes on after silence and ends after any other    *)
(* status.                                                                 *)

\* The cached file needs no playback.
ReadCached ==
  /\ pc = "playing" /\ file.cached
  /\ file' = [file EXCEPT !.code = 200]
  /\ pc' = "ended"
  /\ UNCHANGED <<up, files, conn, answer, response, error, grounds, results>>

\* The code of a reply and, with a JSON body, its error; no code in anything else.
Extracted ==
  IF answer.kind = "reply"
  THEN [file EXCEPT !.code = answer.code, !.err = answer.json]
  ELSE file

\* Mutant: playback goes on after the answer.
ReadAnswerOn ==
  /\ pc = "playing" /\ ~file.cached /\ answer.kind \in {"reply", "closed"}
  /\ file' = Extracted
  /\ grounds' = IF answer.kind = "reply" THEN "server" ELSE grounds
  /\ answer' = NoAnswer
  /\ UNCHANGED <<up, files, pc, conn, response, error, results>>

\* The socket is ready, or select was interrupted: an answer is taken, also the empty
\* one of a connection the server closed, which leaves the code at 500.
ReadAnswer ==
  /\ pc = "playing" /\ ~file.cached /\ answer.kind \in {"reply", "closed"}
  /\ file' = Extracted
  /\ grounds' = IF answer.kind = "reply" THEN "server" ELSE grounds
  /\ answer' = NoAnswer
  /\ pc' = "ended"
  /\ UNCHANGED <<up, files, conn, response, error, results>>

\* The connection broke.
ReadReset ==
  /\ pc = "playing" /\ ~file.cached /\ answer.kind = "reset"
  /\ pc' = "ended"
  /\ UNCHANGED <<up, files, file, conn, answer, response, error, grounds, results>>

\* Nothing came within 10 ms, or the socket was ready for nothing: silence.
ReadSilence ==
  /\ pc = "playing" /\ ~file.cached /\ answer.kind = "nothing"
  /\ UNCHANGED ttsVars

\* select fails and nothing can be received: EAGAIN is silence, MaxUnavailable times;
\* any other error ends the file at once, with the code it has (500).
ReadInterrupted ==
  /\ pc = "playing" /\ ~file.cached /\ answer.kind = "nothing"
  /\ \/ /\ file.unavailable < MaxUnavailable
        /\ file' = [file EXCEPT !.unavailable = @ + 1] /\ UNCHANGED pc
     \/ pc' = "ended" /\ UNCHANGED file
  /\ UNCHANGED <<up, files, conn, answer, response, error, grounds, results>>

\* The descriptor is no longer valid: taken for prepared.
ReadBadDescriptor ==
  /\ pc = "playing" /\ ~file.cached
  /\ file' = [file EXCEPT !.code = 200]
  /\ grounds' = "badfd"
  /\ pc' = "ended"
  /\ UNCHANGED <<up, files, conn, answer, response, error, results>>

\* The player closes a file that ended, or that a break or the hangup cut short.
Close ==
  /\ pc \in {"playing", "ended"}
  /\ conn' = "none"
  /\ SetResult(file.code, file.err)
  /\ pc' = "idle"
  /\ UNCHANGED <<up, files, file, answer, grounds>>

-----------------------------------------------------------------------------
ServerAnswers ==
  /\ pc # "idle" /\ conn = "open" /\ answer = NoAnswer
  /\ answer' \in Answers
  /\ UNCHANGED <<up, files, pc, file, conn, response, error, grounds, results>>

Hangup ==
  /\ up
  /\ up' = FALSE
  /\ UNCHANGED <<files, pc, file, conn, answer, response, error, grounds, results>>

Read ==
  \/ ReadCached \/ ReadAnswer \/ ReadReset \/ ReadSilence \/ ReadInterrupted \/ ReadBadDescriptor

Next ==
  \/ OpenCached \/ OpenFails \/ OpenConnected \/ Read \/ Close \/ ServerAnswers \/ Hangup

\* The player reads until the file ends and then closes it.
Fairness == WF_ttsVars(Read) /\ WF_ttsVars(pc = "ended" /\ Close)

Spec == Init /\ [][Next]_ttsVars /\ Fairness

-----------------------------------------------------------------------------
(* Properties.                                                             *)

\* Whatever happened to a file, once it is done its connection is closed and, unless
\* the channel is gone, the channel has its result: one for each file, also for one
\* that did not open.  The two variables agree, although those of an earlier file
\* were there, and 200 has grounds: the server said so, the cache had the file or
\* the descriptor had become invalid, but never a server that was lost or silent.
FileSettled ==
  pc = "idle" =>
    /\ conn = "none"
    /\ up => /\ results = files
             /\ error = NoError <=> response \in {0, 200}
             /\ response = 200 => grounds # "none"

\* An answer, an end or a break of the connection ends the playback of silence.
AnswerEnds == pc = "playing" /\ answer.kind # "nothing" ~> pc = "idle"
=============================================================================
