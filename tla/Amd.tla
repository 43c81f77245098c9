--------------------------------- MODULE Amd ---------------------------------
(***************************************************************************)
(* The wbt_amd application: answering machine detection by a gRPC service. *)
(* The application adds a media bug and returns; the session's thread then *)
(* runs the dialplan and the bug's callbacks.  A reader thread waits for   *)
(* the one reply of the service.  The channel is answered and hung up by   *)
(* others at any moment.                                                   *)
(***************************************************************************)
EXTENDS Integers

CONSTANTS
  Results,   \* the labels the service may answer with
  Positive   \* the labels the application takes for a person

\* A reply without a result.
NoReply == ""

ASSUME LabelsAssumption ==
  Results \cap {NoReply, "unset", "undefined", "silence", "no_answer"} = {}

VARIABLES
  up,        \* switch_channel_ready
  answered,  \* CF_ANSWERED
  pc,        \* the session's thread
  bug,       \* "none", "linked", "removed"
  call,      \* "none", "open", "finishing", "deleted"
  reader,    \* "none", "read", "got", "exited"
  server,    \* the service's side: "open", "ok" or "error"
  reply,     \* the label received, NoReply while there is none
  dataReady,
  isError,
  verdict,   \* amd_result, between Finish and the variables
  skip,      \* skip_hangup
  ready,     \* what switch_channel_ready said before the verdict was told
  app,       \* amd_on_positive: "unset", or run here ("waits") or queued ("async")
  amdAi,     \* channel variable wbt_amd_ai
  positive,  \* wbt_amd_ai_positive
  amdError,  \* wbt_amd_ai_error is set
  events,    \* history: amd events fired
  executed,  \* history: runs of amd_on_positive handed to the core
  gone,      \* history: the channel was down when do_execute returned
  hung       \* history: the module hung the call up

callVars    == <<bug, call, reader, server, reply, dataReady, isError>>
localVars   == <<verdict, skip, ready, app>>
outcomeVars == <<amdAi, positive, amdError, events, executed, gone, hung>>
amdVars == <<up, answered, pc, callVars, localVars, outcomeVars>>

Labels == Results \cup {"undefined", "silence", "no_answer"}

TypeOK ==
  /\ up \in BOOLEAN /\ answered \in BOOLEAN
  /\ pc \in {"start", "listen", "add", "idle", "write", "look", "finish", "status",
             "verdict", "execute", "running", "report", "tell", "end", "destroyed"}
  /\ bug \in {"none", "linked", "removed"}
  /\ call \in {"none", "open", "finishing", "deleted"}
  /\ reader \in {"none", "read", "got", "exited"}
  /\ server \in {"open", "ok", "error"}
  /\ reply \in Results \cup {NoReply}
  /\ dataReady \in BOOLEAN /\ isError \in BOOLEAN
  /\ verdict \in Labels \cup {"unset"}
  /\ skip \in BOOLEAN /\ ready \in BOOLEAN
  /\ app \in {"unset", "waits", "async"}
  /\ amdAi \in Labels \cup {"unset"}
  /\ positive \in {"unset", "false", "true"}
  /\ amdError \in BOOLEAN
  /\ events \in 0..1 /\ executed \in 0..1
  /\ gone \in BOOLEAN /\ hung \in BOOLEAN

Init ==
  /\ up = TRUE /\ answered \in BOOLEAN
  /\ pc = "start"
  /\ bug = "none" /\ call = "none" /\ reader = "none" /\ server = "open"
  /\ reply = NoReply /\ dataReady = FALSE /\ isError = FALSE
  /\ verdict = "unset" /\ skip = FALSE /\ ready = FALSE
  /\ app \in {"unset", "waits", "async"}
  /\ amdAi = "unset" /\ positive = "unset" /\ amdError = FALSE
  /\ events = 0 /\ executed = 0 /\ gone = FALSE /\ hung = FALSE

Goto(from, to) == pc = from /\ pc' = to

-----------------------------------------------------------------------------
(* The application.                                                        *)

\* do_execute: nothing when amd_on_positive is not set; an application whose name
\* says so ("::", perl) is queued, any other one runs in this thread.
DoExecute(from, next) ==
  /\ Goto(from, IF app = "waits" THEN "running" ELSE next)
  /\ executed' = IF app = "unset" THEN executed ELSE executed + 1
  /\ gone' = ~up

\* The application that runs in this thread is done.
Returns ==
  /\ Goto("running", IF skip THEN "report" ELSE "idle")
  /\ gone' = ~up
  /\ UNCHANGED <<up, answered, callVars, localVars, amdAi, positive, amdError, events,
                 executed, hung>>

\* The error_ label: the variable, the event, then the positive application.
Fail(from) ==
  /\ DoExecute(from, "idle")
  /\ amdError' = TRUE
  /\ events' = events + 1
  /\ UNCHANGED <<amdAi, positive, hung>>

\* Disabled, no labels, no domain, no media, or no client: the first write failed.
Rejected ==
  /\ Fail("start")
  /\ UNCHANGED <<up, answered, callVars, localVars>>

\* AMDClient::Stream: the first write, then the reader thread.
Open ==
  /\ Goto("start", "listen")
  /\ call' = "open"
  /\ UNCHANGED <<up, answered, bug, reader, server, reply, dataReady, isError,
                 localVars, outcomeVars>>

Listen ==
  /\ Goto("listen", "add")
  /\ reader' = "read"
  /\ UNCHANGED <<up, answered, bug, call, server, reply, dataReady, isError,
                 localVars, outcomeVars>>

\* The client of a refused bug is neither finished nor deleted.
AddRefused ==
  /\ Fail("add")
  /\ UNCHANGED <<up, answered, callVars, localVars>>

AddBug ==
  /\ up
  /\ Goto("add", "idle")
  /\ bug' = "linked"
  /\ UNCHANGED <<up, answered, call, reader, server, reply, dataReady, isError,
                 localVars, outcomeVars>>

-----------------------------------------------------------------------------
(* The bug's callbacks.                                                    *)

\* A frame is handed to rw->Write.
SendFrame ==
  /\ up /\ bug = "linked"
  /\ Goto("idle", "write")
  /\ UNCHANGED <<up, answered, callVars, localVars, outcomeVars>>

\* The synchronous Write, which has no deadline, returns when the stream's flow
\* control has let the frame pass or when the stream is over: nobody asks which.
WriteReturns ==
  /\ Goto("write", "look")
  /\ UNCHANGED <<up, answered, callVars, localVars, outcomeVars>>

\* Finished(): a reply, or the end of the stream, ends the bug; the core closes it
\* at once.
Finished ==
  /\ dataReady
  /\ Goto("look", "finish")
  /\ bug' = "removed"
  /\ UNCHANGED <<up, answered, call, reader, server, reply, dataReady, isError,
                 localVars, outcomeVars>>

\* So does silence for max_silence_sec, where the detector is on, without a reply.
MaxSilence ==
  /\ Goto("look", "finish")
  /\ bug' = "removed"
  /\ UNCHANGED <<up, answered, call, reader, server, reply, dataReady, isError,
                 localVars, outcomeVars>>

\* dataReady is a plain bool: a callback may miss it, and see it in a later frame.
NotFinished ==
  /\ Goto("look", "idle")
  /\ UNCHANGED <<up, answered, callVars, localVars, outcomeVars>>

\* At the end of the session the core closes the bug.
RemoveAll ==
  /\ ~up /\ bug = "linked"
  /\ Goto("idle", "finish")
  /\ bug' = "removed"
  /\ UNCHANGED <<up, answered, call, reader, server, reply, dataReady, isError,
                 localVars, outcomeVars>>

\* CLOSE, Finish: WritesDone.
FinishWrites ==
  /\ Goto("finish", "status")
  /\ call' = "finishing"
  /\ UNCHANGED <<up, answered, bug, reader, server, reply, dataReady, isError,
                 localVars, outcomeVars>>

\* Mutant: the reader is not joined.
FinishNoJoin ==
  /\ server # "open"
  /\ Goto("status", "verdict")
  /\ isError' = (server = "error")
  /\ UNCHANGED <<up, answered, bug, call, reader, server, reply, dataReady,
                 localVars, outcomeVars>>

\* rw->Finish blocks until the service ends the stream; then the join.
FinishStatus ==
  /\ server # "open" /\ reader = "exited"
  /\ Goto("status", "verdict")
  /\ isError' = (server = "error")
  /\ UNCHANGED <<up, answered, bug, call, reader, server, reply, dataReady,
                 localVars, outcomeVars>>

\* The label, which is "silence" where the detector is on and the channel answered,
\* and what a positive one means on a channel that is not answered.
Decide ==
  \E label \in IF reply # NoReply THEN {reply}
               ELSE {"undefined"} \cup (IF answered THEN {"silence"} ELSE {}) :
    LET person == label \in Positive IN
    /\ Goto("verdict", IF person /\ answered THEN "execute" ELSE "report")
    /\ skip' = (person /\ answered)
    /\ verdict' = IF person /\ ~answered THEN "no_answer" ELSE label
    /\ UNCHANGED <<up, answered, callVars, ready, app, outcomeVars>>

\* The positive application comes before the variables.
Execute ==
  /\ DoExecute("execute", "report")
  /\ UNCHANGED <<up, answered, callVars, localVars, amdAi, positive, amdError, events, hung>>

\* wbt_amd_ai, and whether the channel is still there.
Report ==
  /\ Goto("report", "tell")
  /\ amdAi' = verdict
  /\ ready' = up
  /\ UNCHANGED <<up, answered, callVars, verdict, skip, app, positive, amdError, events,
                 executed, gone, hung>>

\* Mutant: the positive flag forgets that the channel is gone.
TellGone ==
  /\ Goto("tell", "end")
  /\ positive' = IF skip THEN "true" ELSE "false"
  /\ events' = IF ready THEN events + 1 ELSE events
  /\ UNCHANGED <<up, answered, callVars, localVars, amdAi, amdError, executed, gone, hung>>

\* wbt_amd_ai_positive and the event, by the look before: the channel may be hung
\* up since.
Tell ==
  /\ Goto("tell", "end")
  /\ positive' = IF ready /\ skip THEN "true" ELSE "false"
  /\ events' = IF ready THEN events + 1 ELSE events
  /\ UNCHANGED <<up, answered, callVars, localVars, amdAi, amdError, executed, gone, hung>>

\* Mutant: a stream that failed hangs up, too.
EndHangsUp ==
  /\ Goto("end", "idle")
  /\ up' = (up /\ skip)
  /\ hung' = (up /\ ~skip)
  /\ call' = "deleted"
  /\ UNCHANGED <<answered, bug, reader, server, reply, dataReady, isError, localVars,
                 amdAi, positive, amdError, events, executed, gone>>

\* The hangup of a call nobody answered in person, and the end of the client.
End ==
  /\ Goto("end", "idle")
  /\ up' = (up /\ (skip \/ isError))
  /\ hung' = (up /\ ~skip /\ ~isError)
  /\ call' = "deleted"
  /\ UNCHANGED <<answered, bug, reader, server, reply, dataReady, isError, localVars,
                 amdAi, positive, amdError, events, executed, gone>>

-----------------------------------------------------------------------------
(* The reader thread and the service.                                      *)

\* The reply may arrive with the end of the stream behind it.
ReaderReply ==
  /\ reader = "read"
  /\ reader' = "got"
  /\ reply' \in Results \cup {NoReply}
  /\ UNCHANGED <<up, answered, pc, bug, call, server, dataReady, isError, localVars,
                 outcomeVars>>

\* Read returns false and leaves the reply as it was.
ReaderEof ==
  /\ reader = "read" /\ server # "open"
  /\ reader' = "got"
  /\ UNCHANGED <<up, answered, pc, bug, call, server, reply, dataReady, isError,
                 localVars, outcomeVars>>

\* Mutant: only a reply sets dataReady.
ReaderReadyReply ==
  /\ reader = "got" /\ reader' = "exited"
  /\ dataReady' = (reply # NoReply)
  /\ UNCHANGED <<up, answered, pc, bug, call, server, reply, isError, localVars,
                 outcomeVars>>

ReaderReady ==
  /\ reader = "got" /\ reader' = "exited"
  /\ dataReady' = TRUE
  /\ UNCHANGED <<up, answered, pc, bug, call, server, reply, isError, localVars,
                 outcomeVars>>

\* The service ends the stream, or the connection breaks.
ServerEnds ==
  /\ reader # "none" /\ server = "open"
  /\ server' \in {"ok", "error"}
  /\ UNCHANGED <<up, answered, pc, bug, call, reader, reply, dataReady, isError,
                 localVars, outcomeVars>>

-----------------------------------------------------------------------------
(* The channel.                                                            *)

Answer ==
  /\ up /\ ~answered /\ answered' = TRUE
  /\ UNCHANGED <<up, pc, callVars, localVars, outcomeVars>>

HangUp ==
  /\ up /\ up' = FALSE
  /\ UNCHANGED <<answered, pc, callVars, localVars, outcomeVars>>

Destroy ==
  /\ ~up /\ bug # "linked"
  /\ Goto("idle", "destroyed")
  /\ UNCHANGED <<up, answered, callVars, localVars, outcomeVars>>

-----------------------------------------------------------------------------
Dial   == Rejected \/ Open
App    == Listen \/ AddRefused \/ AddBug
Frame  == SendFrame \/ NotFinished
Close  == FinishWrites \/ FinishStatus \/ Decide \/ Execute \/ Report \/ Tell \/ End
Reader == ReaderReply \/ ReaderEof \/ ReaderReady

Next == Dial \/ App \/ Returns \/ Frame \/ WriteReturns \/ Finished \/ MaxSilence \/ RemoveAll
        \/ Close \/ Reader \/ ServerEnds \/ Answer \/ HangUp \/ Destroy

Spec == Init /\ [][Next]_amdVars

\* The session's thread and the reader run, frames come while the channel is up, a
\* dataReady that is set is seen sooner or later, and the service ends a stream whose
\* writes are done: Finish has no deadline and does not cancel, so without that last
\* assumption the session's thread is stuck.  Nothing makes a Write return, neither
\* that of a frame nor the first one (Dial), nor the positive application (Returns).
Fairness ==
  /\ WF_amdVars(App \/ Close) /\ WF_amdVars(Frame) /\ SF_amdVars(Finished)
  /\ WF_amdVars(RemoveAll) /\ WF_amdVars(Destroy)
  /\ WF_amdVars(ReaderEof) /\ WF_amdVars(ReaderReady)
  /\ WF_amdVars(call = "finishing" /\ ServerEnds)

FairSpec == Spec /\ Fairness

-----------------------------------------------------------------------------
(* Properties.                                                             *)

\* The module hangs up only on a verdict: never because the stream failed, and
\* never after it has started the positive application.
HangsUpOnVerdict == hung => ~isError /\ executed = 0 /\ ~amdError

\* Where wbt_amd_ai_positive says "true", the label is one the dialplan asked for,
\* on a channel that had been answered; its application, if it has one, was handed
\* over once, and had left the channel up; the event was fired; and the module has
\* not hung the call up, although others may have, since it looked.
PositiveHonest ==
  positive = "true" =>
    /\ answered /\ amdAi \in Positive
    /\ executed = (IF app = "unset" THEN 0 ELSE 1) /\ ~gone
    /\ events = 1
    /\ ~hung

\* The client's stream lives as StreamLife says.
Life == INSTANCE StreamLife WITH
  Streams <- {"amd"},
  stream <- [s \in {"amd"} |-> call],
  reader <- [s \in {"amd"} |-> IF reader \in {"read", "got"} THEN "running" ELSE reader]
StreamLives == Life!LifeSpec

\* The end of the stream, with a label or without, gets the call a verdict, unless
\* the session's thread is in a Write that the service never takes, or in a positive
\* application that never returns.
VerdictReported ==
  []<>(pc \notin {"write", "running"}) =>
    (reader \in {"got", "exited"} /\ bug = "linked" ~> amdAi # "unset")

=============================================================================
