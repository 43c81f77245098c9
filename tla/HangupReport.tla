----------------------------- MODULE HangupReport -----------------------------
(***************************************************************************)
(* How the end of a call with two legs is reported to subscribers.  Leg    *)
(* "B" has a wbt_parent_id, leg "A" has none.  Phones, the core and the    *)
(* Hangup handler of the gRPC API end the legs, each on its own thread;    *)
(* the HANGUP_COMPLETE event of a leg becomes the report of CallEvent      *)
(* <Hangup>: who hung up, the cause and the SIP code.                      *)
(***************************************************************************)
EXTENDS Integers

CONSTANTS
  Causes,   \* hangup causes of the core
  Codes     \* SIP status codes

Sides       == {"A", "B"}
Other(l)    == IF l = "A" THEN "B" ELSE "A"
Absent      == -1   \* a header that is not there; 0: one that holds no number
TimerCauses == {"ALLOTTED_TIMEOUT", "RECOVERY_ON_TIMER_EXPIRE"}

ASSUME InputsAssumption ==
  /\ TimerCauses \cup {"NORMAL_CLEARING", "ORIGINATOR_CANCEL"} \subseteq Causes
  /\ Codes \subseteq Nat \ {0}

\* The headers the SIP code is taken from.
Headers == [proto : Codes \cup {Absent, 0}, failure : Codes \cup {Absent, 0},
            term : Codes \cup {Absent, 0}]

\* Who sent or received the last SIP message of a leg; "" while it is up.
Dispositions == {"", "recv_bye", "recv_cancel", "recv_refuse",
                 "send_bye", "send_cancel", "send_refuse"}

VARIABLES
  answered,     \* the call was answered
  leg,          \* leg[l]: "up", "ended", "reported"
  disposition,  \* sip_hangup_disposition, "" while there is none
  grpc,         \* grpc_send_hangup is set
  lastApp,      \* last_app of leg A is "hangup"
  api,          \* api[l]: a Hangup request: "idle", "located", "marked", "done"
  report,       \* the report of the leg
  asked         \* history: before its report, the leg's own phone or the API asked for its end

hangupVars == <<answered, leg, disposition, grpc, lastApp, api, report, asked>>

NoReport == [by |-> "", cause |-> "", sip |-> 0]
Reports  == {NoReport} \cup
  [by : {"A", "B", "F"}, cause : Causes \cup {"NO_ANSWER", "NO_USER_RESPONSE"},
   sip : Codes \cup {200, 487}]

HangupTypeOK ==
  /\ answered \in BOOLEAN
  /\ leg \in [Sides -> {"up", "ended", "reported"}]
  /\ disposition \in [Sides -> Dispositions]
  /\ grpc \in [Sides -> BOOLEAN]
  /\ lastApp \in BOOLEAN
  /\ api \in [Sides -> {"idle", "located", "marked", "done"}]
  /\ report \in [Sides -> Reports]
  /\ asked \in [Sides -> BOOLEAN]

HangupInit ==
  /\ answered = FALSE
  /\ leg = [l \in Sides |-> "up"]
  /\ disposition = [l \in Sides |-> ""]
  /\ grpc = [l \in Sides |-> FALSE]
  /\ lastApp = FALSE
  /\ api = [l \in Sides |-> "idle"]
  /\ report = [l \in Sides |-> NoReport]
  /\ asked = [l \in Sides |-> FALSE]

-----------------------------------------------------------------------------
(* The report.                                                             *)

\* Mutant: a refused leg blames its own side.
HangupByRefuse(l) ==
  IF grpc[l] \/ disposition[l] \in {"recv_bye", "recv_refuse", "recv_cancel", "send_refuse"}
  THEN l
  ELSE IF l = "A" /\ lastApp THEN "F" ELSE Other(l)

\* hangup_by: the leg's own side when its phone ended it, the API did, or leg B was
\* refused by the core; "F" for the hangup application; else the other side.
HangupBy(l) ==
  IF \/ grpc[l]
     \/ disposition[l] \in {"recv_bye", "recv_refuse", "recv_cancel"}
     \/ disposition[l] = "send_refuse" /\ l = "B"
  THEN l
  ELSE IF l = "A" /\ lastApp THEN "F" ELSE Other(l)

\* The first header that is there, or 487 for a cancelled call and 200 for others.
SipFound(h, cause) ==
  LET num == IF h.proto # Absent THEN h.proto
             ELSE IF h.failure # Absent THEN h.failure
             ELSE IF h.term # Absent THEN h.term ELSE 0
  IN IF num # 0 THEN num ELSE IF cause = "ORIGINATOR_CANCEL" THEN 487 ELSE 200

\* Mutant: a clearing with a failure code is reported as it is.
OutcomeClears(cause, num) ==
  IF cause \in TimerCauses THEN <<"NO_ANSWER", 487>> ELSE <<cause, num>>

\* Cause and code as reported.
Outcome(cause, num) ==
  IF cause \in TimerCauses THEN <<"NO_ANSWER", 487>>
  ELSE IF num # 200 /\ cause = "NORMAL_CLEARING" THEN <<"NO_USER_RESPONSE", num>>
  ELSE <<cause, num>>

\* The leg's HANGUP_COMPLETE is exported.
ReportEnd(l) ==
  /\ leg[l] = "ended"
  /\ leg' = [leg EXCEPT ![l] = "reported"]
  /\ \E cause \in Causes, h \in Headers :
       LET outcome == Outcome(cause, SipFound(h, cause))
       IN report' = [report EXCEPT ![l] =
            [by |-> HangupBy(l), cause |-> outcome[1], sip |-> outcome[2]]]
  /\ UNCHANGED <<answered, disposition, grpc, lastApp, api, asked>>

-----------------------------------------------------------------------------
(* The Hangup handler.                                                     *)

ApiLocate(l) ==
  /\ api[l] = "idle"
  /\ api' = [api EXCEPT ![l] = IF leg[l] = "up" THEN "located" ELSE "done"]
  /\ UNCHANGED <<answered, leg, disposition, grpc, lastApp, report, asked>>

\* The variables are set while the leg may be ending by other hands.
ApiMark(l) ==
  /\ api[l] = "located"
  /\ api' = [api EXCEPT ![l] = "marked"]
  /\ grpc' = [grpc EXCEPT ![l] = TRUE]
  /\ asked' = [asked EXCEPT ![l] = @ \/ leg[l] # "reported"]
  /\ UNCHANGED <<answered, leg, disposition, lastApp, report>>

\* What the core sends to the phone of a leg it ends.
Sends(l) == IF answered THEN "send_bye" ELSE IF l = "A" THEN "send_refuse" ELSE "send_cancel"

End(l, how) ==
  /\ leg[l] = "up"
  /\ leg' = [leg EXCEPT ![l] = "ended"]
  /\ disposition' = [disposition EXCEPT ![l] = how]

\* switch_channel_hangup, without effect on a leg that has ended.
ApiHangup(l) ==
  /\ api[l] = "marked"
  /\ api' = [api EXCEPT ![l] = "done"]
  /\ \/ End(l, Sends(l))
     \/ leg[l] # "up" /\ UNCHANGED <<leg, disposition>>
  /\ UNCHANGED <<answered, grpc, lastApp, report, asked>>

-----------------------------------------------------------------------------
(* Phones and the core.                                                    *)

CalleeAnswers ==
  /\ ~answered /\ \A l \in Sides : leg[l] = "up"
  /\ answered' = TRUE
  /\ UNCHANGED <<leg, disposition, grpc, lastApp, api, report, asked>>

\* A BYE, a CANCEL of the caller, a refusal of the callee.
PhoneEnds(l) ==
  /\ End(l, IF answered THEN "recv_bye" ELSE IF l = "A" THEN "recv_cancel" ELSE "recv_refuse")
  /\ asked' = [asked EXCEPT ![l] = TRUE]
  /\ UNCHANGED <<answered, grpc, lastApp, api, report>>

\* The core ends a leg whose other leg has ended, or gives up ringing leg B.
CoreEnds(l) ==
  /\ leg[Other(l)] # "up" \/ (l = "B" /\ ~answered)
  /\ End(l, Sends(l))
  /\ UNCHANGED <<answered, grpc, lastApp, api, report, asked>>

\* Leg A goes on in the dialplan, which hangs it up.
DialplanHangup ==
  /\ leg["B"] # "up"
  /\ End("A", Sends("A"))
  /\ lastApp' = TRUE
  /\ UNCHANGED <<answered, grpc, api, report, asked>>

-----------------------------------------------------------------------------
HangupNext ==
  \/ CalleeAnswers \/ DialplanHangup
  \/ \E l \in Sides : \/ PhoneEnds(l) \/ CoreEnds(l) \/ ReportEnd(l)
                      \/ ApiLocate(l) \/ ApiMark(l) \/ ApiHangup(l)

HangupSpec == HangupInit /\ [][HangupNext]_hangupVars

-----------------------------------------------------------------------------
(* Properties.                                                             *)

\* When one side alone asked for the end, by phone or through the API, the reports
\* of both legs name that side, whichever leg is reported first, and although a
\* request may be overtaken by a hangup; only a leg A that the dialplan hung up
\* after the callee had gone says "F".
RightSideNamed ==
  \A l, side \in Sides :
    leg[l] = "reported" /\ asked[side] /\ ~asked[Other(side)] =>
      report[l].by = side \/ (l = "A" /\ side = "B" /\ lastApp /\ report[l].by = "F")

\* Cause and code of a report agree, whatever the channel's variables say: a code is
\* always given, a normal clearing comes with 200 and no other code, and the causes of
\* the core's timers do not get out.
OutcomeAgrees ==
  \A l \in Sides : leg[l] = "reported" =>
    /\ report[l].sip # 0
    /\ report[l].cause = "NORMAL_CLEARING" => report[l].sip = 200
    /\ report[l].cause \notin TimerCauses
=============================================================================
