------------------------------- MODULE PushHook -------------------------------
(***************************************************************************)
(* The application wbt_send_hook wakes the phones of a callee by a push    *)
(* and holds the call until one of them answers with ConfirmPush, which    *)
(* sets a flag of the channel.  The dialplan may run it several times on   *)
(* one call.  The push service may deliver a push whose answer is lost,    *)
(* and phones may confirm late, together, or after the hangup.             *)
(***************************************************************************)
EXTENDS Integers, FiniteSets

CONSTANTS
  Devices,    \* the push tokens of the callee
  MaxHooks,   \* how often the dialplan runs the application
  PushWait    \* push_wait_callback, in polls; 0: no wait

ASSUME HooksAssumption == MaxHooks \in Nat /\ PushWait \in Nat /\ IsFiniteSet(Devices)

Runs == 1 .. MaxHooks

VARIABLES
  pc,         \* the session's thread: "idle", "sending", "waiting", "clearing"
  run,        \* runs of the application begun
  elapsed,    \* polls of this wait
  up,         \* the channel has not been hung up
  flag,       \* CF_SLA_INTERCEPT
  push,       \* push[r][d]: "none", "sent", "delivered", "located", "confirmed", "refused"
  woken       \* history: the runs whose wait the flag ended

pushVars == <<pc, run, elapsed, up, flag, push, woken>>

TypeOK ==
  /\ pc \in {"idle", "sending", "waiting", "clearing"}
  /\ run \in 0 .. MaxHooks
  /\ elapsed \in 0 .. PushWait
  /\ up \in BOOLEAN
  /\ flag \in BOOLEAN
  /\ push \in [Runs -> [Devices ->
       {"none", "sent", "delivered", "located", "confirmed", "refused"}]]
  /\ woken \subseteq Runs

Init ==
  /\ pc = "idle"
  /\ run = 0
  /\ elapsed = 0
  /\ up = TRUE
  /\ flag = FALSE
  /\ push = [r \in Runs |-> [d \in Devices |-> "none"]]
  /\ woken = {}

-----------------------------------------------------------------------------
(* The application, in the session's thread.                               *)

\* The tokens of the request: one service or both may be off or have none.
Tokens == SUBSET Devices

\* The request goes to the service; without a token there is nothing to send.
Begin ==
  /\ pc = "idle" /\ up /\ run < MaxHooks
  /\ run' = run + 1
  /\ \E tokens \in Tokens :
       /\ push' = [push EXCEPT ![run + 1] =
                     [d \in Devices |-> IF d \in tokens THEN "sent" ELSE "none"]]
       /\ pc' = IF tokens = {} THEN "idle" ELSE "sending"
  /\ UNCHANGED <<elapsed, up, flag, woken>>

\* Mutant: the wait starts with a flag taken down.
SendReturnsClean(count) ==
  /\ pc = "sending"
  /\ pc' = IF count > 0 /\ PushWait > 0 THEN "waiting" ELSE "idle"
  /\ elapsed' = 0
  /\ flag' = FALSE
  /\ UNCHANGED <<run, up, push, woken>>

\* Send returns how many pushes the service says it sent.
SendReturns(count) ==
  /\ pc = "sending"
  /\ pc' = IF count > 0 /\ PushWait > 0 THEN "waiting" ELSE "idle"
  /\ elapsed' = 0
  /\ UNCHANGED <<run, up, flag, push, woken>>

\* Mutant: the request has no deadline.
NoDeadline == pc = "waiting" /\ SendReturns(0)

\* The deadline of 20 s, or an error of the service: the answer stays at 0.
Deadline == SendReturns(0)

\* switch_channel_wait_for_flag looks at the flag, then at the channel, then at the time.
Poll ==
  /\ pc = "waiting"
  /\ IF flag \/ ~up \/ elapsed = PushWait
     THEN /\ pc' = "clearing"
          /\ woken' = IF flag THEN woken \cup {run} ELSE woken
          /\ UNCHANGED elapsed
     ELSE elapsed' = elapsed + 1 /\ UNCHANGED <<pc, woken>>
  /\ UNCHANGED <<run, up, flag, push>>

\* Mutant: the flag is left as it is.
ClearKeeps ==
  /\ pc = "clearing"
  /\ pc' = "idle"
  /\ UNCHANGED <<run, elapsed, up, flag, push, woken>>

\* The flag is taken down only after a wait.
Clear ==
  /\ pc = "clearing"
  /\ pc' = "idle"
  /\ flag' = FALSE
  /\ UNCHANGED <<run, elapsed, up, push, woken>>

-----------------------------------------------------------------------------
(* The push service and the phones.                                        *)

\* The service answers, having handed over as many pushes as it says.
ServiceAnswers == \E count \in 0 .. Cardinality(Devices) : SendReturns(count)

PushAdvances(r, d, from, to) ==
  /\ push[r][d] = from
  /\ push' = [push EXCEPT ![r][d] = to]

\* Before or after its answer, in time or not.
Deliver(r, d) ==
  /\ PushAdvances(r, d, "sent", "delivered")
  /\ UNCHANGED <<pc, run, elapsed, up, flag, woken>>

-----------------------------------------------------------------------------
(* The handler ConfirmPush.                                                *)

\* A phone confirms; a channel that was hung up is not found.
ConfirmLocate(r, d) ==
  /\ PushAdvances(r, d, "delivered", IF up THEN "located" ELSE "refused")
  /\ UNCHANGED <<pc, run, elapsed, up, flag, woken>>

ConfirmSet(r, d) ==
  /\ PushAdvances(r, d, "located", "confirmed")
  /\ flag' = TRUE
  /\ UNCHANGED <<pc, run, elapsed, up, woken>>

-----------------------------------------------------------------------------
Hangup ==
  /\ up
  /\ up' = FALSE
  /\ UNCHANGED <<pc, run, elapsed, flag, push, woken>>

Next ==
  \/ Begin \/ Deadline \/ Poll \/ Clear \/ ServiceAnswers \/ Hangup
  \/ \E r \in Runs, d \in Devices : Deliver(r, d) \/ ConfirmLocate(r, d) \/ ConfirmSet(r, d)

\* The session's thread goes on: its request has a deadline, its wait counts its polls.
Fairness == WF_pushVars(Deadline) /\ WF_pushVars(Poll) /\ WF_pushVars(Clear)

Spec == Init /\ [][Next]_pushVars /\ Fairness

-----------------------------------------------------------------------------
(* Properties.                                                             *)

Confirmed(r) == \E d \in Devices : push[r][d] = "confirmed"

\* A wait that runs to its timeout had no confirmation of its push: also one that
\* arrives before the push service has answered the request ends the wait.
TimeoutUnconfirmed ==
  [][pc = "waiting" /\ pc' = "clearing" /\ up /\ run \notin woken' => ~Confirmed(run)]_pushVars

Confirmations == {p \in Runs \X Devices : push[p[1]][p[2]] = "confirmed"}

\* A confirmation ends one wait at most: there are never more waits ended early than
\* confirmations, although a late one may end a wait that was meant for another push.
OneWaitEach == Cardinality(woken) <= Cardinality(Confirmations)

\* A call is held by a push for a limited time, whatever service and phones do.
HookEnds == pc \in {"sending", "waiting", "clearing"} ~> pc = "idle"
=============================================================================
