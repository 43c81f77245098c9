---------------------------- MODULE PushHookProofs ----------------------------
(***************************************************************************)
(* Theorems about PushHook, for any number of phones, runs and polls.      *)
(***************************************************************************)
EXTENDS PushHook, FiniteSetTheorems, TLAPS

States == {"none", "sent", "delivered", "located", "confirmed", "refused"}

\* Types, and no push before its run.
Shape ==
  /\ TypeOK
  /\ pc # "idle" => run \in Runs
  /\ \A r \in Runs, d \in Devices : r > run => push[r][d] = "none"

\* A confirmation of this run's push is still to be seen until the wait ends.
Unseen == pc \in {"sending", "waiting"} /\ Confirmed(run) => flag

\* The waits ended early, with the one a flag may end next, are paid for.
Spare  == IF flag /\ pc # "clearing" THEN 1 ELSE 0
Budget == Cardinality(woken) + Spare <= Cardinality(Confirmations)

-----------------------------------------------------------------------------
\* What Begin does, as far as the proofs need it.
LEMMA BeginFacts ==
  ASSUME Shape, Begin
  PROVE  /\ run + 1 \in Runs /\ run' = run + 1 /\ pc = "idle"
         /\ pc' \in {"idle", "sending"}
         /\ \E f \in [Devices -> {"sent", "none"}] : push' = [push EXCEPT ![run + 1] = f]
         /\ UNCHANGED <<elapsed, up, flag, woken>>
<1>1. run + 1 \in Runs
  BY HooksAssumption DEF Begin, Runs, Shape, TypeOK
<1>2. PICK tokens \in Tokens :
        push' = [push EXCEPT ![run + 1] = [d \in Devices |-> IF d \in tokens THEN "sent" ELSE "none"]]
  BY DEF Begin
<1>3. [d \in Devices |-> IF d \in tokens THEN "sent" ELSE "none"] \in [Devices -> {"sent", "none"}]
  OBVIOUS
<1> QED
  BY <1>1, <1>2, <1>3 DEF Begin

\* What a step of a push does.
LEMMA PushFacts ==
  ASSUME Shape, NEW r \in Runs, NEW d \in Devices,
         Deliver(r, d) \/ ConfirmLocate(r, d) \/ ConfirmSet(r, d)
  PROVE  /\ \E s \in States : push' = [push EXCEPT ![r][d] = s]
         /\ push[r][d] \notin {"none", "confirmed"}
         /\ push'[r][d] = "confirmed" => ConfirmSet(r, d)
         /\ flag' \in BOOLEAN /\ (flag => flag')
         /\ UNCHANGED <<pc, run, elapsed, up, woken>>
<1>1. CASE Deliver(r, d)
  BY <1>1 DEF Deliver, PushAdvances, Shape, TypeOK, States
<1>2. CASE ConfirmLocate(r, d)
  <2>1. PICK s \in {"located", "refused"} : push' = [push EXCEPT ![r][d] = s]
    BY <1>2 DEF ConfirmLocate, PushAdvances
  <2>2. s \in States /\ push'[r][d] = s
    BY <1>2, <2>1 DEF States, Shape, TypeOK
  <2>3. /\ push[r][d] = "delivered" /\ flag \in BOOLEAN
        /\ UNCHANGED <<pc, run, elapsed, up, flag, woken>>
    BY <1>2 DEF ConfirmLocate, PushAdvances, Shape, TypeOK
  <2> QED
    BY <2>1, <2>2, <2>3
<1>3. CASE ConfirmSet(r, d)
  BY <1>3 DEF ConfirmSet, PushAdvances, Shape, TypeOK, States
<1> QED
  BY <1>1, <1>2, <1>3

LEMMA ShapeStep == Shape /\ [Next]_pushVars => Shape'
<1> SUFFICES ASSUME Shape, [Next]_pushVars PROVE Shape'
  OBVIOUS
<1> USE DEF Shape, TypeOK
<1>1. CASE Begin
  <2>1. PICK f \in [Devices -> {"sent", "none"}] : push' = [push EXCEPT ![run + 1] = f]
    BY <1>1, BeginFacts
  <2>2. /\ run + 1 \in Runs /\ run' = run + 1 /\ pc' \in {"idle", "sending"}
        /\ UNCHANGED <<elapsed, up, flag, woken>>
    BY <1>1, BeginFacts
  <2>3. run' \in 0 .. MaxHooks
    BY <2>2, HooksAssumption DEF Runs
  <2>4. ASSUME NEW r \in Runs, NEW d \in Devices, r > run' PROVE push'[r][d] = "none"
    <3>1. r # run + 1 /\ r > run
      BY <2>2, <2>4, HooksAssumption DEF Runs
    <3> QED
      BY <2>1, <3>1
  <2>5. push' \in [Runs -> [Devices -> States]]
    <3>1. f \in [Devices -> States]
      BY DEF States
    <3> QED
      BY <2>1, <3>1 DEF States
  <2> QED
    BY <2>2, <2>3, <2>4, <2>5 DEF States
<1>2. ASSUME NEW count, SendReturns(count) PROVE Shape'
  BY <1>2, HooksAssumption DEF SendReturns
<1>3. CASE Poll
  <2>1. run \in Runs /\ pc' \in {"waiting", "clearing"} /\ UNCHANGED <<run, up, flag, push>>
    BY <1>3 DEF Poll
  <2>2. elapsed' \in 0 .. PushWait
    BY <1>3, HooksAssumption DEF Poll
  <2>3. woken' = woken \/ woken' = woken \cup {run}
    BY <1>3 DEF Poll
  <2>4. woken' \subseteq Runs
    BY <2>1, <2>3
  <2> QED
    BY <2>1, <2>2, <2>4
<1>4. CASE Clear
  BY <1>4 DEF Clear
<1>5. ASSUME NEW r \in Runs, NEW d \in Devices,
             Deliver(r, d) \/ ConfirmLocate(r, d) \/ ConfirmSet(r, d)
      PROVE  Shape'
  <2>1. PICK s \in States : push' = [push EXCEPT ![r][d] = s]
    BY <1>5, PushFacts
  <2>2. /\ push[r][d] # "none"
        /\ flag' \in BOOLEAN /\ UNCHANGED <<pc, run, elapsed, up, woken>>
    BY <1>5, PushFacts
  <2>3. ~(r > run)
    BY <2>2
  <2>4. \A q \in Runs, e \in Devices : q > run => push'[q][e] = "none"
    BY <2>1, <2>3
  <2>5. push' \in [Runs -> [Devices -> States]]
    BY <2>1 DEF States
  <2> QED
    BY <2>2, <2>4, <2>5 DEF States
<1>6. CASE Hangup
  BY <1>6 DEF Hangup
<1>7. CASE UNCHANGED pushVars
  BY <1>7 DEF pushVars
<1> QED
  BY <1>1, <1>2, <1>3, <1>4, <1>5, <1>6, <1>7 DEF Next, Deadline, ServiceAnswers

LEMMA UnseenStep == Shape /\ Unseen /\ [Next]_pushVars => Unseen'
<1> SUFFICES ASSUME Shape, Unseen, [Next]_pushVars PROVE Unseen'
  OBVIOUS
<1>1. CASE Begin
  <2>1. PICK f \in [Devices -> {"sent", "none"}] : push' = [push EXCEPT ![run + 1] = f]
    BY <1>1, BeginFacts
  <2>2. run + 1 \in Runs /\ run' = run + 1
    BY <1>1, BeginFacts
  <2>3. \A d \in Devices : push'[run'][d] # "confirmed"
    BY <2>1, <2>2 DEF Shape, TypeOK
  <2> QED
    BY <2>3 DEF Unseen, Confirmed
<1>2. ASSUME NEW count, SendReturns(count) PROVE Unseen'
  BY <1>2 DEF SendReturns, Unseen, Confirmed
<1>3. CASE Poll
  BY <1>3 DEF Poll, Unseen, Confirmed
<1>4. CASE Clear
  BY <1>4 DEF Clear, Unseen
<1>5. ASSUME NEW r \in Runs, NEW d \in Devices,
             Deliver(r, d) \/ ConfirmLocate(r, d) \/ ConfirmSet(r, d)
      PROVE  Unseen'
  <2>1. CASE ConfirmSet(r, d)
    BY <2>1 DEF ConfirmSet, Unseen
  <2>2. CASE ~ConfirmSet(r, d)
    <3>1. PICK s \in States : push' = [push EXCEPT ![r][d] = s]
      BY <1>5, PushFacts
    <3>2. push'[r][d] # "confirmed" /\ (flag => flag') /\ UNCHANGED <<pc, run>>
      BY <1>5, <2>2, PushFacts
    <3>3. ASSUME pc \in {"sending", "waiting"}, NEW e \in Devices, push'[run][e] = "confirmed"
          PROVE  push[run][e] = "confirmed"
      BY <3>1, <3>2, <3>3 DEF Shape, TypeOK
    <3> QED
      BY <3>2, <3>3 DEF Unseen, Confirmed
  <2> QED
    BY <2>1, <2>2
<1>6. CASE Hangup
  BY <1>6 DEF Hangup, Unseen, Confirmed
<1>7. CASE UNCHANGED pushVars
  BY <1>7 DEF pushVars, Unseen, Confirmed
<1> QED
  BY <1>1, <1>2, <1>3, <1>4, <1>5, <1>6, <1>7 DEF Next, Deadline, ServiceAnswers

-----------------------------------------------------------------------------
LEMMA FiniteCounts ==
  ASSUME Shape
  PROVE  /\ IsFiniteSet(Confirmations) /\ Cardinality(Confirmations) \in Nat
         /\ IsFiniteSet(woken) /\ Cardinality(woken) \in Nat
<1>1. IsFiniteSet(Runs)
  BY FS_Interval, HooksAssumption DEF Runs
<1>2. IsFiniteSet(Runs \X Devices)
  BY <1>1, FS_Product, HooksAssumption
<1>3. Confirmations \in SUBSET (Runs \X Devices) /\ woken \in SUBSET Runs
  BY DEF Confirmations, Shape, TypeOK
<1>4. IsFiniteSet(Confirmations) /\ IsFiniteSet(woken)
  BY <1>1, <1>2, <1>3, FS_Subset
<1> QED
  BY <1>4, FS_CardinalityType

LEMMA BudgetStep == Shape /\ Budget /\ [Next]_pushVars => Budget'
<1> SUFFICES ASSUME Shape, Budget, [Next]_pushVars PROVE Budget'
  OBVIOUS
<1> DEFINE C == Cardinality(Confirmations)
           W == Cardinality(woken)
<1>0. C \in Nat /\ W \in Nat /\ W + Spare <= C /\ Spare \in {0, 1}
  BY FiniteCounts DEF Budget, Spare
<1>1. ASSUME Confirmations' = Confirmations, woken' = woken, Spare' <= Spare, Spare' \in {0, 1}
      PROVE  Budget'
  BY <1>0, <1>1 DEF Budget
<1>2. ASSUME UNCHANGED push PROVE Confirmations' = Confirmations
  BY <1>2 DEF Confirmations
<1>3. CASE Begin
  <2>1. PICK f \in [Devices -> {"sent", "none"}] : push' = [push EXCEPT ![run + 1] = f]
    BY <1>3, BeginFacts
  <2>2. /\ run + 1 \in Runs /\ pc = "idle" /\ pc' \in {"idle", "sending"}
        /\ UNCHANGED <<flag, woken>>
    BY <1>3, BeginFacts
  <2>3. ASSUME NEW r \in Runs, NEW d \in Devices
        PROVE  push'[r][d] = "confirmed" <=> push[r][d] = "confirmed"
    <3>1. CASE r = run + 1
      <4>1. push[r][d] = "none"
        BY <3>1, HooksAssumption DEF Shape, TypeOK, Runs
      <4> QED
        BY <2>1, <3>1, <4>1 DEF Shape, TypeOK
    <3>2. CASE r # run + 1
      BY <2>1, <3>2 DEF Shape, TypeOK
    <3> QED
      BY <3>1, <3>2
  <2>4. Confirmations' = Confirmations
    BY <2>3 DEF Confirmations
  <2> QED
    BY <1>1, <2>2, <2>4 DEF Spare
<1>4. ASSUME NEW count, SendReturns(count) PROVE Budget'
  <2>1. UNCHANGED <<push, flag, woken>> /\ pc # "clearing" /\ pc' # "clearing"
    BY <1>4 DEF SendReturns
  <2> QED
    BY <1>1, <1>2, <2>1 DEF Spare
<1>5. CASE Poll
  <2>1. UNCHANGED <<push, flag>> /\ pc = "waiting"
    BY <1>5 DEF Poll
  <2>2. CASE woken' = woken
    <3>1. Spare' <= Spare /\ Spare' \in {0, 1}
      BY <2>1 DEF Spare
    <3> QED
      BY <1>1, <1>2, <2>1, <2>2, <3>1
  <2>3. CASE flag /\ woken' = woken \cup {run} /\ pc' = "clearing"
    <3>1. Cardinality(woken') \in Nat /\ Cardinality(woken') <= W + 1
      <4>1. Cardinality(woken \cup {run}) = IF run \in woken THEN W ELSE W + 1
        BY FiniteCounts, FS_AddElement
      <4> QED
        BY <1>0, <2>3, <4>1
    <3>2. Spare = 1 /\ Spare' = 0
      BY <2>1, <2>3 DEF Spare
    <3> QED
      BY <1>0, <1>2, <2>1, <3>1, <3>2 DEF Budget
  <2>4. woken' = woken \/ (flag /\ woken' = woken \cup {run} /\ pc' = "clearing")
    BY <1>5 DEF Poll
  <2> QED
    BY <2>2, <2>3, <2>4
<1>6. CASE Clear
  <2>1. UNCHANGED <<push, woken>> /\ Spare' = 0
    BY <1>6 DEF Clear, Spare
  <2> QED
    BY <1>0, <1>1, <1>2, <2>1
<1>7. ASSUME NEW r \in Runs, NEW d \in Devices,
             Deliver(r, d) \/ ConfirmLocate(r, d) \/ ConfirmSet(r, d)
      PROVE  Budget'
  <2>1. PICK s \in States : push' = [push EXCEPT ![r][d] = s]
    BY <1>7, PushFacts
  <2>2. push[r][d] # "confirmed" /\ UNCHANGED <<pc, woken>>
    BY <1>7, PushFacts
  <2>3. ASSUME NEW q \in Runs, NEW e \in Devices, <<q, e>> # <<r, d>>
        PROVE  push'[q][e] = push[q][e]
    BY <2>1, <2>3 DEF Shape, TypeOK
  <2>4. CASE ConfirmSet(r, d)
    <3>1. push'[r][d] = "confirmed"
      BY <2>4 DEF ConfirmSet, PushAdvances, Shape, TypeOK
    <3>2. Confirmations' = Confirmations \cup {<<r, d>>} /\ <<r, d>> \notin Confirmations
      BY <2>2, <2>3, <3>1 DEF Confirmations
    <3>3. Cardinality(Confirmations') = C + 1
      BY <3>2, FiniteCounts, FS_AddElement
    <3>4. Spare' \in {0, 1}
      BY DEF Spare
    <3> QED
      BY <1>0, <2>2, <3>3, <3>4 DEF Budget
  <2>5. CASE ~ConfirmSet(r, d)
    <3>1. push'[r][d] # "confirmed"
      BY <1>7, <2>5, PushFacts
    <3>2. Confirmations' = Confirmations
      BY <2>2, <2>3, <3>1 DEF Confirmations
    <3>3. UNCHANGED flag
      BY <1>7, <2>5 DEF Deliver, ConfirmLocate
    <3> QED
      BY <1>0, <1>1, <2>2, <3>2, <3>3 DEF Spare
  <2> QED
    BY <2>4, <2>5
<1>8. CASE Hangup
  BY <1>0, <1>1, <1>2, <1>8 DEF Hangup, Spare
<1>9. CASE UNCHANGED pushVars
  BY <1>0, <1>1, <1>2, <1>9 DEF pushVars, Spare
<1> QED
  BY <1>3, <1>4, <1>5, <1>6, <1>7, <1>8, <1>9 DEF Next, Deadline, ServiceAnswers

LEMMA HookInvariant == Spec => [](Shape /\ Unseen /\ Budget)
<1>1. Init => Shape /\ Unseen /\ Budget
  <2> SUFFICES ASSUME Init PROVE Shape /\ Unseen /\ Budget
    OBVIOUS
  <2>1. Shape
    <3>1. push = [r \in Runs |-> [d \in Devices |-> "none"]]
      BY DEF Init
    <3>2. push \in [Runs -> [Devices -> States]]
      BY <3>1 DEF States
    <3>3. run \in 0 .. MaxHooks /\ elapsed \in 0 .. PushWait
      BY HooksAssumption DEF Init
    <3>4. \A r \in Runs, d \in Devices : push[r][d] = "none"
      BY <3>1
    <3>5. TypeOK
      BY <3>2, <3>3 DEF Init, TypeOK, States
    <3> QED
      BY <3>4, <3>5 DEF Init, Shape
  <2>2. Unseen
    BY DEF Init, Unseen
  <2>3. Confirmations = {} /\ woken = {} /\ Spare = 0
    BY DEF Init, Confirmations, Spare
  <2> QED
    BY <2>1, <2>2, <2>3, FS_EmptySet DEF Budget
<1> QED
  BY <1>1, ShapeStep, UnseenStep, BudgetStep, PTL DEF Spec

-----------------------------------------------------------------------------
\* A wait that runs to its timeout had no confirmation of its push, however early a
\* phone confirmed.
THEOREM TimeoutIsUnconfirmed == Spec => TimeoutUnconfirmed
<1>1. Shape /\ Unseen /\ [Next]_pushVars =>
        [pc = "waiting" /\ pc' = "clearing" /\ up /\ run \notin woken' => ~Confirmed(run)]_pushVars
  <2> SUFFICES ASSUME Shape, Unseen, Next, pc = "waiting", pc' = "clearing", run \notin woken',
                      Confirmed(run)
               PROVE  FALSE
    OBVIOUS
  <2>1. Poll
    BY DEF Next, Begin, Deadline, ServiceAnswers, SendReturns, Clear, Deliver, ConfirmLocate,
           ConfirmSet, Hangup
  <2>2. flag
    BY DEF Unseen
  <2> QED
    BY <2>1, <2>2 DEF Poll
<1> QED
  BY <1>1, HookInvariant, PTL DEF Spec, TimeoutUnconfirmed

\* A confirmation ends one wait at most.
THEOREM OneWait == Spec => []OneWaitEach
<1>1. Shape /\ Budget => OneWaitEach
  BY FiniteCounts DEF Budget, Spare, OneWaitEach
<1> QED
  BY <1>1, HookInvariant, PTL
=============================================================================
