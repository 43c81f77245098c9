--------------------------- MODULE ClusterProofs ---------------------------
(***************************************************************************)
(* Theorems about Cluster, for every TTL.                                  *)
(***************************************************************************)
EXTENDS Cluster, TLAPS

\* The interval is half of the TTL, and at least a tick.
LEMMA HalfTtl ==
  /\ Ttl \in Nat /\ DeregisterTtl \in Nat \ {0}
  /\ Interval \in Nat /\ Interval >= 1 /\ Ttl = 2 * Interval
  BY TtlAssumption DEF Interval

LEMMA TypeInvariant == Spec => []TypeOK
<1> /\ Ttl \in Nat /\ DeregisterTtl \in Nat \ {0}
    /\ Interval \in Nat /\ Interval >= 1 /\ Ttl = 2 * Interval
  BY HalfTtl
<1> USE DEF TypeOK, Goto, loadVars, timerVars
<1>1. Init => TypeOK
  <2>1. Init => handler \in BOOLEAN /\ bound \in BOOLEAN /\ stopped \in BOOLEAN /\ faulty \in BOOLEAN
    BY DEF Init
  <2> QED
    BY <2>1 DEF Init
<1>2. TypeOK /\ [Next]_clusterVars => TypeOK'
  <2> SUFFICES ASSUME TypeOK, [Next]_clusterVars PROVE TypeOK'
    OBVIOUS
  <2>1. CASE Load
    BY <2>1 DEF Load
  <2>2. CASE Register
    BY <2>2 DEF Register
  <2>3. CASE RegisterFails
    BY <2>3 DEF RegisterFails
  <2>4. CASE FirstPass
    BY <2>4 DEF FirstPass, Pass
  <2>5. CASE StartTimer
    <3>1. stopped' \in BOOLEAN
      BY <2>5 DEF StartTimer
    <3> QED
      BY <2>5, <3>1 DEF StartTimer
  <2>6. CASE Bind
    BY <2>6 DEF Bind
  <2>7. CASE BindFails
    BY <2>7 DEF BindFails
  <2>8. CASE Unload
    BY <2>8 DEF Unload
  <2>9. CASE Unregister
    BY <2>9 DEF Unregister
  <2>10. CASE Stop
    BY <2>10 DEF Stop
  <2>11. CASE Join
    BY <2>11 DEF Join
  <2>12. CASE Delete
    BY <2>12 DEF Delete
  <2>13. CASE TimerFires
    BY <2>13 DEF TimerFires
  <2>14. CASE TimerCalls
    BY <2>14 DEF TimerCalls
  <2>15. CASE TimerReturns
    BY <2>15 DEF TimerReturns, Pass
  <2>16. CASE TimerWakes
    BY <2>16 DEF TimerWakes
  <2>17. CASE TimerWaitsAnew
    BY <2>17 DEF TimerWaitsAnew
  <2>18. CASE Tick
    BY <2>18 DEF Tick, Quick
  <2>19. CASE UNCHANGED clusterVars
    BY <2>19 DEF clusterVars
  <2> QED
    BY <2>1, <2>2, <2>3, <2>4, <2>5, <2>6, <2>7, <2>8, <2>9, <2>10,
       <2>11, <2>12, <2>13, <2>14, <2>15, <2>16, <2>17, <2>18, <2>19
       DEF Next, Loading, Unloading, TimerRuns
<1>3. QED
  BY <1>1, <1>2, PTL DEF Spec

\* Every variable keeps its type: the timer never waits longer than its interval.
THEOREM TypeCorrect == Spec => []TypeOK
  BY TypeInvariant

-----------------------------------------------------------------------------
(* The timer's thread against the life of the Cluster object.               *)

Running == {"waiting", "timeout", "calling"}

\* The thread runs from the start of the timer until the unloading thread joined it,
\* and the object lives longer; stopped is set just before the join.
Phases ==
  /\ pc \in {"pass", "timer", "bind", "serving", "unregister", "stop", "join", "delete"}
       => cluster = "alive"
  /\ timer \in Running => pc \in {"bind", "serving", "unregister", "stop", "join"}
  /\ stopped => pc \in {"join", "delete", "failed", "unloaded"}

\* A pass after stop is the thread's last.
LastPass ==
  /\ ~stopped \/ timer \in {"waiting", "timeout"} => late = 0
  /\ late <= 1

\* What Consul knows once the deregistration was answered.
Gone == pc \in {"stop", "join", "delete", "failed", "unloaded"} /\ ~faulty => consul = "absent"

LifeInv == Phases /\ LastPass /\ Gone

LEMMA LifeInvariant == Spec => []LifeInv
<1> USE DEF TypeOK, Goto, loadVars, timerVars, LifeInv, Phases, LastPass, Gone, Running
<1>1. Init => LifeInv
  BY DEF Init
<1>2. TypeOK /\ LifeInv /\ [Next]_clusterVars => LifeInv'
  <2> SUFFICES ASSUME TypeOK, LifeInv, [Next]_clusterVars PROVE LifeInv'
    OBVIOUS
  <2>1. CASE Load
    BY <2>1 DEF Load
  <2>2. CASE Register
    BY <2>2 DEF Register
  <2>3. CASE RegisterFails
    BY <2>3 DEF RegisterFails
  <2>4. CASE FirstPass
    BY <2>4 DEF FirstPass, Pass
  <2>5. CASE StartTimer
    BY <2>5 DEF StartTimer
  <2>6. CASE Bind
    BY <2>6 DEF Bind
  <2>7. CASE BindFails
    BY <2>7 DEF BindFails
  <2>8. CASE Unload
    BY <2>8 DEF Unload
  <2>9. CASE Unregister
    BY <2>9 DEF Unregister
  <2>10. CASE Stop
    BY <2>10 DEF Stop
  <2>11. CASE Join
    BY <2>11 DEF Join
  <2>12. CASE Delete
    BY <2>12 DEF Delete
  <2>13. CASE TimerFires
    BY <2>13 DEF TimerFires
  <2>14. CASE TimerCalls
    BY <2>14 DEF TimerCalls
  <2>15. CASE TimerReturns
    BY <2>15 DEF TimerReturns, Pass
  <2>16. CASE TimerWakes
    BY <2>16 DEF TimerWakes
  <2>17. CASE TimerWaitsAnew
    BY <2>17 DEF TimerWaitsAnew
  <2>18. CASE Tick
    BY <2>18 DEF Tick, Quick
  <2>19. CASE UNCHANGED clusterVars
    BY <2>19 DEF clusterVars
  <2> QED
    BY <2>1, <2>2, <2>3, <2>4, <2>5, <2>6, <2>7, <2>8, <2>9, <2>10,
       <2>11, <2>12, <2>13, <2>14, <2>15, <2>16, <2>17, <2>18, <2>19
       DEF Next, Loading, Unloading, TimerRuns
<1>3. QED
  BY <1>1, <1>2, TypeInvariant, PTL DEF Spec

\* The timer's function never runs on a Cluster object that was deleted.
THEOREM TimerIsJoined == Spec => []TimerUsesLiveCluster
<1>1. LifeInv => TimerUsesLiveCluster
  BY DEF LifeInv, Phases, Running, TimerUsesLiveCluster
<1>2. QED
  BY LifeInvariant, <1>1, PTL

\* A timeout that races with stop sends one more pass, never two.
THEOREM AtMostOneLate == Spec => []OneLatePass
<1>1. LifeInv => OneLatePass
  BY DEF LifeInv, LastPass, OneLatePass
<1>2. QED
  BY LifeInvariant, <1>1, PTL

\* A node that is not there is not advertised, if no request failed.
THEOREM DeadIsGone == Spec => []NotAdvertisedDead
<1>1. LifeInv => NotAdvertisedDead
  BY DEF LifeInv, Gone, NotAdvertisedDead
<1>2. QED
  BY LifeInvariant, <1>1, PTL

-----------------------------------------------------------------------------
(* The TTL.  As long as every request is answered in time the age of the    *)
(* last pass is the time the timer has waited, and that is half of the TTL. *)

PassedInTime ==
  ~faulty =>
    /\ pc = "pass" => consul = "critical"
    /\ pc = "timer" => consul = "passing" /\ age = 0
    /\ pc \in {"bind", "serving"} =>
         consul = "passing" /\ age = elapsed /\ timer \in Running /\ ~stopped

LEMMA TimeInvariant == Spec => []PassedInTime
<1> /\ Ttl \in Nat /\ DeregisterTtl \in Nat \ {0}
    /\ Interval \in Nat /\ Interval >= 1 /\ Ttl = 2 * Interval
  BY HalfTtl
<1> USE DEF TypeOK, Goto, loadVars, timerVars, PassedInTime, Running
<1>1. Init => PassedInTime
  BY DEF Init
<1>2. TypeOK /\ LifeInv /\ PassedInTime /\ [Next]_clusterVars => PassedInTime'
  <2> SUFFICES ASSUME TypeOK, LifeInv, PassedInTime, [Next]_clusterVars PROVE PassedInTime'
    OBVIOUS
  <2> stopped => pc \in {"join", "delete", "failed", "unloaded"}
    BY DEF LifeInv, Phases
  <2>1. CASE Load
    BY <2>1 DEF Load
  <2>2. CASE Register
    BY <2>2 DEF Register
  <2>3. CASE RegisterFails
    BY <2>3 DEF RegisterFails
  <2>4. CASE FirstPass
    BY <2>4 DEF FirstPass, Pass
  <2>5. CASE StartTimer
    BY <2>5 DEF StartTimer
  <2>6. CASE Bind
    BY <2>6 DEF Bind
  <2>7. CASE BindFails
    BY <2>7 DEF BindFails
  <2>8. CASE Unload
    BY <2>8 DEF Unload
  <2>9. CASE Unregister
    BY <2>9 DEF Unregister
  <2>10. CASE Stop
    BY <2>10 DEF Stop
  <2>11. CASE Join
    BY <2>11 DEF Join
  <2>12. CASE Delete
    BY <2>12 DEF Delete
  <2>13. CASE TimerFires
    BY <2>13 DEF TimerFires
  <2>14. CASE TimerCalls
    BY <2>14 DEF TimerCalls
  <2>15. CASE TimerReturns
    <3>1. ~faulty' => ~faulty
                            /\ age' = (IF consul # "absent" THEN 0 ELSE age)
                            /\ consul' = (IF consul # "absent" THEN "passing" ELSE consul)
      BY <2>15 DEF TimerReturns, Pass
    <3>2. pc' = pc /\ stopped' = stopped /\ elapsed' = 0 /\ (~stopped => timer' = "waiting")
      BY <2>15 DEF TimerReturns
    <3>3. pc \notin {"pass", "timer"}
      BY <2>15 DEF TimerReturns, LifeInv, Phases
    <3> QED
      BY <3>1, <3>2, <3>3
  <2>16. CASE TimerWakes
    BY <2>16 DEF TimerWakes
  <2>17. CASE TimerWaitsAnew
    BY <2>17 DEF TimerWaitsAnew
  <2>18. CASE Tick
    <3>1. ~faulty' => ~faulty /\ timer # "calling" /\ pc \notin {"pass", "unregister"}
      BY <2>18 DEF Tick
    <3>2. ~faulty' /\ pc \in {"bind", "serving"} => timer = "waiting" /\ elapsed < Interval
      BY <2>18, <3>1 DEF Tick, Quick
    <3>3. ~faulty' /\ pc \in {"bind", "serving"} =>
           consul' = "passing" /\ age' = elapsed + 1 /\ elapsed' = elapsed + 1
      BY <2>18, <3>1, <3>2 DEF Tick
    <3>4. pc' = pc /\ timer' = timer /\ stopped' = stopped /\ pc # "timer"
      BY <2>18 DEF Tick, Quick
    <3> QED
      BY <3>1, <3>2, <3>3, <3>4
  <2>19. CASE UNCHANGED clusterVars
    BY <2>19 DEF clusterVars
  <2> QED
    BY <2>1, <2>2, <2>3, <2>4, <2>5, <2>6, <2>7, <2>8, <2>9, <2>10,
       <2>11, <2>12, <2>13, <2>14, <2>15, <2>16, <2>17, <2>18, <2>19
       DEF Next, Loading, Unloading, TimerRuns
<1>3. QED
  BY <1>1, <1>2, TypeInvariant, LifeInvariant, PTL DEF Spec

\* For every TTL: a node that serves is passing while its requests are answered in time.
THEOREM ServesAndPasses == Spec => []PassingWhileServing
<1>1. PassedInTime => PassingWhileServing
  BY DEF PassedInTime, PassingWhileServing
<1>2. QED
  BY TimeInvariant, <1>1, PTL
=============================================================================
