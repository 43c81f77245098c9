------------------------------- MODULE Cluster -------------------------------
(***************************************************************************)
(* The module's life and its registration in Consul.  The loading thread   *)
(* registers the service, starts the Timer that keeps its TTL check        *)
(* passing, binds the gRPC server and, on unload, undoes all of it; the    *)
(* timer's thread sends the passes; Consul turns a check that was not      *)
(* passed for Ttl critical and deregisters a service critical for too      *)
(* long.  Requests may fail or take long: they have no timeout.            *)
(***************************************************************************)
EXTENDS Integers

CONSTANTS
  Ttl,            \* consul_tts_sec, in ticks
  DeregisterTtl   \* consul_deregister_critical_tts_sec, in ticks

ASSUME TtlAssumption ==
  Ttl \in Nat /\ Ttl >= 2 /\ Ttl % 2 = 0 /\ DeregisterTtl \in Nat \ {0}

VARIABLES
  pc,        \* the loading, later the unloading thread
  cluster,   \* "none", "alive", "deleted"
  handler,   \* the state handlers are installed
  bound,     \* the CallManager is bound to the core's events
  timer,     \* the timer's thread: "none", "waiting", "timeout", "calling", "exited"
  elapsed,   \* ticks since it began to wait
  stopped,   \* Timer::stopped
  consul,    \* the service in Consul: "absent", "critical", "passing"
  age,       \* ticks since the last pass, or since the check turned critical
  faulty,    \* history: a request failed or took a tick, or a wait was woken for nothing
  late       \* history: passes sent after stopped was set

loadVars  == <<pc, cluster, handler, bound>>
timerVars == <<timer, elapsed, stopped, late>>
clusterVars == <<loadVars, timerVars, consul, age, faulty>>

\* Mutant: the timer is started with the whole of the TTL.
IntervalWhole == Ttl

\* Cluster::registerService starts the timer with half of the TTL.
Interval == Ttl \div 2

TypeOK ==
  /\ pc \in {"load", "register", "pass", "timer", "bind", "serving", "unload",
             "unregister", "stop", "join", "delete", "failed", "unloaded"}
  /\ cluster \in {"none", "alive", "deleted"}
  /\ handler \in BOOLEAN /\ bound \in BOOLEAN
  /\ timer \in {"none", "waiting", "timeout", "calling", "exited"}
  /\ elapsed \in 0..Interval
  /\ stopped \in BOOLEAN
  /\ consul \in {"absent", "critical", "passing"}
  /\ age \in 0..(Ttl + DeregisterTtl)
  /\ faulty \in BOOLEAN
  /\ late \in Nat

Init ==
  /\ pc = "load" /\ cluster = "none" /\ handler = FALSE /\ bound = FALSE
  /\ timer = "none" /\ elapsed = 0 /\ stopped = FALSE /\ late = 0
  /\ consul = "absent" /\ age = 0 /\ faulty = FALSE

Goto(from, to) == pc = from /\ pc' = to

\* What a request does to Consul, and whether it is answered with 200.
Pass(ok) ==
  /\ consul' = IF ok /\ consul # "absent" THEN "passing" ELSE consul
  /\ age' = IF ok /\ consul # "absent" THEN 0 ELSE age
  /\ faulty' = (faulty \/ ~ok)

-----------------------------------------------------------------------------
(* Loading.                                                                *)

Load ==
  /\ Goto("load", "register")
  /\ handler' = TRUE
  /\ UNCHANGED <<cluster, bound, timerVars, consul, age, faulty>>

\* The Cluster constructor binds the CallManager and registers the service, whose
\* check begins critical.
Register ==
  /\ Goto("register", "pass")
  /\ cluster' = "alive" /\ bound' = TRUE
  /\ consul' = "critical" /\ age' = 0
  /\ UNCHANGED <<handler, timerVars, faulty>>

\* Not 200: the constructor throws, the object never existed, and neither the
\* handlers nor the bindings are undone.
RegisterFails ==
  /\ Goto("register", "failed")
  /\ bound' = TRUE
  /\ faulty' = TRUE
  /\ UNCHANGED <<cluster, handler, timerVars, consul, age>>

FirstPass ==
  /\ Goto("pass", "timer")
  /\ \E ok \in BOOLEAN : Pass(ok)
  /\ UNCHANGED <<cluster, handler, bound, timerVars>>

StartTimer ==
  /\ Goto("timer", "bind")
  /\ timer' = "waiting" /\ elapsed' = 0 /\ stopped' = FALSE
  /\ UNCHANGED <<cluster, handler, bound, late, consul, age, faulty>>

Bind ==
  /\ Goto("bind", "serving")
  /\ UNCHANGED <<cluster, handler, bound, timerVars, consul, age, faulty>>

\* Mutant: the registration survives the failed bind.
BindFailsKeeps ==
  /\ Goto("bind", "failed")
  /\ UNCHANGED <<cluster, handler, bound, timerVars, consul, age, faulty>>

\* The address is taken: initServer shuts everything down before it throws.
BindFails ==
  /\ Goto("bind", "unregister")
  /\ UNCHANGED <<cluster, handler, bound, timerVars, consul, age, faulty>>

-----------------------------------------------------------------------------
(* Unloading: the handlers, the gRPC server, then the Cluster destructor.  *)

Unload ==
  /\ Goto("serving", "unregister")
  /\ handler' = FALSE
  /\ UNCHANGED <<cluster, bound, timerVars, consul, age, faulty>>

Unregister ==
  /\ Goto("unregister", "stop")
  /\ \E ok \in BOOLEAN :
       /\ consul' = IF ok THEN "absent" ELSE consul
       /\ faulty' = (faulty \/ ~ok)
  /\ UNCHANGED <<cluster, handler, bound, timerVars, age>>

\* Timer::stop sets stopped under the mutex, which the thread holds while it calls.
Stop ==
  /\ timer # "calling"
  /\ Goto("stop", "join")
  /\ stopped' = TRUE
  /\ UNCHANGED <<cluster, handler, bound, timer, elapsed, late, consul, age, faulty>>

\* Mutant: the timer is deleted without joining its thread.
NoJoin ==
  /\ Goto("join", "delete")
  /\ UNCHANGED <<cluster, handler, bound, timerVars, consul, age, faulty>>

Join ==
  /\ timer = "exited"
  /\ Goto("join", "delete")
  /\ UNCHANGED <<cluster, handler, bound, timerVars, consul, age, faulty>>

\* The CallManager unbinds and the Cluster is gone.
Delete ==
  /\ Goto("delete", IF handler THEN "failed" ELSE "unloaded")
  /\ cluster' = "deleted" /\ bound' = FALSE
  /\ UNCHANGED <<handler, timerVars, consul, age, faulty>>

-----------------------------------------------------------------------------
(* The timer's thread.                                                     *)

\* wait_for runs out; the mutex is still to be taken.
TimerFires ==
  /\ timer = "waiting" /\ elapsed >= Interval
  /\ timer' = "timeout"
  /\ UNCHANGED <<loadVars, elapsed, stopped, late, consul, age, faulty>>

\* The mutex is taken and the function called: stopped is not looked at again.
TimerCalls ==
  /\ timer = "timeout" /\ timer' = "calling"
  /\ late' = IF stopped THEN late + 1 ELSE late
  /\ UNCHANGED <<loadVars, elapsed, stopped, consul, age, faulty>>

\* ttl() returns, and the loop looks at stopped.
TimerReturns ==
  /\ timer = "calling"
  /\ timer' = IF stopped THEN "exited" ELSE "waiting"
  /\ \E ok \in BOOLEAN : Pass(ok)
  /\ elapsed' = 0
  /\ UNCHANGED <<loadVars, stopped, late>>

\* Mutant: a wait that was woken begins again whatever stopped says.
TimerWakesOn ==
  /\ timer = "waiting" /\ stopped
  /\ elapsed' = 0
  /\ UNCHANGED <<loadVars, timer, stopped, late, consul, age, faulty>>

\* notify_one, or stopped seen before the wait: it ends without a call.
TimerWakes ==
  /\ timer = "waiting" /\ stopped
  /\ timer' = "exited"
  /\ UNCHANGED <<loadVars, elapsed, stopped, late, consul, age, faulty>>

\* A spurious wake-up: the loop has no predicate and waits a whole interval anew.
TimerWaitsAnew ==
  /\ timer = "waiting" /\ ~stopped /\ elapsed > 0
  /\ elapsed' = 0
  /\ faulty' = TRUE
  /\ UNCHANGED <<loadVars, timer, stopped, late, consul, age>>

-----------------------------------------------------------------------------
(* Time and Consul.  The timer's thread and the loading thread are taken to *)
(* be quick against a tick, except while they wait for an answer.           *)

Quick == timer # "timeout" /\ ~(timer = "waiting" /\ elapsed >= Interval)
         /\ pc \notin {"timer", "join", "delete", "stop"}

Tick ==
  /\ Quick
  /\ elapsed' = IF timer = "waiting" THEN elapsed + 1 ELSE elapsed
  /\ faulty' = (faulty \/ timer = "calling" \/ pc \in {"pass", "unregister"})
  /\ \/ consul = "absent" /\ UNCHANGED <<consul, age>>
     \/ consul = "passing" /\ age + 1 < Ttl /\ age' = age + 1 /\ UNCHANGED consul
     \/ consul = "passing" /\ age + 1 >= Ttl /\ age' = 0 /\ consul' = "critical"
     \/ consul = "critical" /\ age + 1 < DeregisterTtl /\ age' = age + 1 /\ UNCHANGED consul
     \/ consul = "critical" /\ age + 1 >= DeregisterTtl /\ age' = 0 /\ consul' = "absent"
  /\ UNCHANGED <<loadVars, timer, stopped, late>>

-----------------------------------------------------------------------------
Loading   == Load \/ Register \/ RegisterFails \/ FirstPass \/ StartTimer \/ Bind
             \/ BindFails
Unloading == Unregister \/ Stop \/ Join \/ Delete
TimerRuns == TimerFires \/ TimerCalls \/ TimerReturns \/ TimerWakes

Next == Loading \/ Unload \/ Unloading \/ TimerRuns \/ TimerWaitsAnew \/ Tick

Spec == Init /\ [][Next]_clusterVars

\* Both threads run, and every request is answered at last.
Fairness ==
  /\ WF_clusterVars(Loading) /\ WF_clusterVars(Unregister) /\ WF_clusterVars(Join)
  /\ WF_clusterVars(Delete) /\ SF_clusterVars(Stop)
  /\ WF_clusterVars(TimerRuns) /\ WF_clusterVars(Tick)

FairSpec == Spec /\ Fairness

-----------------------------------------------------------------------------
(* Properties.                                                             *)

\* As long as every request is answered in time, a node that serves is passing in
\* Consul: the interval leaves no gap in which the check turns critical.
PassingWhileServing == pc = "serving" /\ ~faulty => consul = "passing"

\* The timer's function is bound to the Cluster object and never outlives it.
TimerUsesLiveCluster == timer \in {"timeout", "calling"} => cluster = "alive"

\* A node that failed to bind its address, or was unloaded, is not in Consul any
\* more, unless a request failed or hung.
NotAdvertisedDead == pc \in {"failed", "unloaded"} /\ ~faulty => consul = "absent"

\* A timeout that races with stop sends one pass too many, and never two.
OneLatePass == late <= 1

\* Neither the timer's thread, nor a pass that is under way, holds an unload up.
UnloadCompletes == pc = "unregister" ~> pc \in {"failed", "unloaded"}
=============================================================================
