---------------------------- MODULE MCCallEvents ----------------------------
(***************************************************************************)
(* CallEvents on the leg of an agent and the leg that eavesdrops on it.    *)
(* Only the latter is held and recorded: twice, or once each.              *)
(***************************************************************************)
EXTENDS CallEvents

CONSTANTS supervisor, agent

TwoLegs == {supervisor, agent}
OneEavesdrops == [l \in TwoLegs |-> IF l = supervisor THEN agent ELSE Nobody]
NotOdd        == [field \in {"quiet", "bad", "waits"} |-> {}]
OddInOneWay   == {NotOdd} \cup {[NotOdd EXCEPT ![field] = {supervisor}] : field \in DOMAIN NotOdd}
ChangesTwice  == [l \in TwoLegs |-> IF l = supervisor THEN 2 ELSE 0]
=============================================================================
