------------------------------- MODULE MCCalls -------------------------------
(***************************************************************************)
(* Calls on two bridged calls: one thread gets BridgeCall requests, which  *)
(* connect the far legs of both, another gets each of the other requests.  *)
(***************************************************************************)
EXTENDS Calls

CONSTANTS a, b, pa, pb, r1, r2

FourLegs == {a, b, pa, pb}
TwoCalls == [l \in FourLegs |-> CASE l = a -> pa [] l = pa -> a [] l = b -> pb [] l = pb -> b]
TwoRequests == {r1, r2}
Ask(kind, l, m) == [kind |-> kind, a |-> l, b |-> m]
AllAsks == [r \in TwoRequests |->
  IF r = r1 THEN {Ask("BridgeCall", a, b)}
  ELSE {Ask(kind, a, Nobody) : kind \in Kinds \ {"Bridge", "BridgeCall"}} \cup {Ask("Bridge", b, a)}]
OneThenTwo == [r \in TwoRequests |-> IF r = r1 THEN 1 ELSE 2]
OneParks == {a}
PartnersRecorded == {pa, b}

ASSUME RequestsAreApart == Apart
=============================================================================
