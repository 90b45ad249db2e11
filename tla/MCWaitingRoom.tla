--------------------------- MODULE MCWaitingRoom ----------------------------
(* An instance of WaitingRoom for TLC: user 1 has two clients. *)
EXTENDS WaitingRoom

TwoUsers       == 1..2
ThreeClients   == {"a", "b", "c"}
ThreeCallers   == [c \in ThreeClients |-> IF c = "c" THEN 2 ELSE 1]
BothStrategies == KnownStrategies
AllMishaps     == MishapKinds
=============================================================================
