--------------------------- MODULE MCFlashSaleApi ---------------------------
(* Instances of FlashSaleApi for TLC. *)
EXTENDS FlashSaleApi, TLC

AllStrategies   == KnownStrategies \cup {"typo"}
AllKnown        == KnownStrategies
CompareFirst    == {"optimistic", "lua_script"}
OnlyAtomic      == {"atomic_decr"}

NoFaults        == {}
PublishFaults   == {"publish"}
CancelAndPublish == {"cancel", "publish"}
LostAck         == {"lost_ack"}
Unanswered ==
    {"crash", "publish", "lost_ack", "resent_decr", "resent_incr"}
UnitsKept       == FaultKinds \ {"resent_incr"}

Symmetry == Permutations(Requests) \cup Permutations(Replicas)
=============================================================================
