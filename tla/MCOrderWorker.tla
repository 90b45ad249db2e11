--------------------------- MODULE MCOrderWorker ----------------------------
(* Instances of OrderWorker for TLC. *)
EXTENDS OrderWorker, TLC

Good == [order_id |-> "given", user_id |-> "", customer_id |-> "given",
         item_id |-> "given", quantity |-> "positive", timestamp |-> "given"]

AllGood == [o \in Orders |-> Good]

(* One order is good, another names a user of blanks. *)
BadOrder   == CHOOSE o \in Orders : TRUE
OneBadBody == [AllGood EXCEPT ![BadOrder].user_id = "blanks"]

AllFaults  == FaultKinds
LostReply  == {"lost_reply"}
UpToExpiry == {"server_error", "client_error", "expiry"}

(* The orders of an instance with no malformed one, and its tasks, are      *)
(* interchangeable.                                                         *)
Symmetry == Permutations(Orders) \cup Permutations(Tasks)
=============================================================================
