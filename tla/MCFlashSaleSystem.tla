------------------------- MODULE MCFlashSaleSystem --------------------------
(* Instances of FlashSaleSystem for TLC. *)
EXTENDS FlashSaleSystem

OnlyAtomic  == {"atomic_decr"}
NoFaults    == {}
TaskOrQueueFails == {"crash", "publish", "lost_ack", "resent_decr"}
TablesFail       == {"server_error"}

(* The name of the second customer is a blank. *)
OneBlank == [r \in Requests |-> IF r = "r2" THEN "blanks" ELSE "given"]
AllGiven == [r \in Requests |-> "given"]
=============================================================================
