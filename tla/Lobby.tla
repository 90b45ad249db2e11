------------------------------- MODULE Lobby --------------------------------
(***************************************************************************)
(* What a waiting room promises: users stand in line, the doorkeeper       *)
(* raises the number of users let in, and a user whose place has settled   *)
(* is never overtaken.  A newcomer may be put anywhere behind the settled  *)
(* users; which places settle, and when, is up to the implementation.      *)
(***************************************************************************)
EXTENDS Naturals, FiniteSets

CONSTANT Users

VARIABLES
    place,    \* 1 is the head of the line, 0 is outside
    settled,  \* users who are never overtaken any more
    admitted  \* how many users from the head on are let in

vars == <<place, settled, admitted>>

InLine == {u \in Users : place[u] # 0}

Init ==
    /\ place = [u \in Users |-> 0]
    /\ settled = {}
    /\ admitted = 0

(* u enters in front of the users at place k and beyond. *)
Enter(u, k) ==
    /\ u \notin InLine
    /\ \A v \in settled : place[v] < k
    /\ place' = [v \in Users |->
                   IF v = u THEN k
                   ELSE IF place[v] >= k THEN place[v] + 1 ELSE place[v]]
    /\ UNCHANGED admitted

Stay == UNCHANGED <<place, admitted>>

(* Places only ever become settled. *)
Settle ==
    /\ settled \subseteq settled'
    /\ settled' \subseteq {u \in Users : place'[u] # 0}

Admit ==
    /\ admitted' = admitted + 1
    /\ UNCHANGED <<place, settled>>

Clear ==
    /\ place' = [u \in Users |-> 0]
    /\ settled' = {}
    /\ admitted' = 0

Next ==
    \/ \E u \in Users, k \in 1..(Cardinality(InLine) + 1) : Enter(u, k) /\ Settle
    \/ Stay /\ Settle
    \/ Admit
    \/ Clear

Spec == Init /\ [][Next]_vars
=============================================================================
