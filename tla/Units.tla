------------------------------- MODULE Units --------------------------------
(***************************************************************************)
(* Sums of quantities: requests S, each asking for q[r] units, ask for the *)
(* number of elements of UnitSet(q, S) together.                           *)
(***************************************************************************)
EXTENDS Integers, FiniteSets

UnitSet(q, S) == UNION {{r} \X (1..q[r]) : r \in S}
UnitSum(q, S) == Cardinality(UnitSet(q, S))
=============================================================================
