---------------------------- MODULE Units_proofs ----------------------------
(* Sums of quantities: the facts about UnitSum that the proofs need. *)
EXTENDS Units, FiniteSetTheorems, TLAPS

(* A pair is a unit of S iff its request is in S and its index in range. *)
LEMMA UnitSetMember ==
    ASSUME NEW S, NEW q, NEW u
    PROVE  u \in UnitSet(q, S)
              <=> \E r \in S : \E i \in 1..q[r] : u = <<r, i>>
BY DEF UnitSet

(* Finitely many bounded requests ask for finitely many units, so their sum *)
(* is a natural number.                                                     *)
LEMMA UnitSumType ==
    ASSUME NEW S, IsFiniteSet(S), NEW M \in Nat, NEW q,
           \A r \in S : q[r] \in 1..M
    PROVE  /\ IsFiniteSet(UnitSet(q, S))
           /\ UnitSum(q, S) \in Nat
<1>1. UnitSet(q, S) \in SUBSET (S \X (1..M))
  <2> SUFFICES ASSUME NEW r \in S, NEW i \in 1..q[r]
               PROVE  <<r, i>> \in S \X (1..M)
    BY DEF UnitSet
  <2>1. i \in 1..M
    OBVIOUS
  <2> QED
    BY <2>1
<1>2. IsFiniteSet(1..M)
  <2>1. 1 \in Int /\ M \in Int
    OBVIOUS
  <2> QED
    BY <2>1, FS_Interval
<1>3. IsFiniteSet(S \X (1..M))
  BY <1>2, FS_Product
<1>4. IsFiniteSet(UnitSet(q, S))
  BY <1>1, <1>3, FS_Subset
<1> QED
  BY <1>4, FS_CardinalityType DEF UnitSum

(* Nobody asks for nothing. *)
LEMMA UnitSumEmpty ==
    ASSUME NEW q
    PROVE  UnitSum(q, {}) = 0
<1>1. UnitSet(q, {}) = {}
  BY DEF UnitSet
<1> QED
  BY <1>1, FS_EmptySet DEF UnitSum

(* More requests ask for at least as many units. *)
LEMMA UnitSumMonotone ==
    ASSUME NEW T, IsFiniteSet(T), NEW S \in SUBSET T, NEW M \in Nat, NEW q,
           \A r \in T : q[r] \in 1..M
    PROVE  UnitSum(q, S) <= UnitSum(q, T)
<1>1. IsFiniteSet(UnitSet(q, T))
  BY UnitSumType
<1>2. UnitSet(q, S) \in SUBSET UnitSet(q, T)
  BY DEF UnitSet
<1> QED
  BY <1>1, <1>2, FS_Subset DEF UnitSum

(* Disjoint sets of requests add up. *)
LEMMA UnitSumDisjoint ==
    ASSUME NEW S, IsFiniteSet(S), NEW T, IsFiniteSet(T), S \cap T = {},
           NEW M \in Nat, NEW q, \A r \in S \cup T : q[r] \in 1..M
    PROVE  UnitSum(q, S \cup T) = UnitSum(q, S) + UnitSum(q, T)
<1>1. /\ IsFiniteSet(UnitSet(q, S)) /\ UnitSum(q, S) \in Nat
      /\ IsFiniteSet(UnitSet(q, T)) /\ UnitSum(q, T) \in Nat
  BY UnitSumType
<1>2. UnitSet(q, S \cup T) = UnitSet(q, S) \cup UnitSet(q, T)
  BY DEF UnitSet
<1>3. UnitSet(q, S) \cap UnitSet(q, T) = {}
  <2> SUFFICES ASSUME NEW u \in UnitSet(q, S), u \in UnitSet(q, T)
               PROVE  FALSE
    OBVIOUS
  <2>1. PICK r \in S : \E i \in 1..q[r] : u = <<r, i>>
    BY UnitSetMember
  <2>2. PICK t \in T : \E i \in 1..q[t] : u = <<t, i>>
    BY UnitSetMember
  <2>3. r = t
    BY <2>1, <2>2
  <2> QED
    BY <2>3
<1>4. Cardinality(UnitSet(q, S) \cup UnitSet(q, T))
        = Cardinality(UnitSet(q, S)) + Cardinality(UnitSet(q, T))
            - Cardinality({})
  BY <1>1, <1>3, FS_Union
<1>5. Cardinality({}) = 0
  BY FS_EmptySet
<1>6. UnitSum(q, S \cup T)
        = UnitSum(q, S) + UnitSum(q, T) - Cardinality({})
  BY <1>2, <1>4, Zenon DEF UnitSum
<1> QED
  BY <1>1, <1>5, <1>6

(* Two sets of requests together ask for no more than each for itself. *)
LEMMA UnitSumUnion ==
    ASSUME NEW S, IsFiniteSet(S), NEW T, IsFiniteSet(T),
           NEW M \in Nat, NEW q, \A r \in S \cup T : q[r] \in 1..M
    PROVE  UnitSum(q, S \cup T) <= UnitSum(q, S) + UnitSum(q, T)
<1>1. IsFiniteSet(T \ S)
  BY FS_Subset
<1>2. UnitSum(q, S \cup (T \ S)) = UnitSum(q, S) + UnitSum(q, T \ S)
  BY <1>1, UnitSumDisjoint
<1>3. UnitSum(q, T \ S) <= UnitSum(q, T)
  BY UnitSumMonotone
<1>4. S \cup (T \ S) = S \cup T
  OBVIOUS
<1>5. /\ UnitSum(q, S) \in Nat /\ UnitSum(q, T) \in Nat
      /\ UnitSum(q, T \ S) \in Nat
  BY <1>1, UnitSumType
<1>6. UnitSum(q, S \cup T) = UnitSum(q, S) + UnitSum(q, T \ S)
  BY <1>2, <1>4, Zenon
<1> QED
  BY <1>3, <1>5, <1>6

(* One request asks for its quantity. *)
LEMMA UnitSumSingleton ==
    ASSUME NEW r, NEW q, q[r] \in Nat
    PROVE  UnitSum(q, {r}) = q[r]
<1>1. UnitSet(q, {r}) = {r} \X (1..q[r])
  BY DEF UnitSet
<1>2. IsFiniteSet({r}) /\ Cardinality({r}) = 1
  BY FS_Singleton
<1>3. IsFiniteSet(1..q[r]) /\ Cardinality(1..q[r]) = q[r]
  <2>1. 1 \in Int /\ q[r] \in Int
    OBVIOUS
  <2>2. /\ IsFiniteSet(1..q[r])
        /\ Cardinality(1..q[r]) = IF 1 > q[r] THEN 0 ELSE q[r] - 1 + 1
    BY <2>1, FS_Interval
  <2> QED
    BY <2>2
<1>4. Cardinality({r} \X (1..q[r])) = 1 * q[r]
  <2>1. Cardinality({r} \X (1..q[r])) = Cardinality({r}) * Cardinality(1..q[r])
    BY <1>2, <1>3, FS_Product, Zenon
  <2> QED
    BY <1>2, <1>3, <2>1, Zenon
<1>5. Cardinality(UnitSet(q, {r})) = 1 * q[r]
  BY <1>1, <1>4, Zenon
<1> QED
  BY <1>5 DEF UnitSum

(* Another request adds its quantity to the sum. *)
LEMMA UnitSumAdd ==
    ASSUME NEW S, IsFiniteSet(S), NEW r, r \notin S, NEW M \in Nat, NEW q,
           \A s \in S \cup {r} : q[s] \in 1..M
    PROVE  UnitSum(q, S \cup {r}) = UnitSum(q, S) + q[r]
<1>1. IsFiniteSet({r})
  BY FS_Singleton
<1>2. q[r] \in Nat
  OBVIOUS
<1>3. UnitSum(q, {r}) = q[r]
  BY <1>2, UnitSumSingleton, Zenon
<1> QED
  BY <1>1, <1>3, UnitSumDisjoint

(* A request that leaves takes its quantity off the sum. *)
LEMMA UnitSumRemove ==
    ASSUME NEW S, IsFiniteSet(S), NEW r \in S, NEW M \in Nat, NEW q,
           \A s \in S : q[s] \in 1..M
    PROVE  UnitSum(q, S \ {r}) = UnitSum(q, S) - q[r]
<1>1. IsFiniteSet(S \ {r})
  BY FS_Subset
<1>2. UnitSum(q, (S \ {r}) \cup {r}) = UnitSum(q, S \ {r}) + q[r]
  BY <1>1, UnitSumAdd
<1>3. (S \ {r}) \cup {r} = S
  OBVIOUS
<1>4. UnitSum(q, S) = UnitSum(q, S \ {r}) + q[r]
  BY <1>2, <1>3, Zenon
<1>5. UnitSum(q, S \ {r}) \in Nat /\ q[r] \in Nat
  BY <1>1, UnitSumType
<1> QED
  BY <1>4, <1>5

-----------------------------------------------------------------------------
(* Sums over different quantities *)

(* Finitely many requests ask for finitely many units, bounded or not. *)
LEMMA UnitSetFinite ==
    ASSUME NEW S, IsFiniteSet(S), NEW q, \A r \in S : q[r] \in Nat
    PROVE  IsFiniteSet(UnitSet(q, S))
<1> DEFINE F == {{r} \X (1..q[r]) : r \in S}
           f == [r \in S |-> {r} \X (1..q[r])]
<1>1. f \in Surjection(S, F)
  BY DEF Surjection
<1>2. IsFiniteSet(F)
  <2> HIDE DEF f, F
  <2> QED
    BY <1>1, FS_Surjection
<1>3. ASSUME NEW U \in F PROVE IsFiniteSet(U)
  <2>1. PICK r \in S : U = {r} \X (1..q[r])
    OBVIOUS
  <2>2. 1 \in Int /\ q[r] \in Int
    OBVIOUS
  <2>3. IsFiniteSet({r}) /\ IsFiniteSet(1..q[r])
    BY <2>2, FS_Singleton, FS_Interval
  <2> QED
    BY <2>1, <2>3, FS_Product
<1>4. UnitSet(q, S) = UNION F
  BY DEF UnitSet
<1> HIDE DEF F
<1> QED
  BY <1>2, <1>3, <1>4, FS_UNION

(* Whoever asks for more, request by request, asks for more in the sum. *)
LEMMA UnitSumWithin ==
    ASSUME NEW T, IsFiniteSet(T), NEW q, \A r \in T : q[r] \in Nat,
           NEW S, NEW p, \A r \in S : p[r] \in Nat,
           \A r \in S : p[r] = 0 \/ (r \in T /\ p[r] <= q[r])
    PROVE  /\ UnitSum(p, S) \in Nat /\ UnitSum(q, T) \in Nat
           /\ UnitSum(p, S) <= UnitSum(q, T)
<1>1. IsFiniteSet(UnitSet(q, T))
  BY UnitSetFinite
<1>2. UnitSet(p, S) \in SUBSET UnitSet(q, T)
  <2> SUFFICES ASSUME NEW r \in S, NEW i \in 1..p[r]
               PROVE  <<r, i>> \in UnitSet(q, T)
    BY DEF UnitSet
  <2>1. r \in T /\ i \in 1..q[r]
    OBVIOUS
  <2> QED
    BY <2>1, UnitSetMember
<1>3. IsFiniteSet(UnitSet(p, S))
  BY <1>1, <1>2, FS_Subset
<1> QED
  BY <1>1, <1>2, <1>3, FS_Subset, FS_CardinalityType DEF UnitSum

(* Whoever asks for no more than two others together, request by request,   *)
(* asks for no more than these in the sum.                                  *)
LEMMA UnitSumSplit ==
    ASSUME NEW T, IsFiniteSet(T), NEW s, NEW q, NEW p,
           \A r \in T : s[r] \in Nat /\ q[r] \in Nat /\ p[r] \in Nat,
           \A r \in T : s[r] <= q[r] + p[r]
    PROVE  /\ UnitSum(s, T) \in Nat /\ UnitSum(q, T) \in Nat
           /\ UnitSum(p, T) \in Nat
           /\ UnitSum(s, T) <= UnitSum(q, T) + UnitSum(p, T)
<1> DEFINE f == [u \in UnitSet(p, T) |-> <<u[1], q[u[1]] + u[2]>>]
           above == {f[u] : u \in UnitSet(p, T)}
<1>1. /\ IsFiniteSet(UnitSet(s, T)) /\ IsFiniteSet(UnitSet(q, T))
      /\ IsFiniteSet(UnitSet(p, T))
  BY UnitSetFinite
<1>2. f \in Surjection(UnitSet(p, T), above)
  BY DEF Surjection
<1> HIDE DEF f, above
<1>3. UnitSet(s, T) \in SUBSET (UnitSet(q, T) \cup above)
  <2> SUFFICES ASSUME NEW r \in T, NEW i \in 1..s[r]
               PROVE  <<r, i>> \in UnitSet(q, T) \cup above
    BY DEF UnitSet
  <2>1. CASE i <= q[r]
    <3>1. i \in 1..q[r]
      BY <2>1
    <3> QED
      BY <3>1, UnitSetMember
  <2>2. CASE ~(i <= q[r])
    <3> DEFINE u == <<r, i - q[r]>>
    <3>1. i - q[r] \in 1..p[r] /\ q[r] + (i - q[r]) = i
      BY <2>2
    <3>2. u \in UnitSet(p, T)
      BY <3>1, UnitSetMember
    <3>3. f[u] = <<r, i>>
      BY <3>1, <3>2 DEF f
    <3> QED
      BY <3>2, <3>3 DEF above
  <2> QED
    BY <2>1, <2>2
<1>4. /\ IsFiniteSet(above)
      /\ Cardinality(above) <= Cardinality(UnitSet(p, T))
  BY <1>1, <1>2, FS_Surjection
<1>5. /\ IsFiniteSet(UnitSet(q, T) \cup above)
      /\ Cardinality(UnitSet(q, T) \cup above)
            = Cardinality(UnitSet(q, T)) + Cardinality(above)
                - Cardinality(UnitSet(q, T) \cap above)
  BY <1>1, <1>4, FS_Union
<1>6. Cardinality(UnitSet(s, T)) <= Cardinality(UnitSet(q, T) \cup above)
  BY <1>3, <1>5, FS_Subset
<1>7. IsFiniteSet(UnitSet(q, T) \cap above)
  BY <1>4, FS_Subset
<1>8. /\ Cardinality(UnitSet(s, T)) \in Nat /\ Cardinality(UnitSet(q, T)) \in Nat
      /\ Cardinality(UnitSet(p, T)) \in Nat /\ Cardinality(above) \in Nat
      /\ Cardinality(UnitSet(q, T) \cap above) \in Nat
      /\ Cardinality(UnitSet(q, T) \cup above) \in Nat
  BY <1>1, <1>4, <1>5, <1>7, FS_CardinalityType
<1> QED
  BY <1>4, <1>5, <1>6, <1>8 DEF UnitSum
=============================================================================
