---------------------------- MODULE Stock_proofs ----------------------------
(* What the abstract stock is worth: it never sells a unit twice.            *)
EXTENDS Stock, Units_proofs

Typed(M) ==
    /\ qty \in [Requests -> 1..M]
    /\ available \in Nat
    /\ granted \subseteq Requests
    /\ orders \subseteq Requests

LEMMA Sums ==
    ASSUME IsFiniteSet(Requests), NEW M \in Nat, qty \in [Requests -> 1..M]
    PROVE  /\ \A S \in SUBSET Requests :
                 IsFiniteSet(S) /\ UnitSum(qty, S) \in Nat
           /\ \A S \in SUBSET Requests : \A R \in SUBSET S :
                 UnitSum(qty, R) <= UnitSum(qty, S)
           /\ \A S, R \in SUBSET Requests :
                 S \cap R = {} =>
                    UnitSum(qty, S \cup R) = UnitSum(qty, S) + UnitSum(qty, R)
<1>1. ASSUME NEW S \in SUBSET Requests
      PROVE  /\ IsFiniteSet(S) /\ UnitSum(qty, S) \in Nat
             /\ \A r \in S : qty[r] \in 1..M
  <2>1. IsFiniteSet(S) /\ \A r \in S : qty[r] \in 1..M
    BY FS_Subset
  <2> QED
    BY <2>1, UnitSumType
<1>2. ASSUME NEW S \in SUBSET Requests, NEW R \in SUBSET S
      PROVE  UnitSum(qty, R) <= UnitSum(qty, S)
  BY <1>1, UnitSumMonotone
<1>3. ASSUME NEW S \in SUBSET Requests, NEW R \in SUBSET Requests, S \cap R = {}
      PROVE  UnitSum(qty, S \cup R) = UnitSum(qty, S) + UnitSum(qty, R)
  <2>1. /\ IsFiniteSet(S) /\ IsFiniteSet(R)
        /\ \A r \in S \cup R : qty[r] \in 1..M
    BY <1>1
  <2> QED
    BY <1>3, <2>1, UnitSumDisjoint
<1> QED
  BY <1>1, <1>2, <1>3

LEMMA StockStep ==
    ASSUME IsFiniteSet(Requests), InventoryCount \in Nat, NEW M \in Nat,
           Typed(M), Conserved, [Next]_stockVars
    PROVE  Typed(M)' /\ Conserved'
<1> DEFINE G == UnitSum(qty, granted)
           O == UnitSum(qty, orders)
<1>0. /\ qty \in [Requests -> 1..M] /\ available \in Nat
      /\ granted \in SUBSET Requests /\ orders \in SUBSET Requests
      /\ granted \cap orders = {} /\ available + G + O <= InventoryCount
      /\ G \in Nat /\ O \in Nat
  BY Sums DEF Typed, Conserved
<1>1. ASSUME qty' = qty, NEW a \in Nat, available' = a,
             NEW g \in SUBSET Requests, granted' = g,
             NEW o \in SUBSET Requests, orders' = o, g \cap o = {},
             a + UnitSum(qty, g) + UnitSum(qty, o) <= InventoryCount
      PROVE  Typed(M)' /\ Conserved'
  BY <1>0, <1>1 DEF Typed, Conserved
<1>2. CASE Open
  <2>1. UnitSum(qty, {}) = 0
    BY UnitSumEmpty
  <2>2. InventoryCount + UnitSum(qty, {}) + UnitSum(qty, {}) <= InventoryCount
    BY <2>1
  <2> QED
    BY <1>1, <1>2, <2>2 DEF Open
<1>3. ASSUME NEW r \in Requests, Grant(r)
      PROVE  Typed(M)' /\ Conserved'
  <2> DEFINE g == granted \cup {r}
             a == available - qty[r]
  <2>1. qty[r] \in Nat /\ a \in Nat /\ IsFiniteSet(granted)
    BY <1>0, <1>3, Sums DEF Grant
  <2>2. UnitSum(qty, g) = G + qty[r]
    <3>1. r \notin granted /\ \A s \in granted \cup {r} : qty[s] \in 1..M
      BY <1>0, <1>3 DEF Grant
    <3> QED
      BY <2>1, <3>1, UnitSumAdd
  <2>3. a + UnitSum(qty, g) + O <= InventoryCount
    BY <1>0, <2>1, <2>2
  <2>4. g \in SUBSET Requests /\ g \cap orders = {}
    BY <1>0, <1>3 DEF Grant
  <2>5. qty' = qty /\ available' = a /\ granted' = g /\ orders' = orders
    BY <1>3 DEF Grant
  <2> HIDE DEF a, g
  <2> QED
    BY <1>0, <1>1, <2>1, <2>3, <2>4, <2>5
<1>4. CASE Settle
  <2>1. PICK out \in SUBSET granted : \E back \in SUBSET (granted \ out) :
               /\ orders' = orders \cup out
               /\ granted' \in SUBSET (granted \ (out \cup back))
               /\ available' \in 0..(available + UnitSum(qty, back))
               /\ UNCHANGED qty
    BY <1>4 DEF Settle
  <2>2. PICK back \in SUBSET (granted \ out) :
               /\ orders' = orders \cup out
               /\ granted' \in SUBSET (granted \ (out \cup back))
               /\ available' \in 0..(available + UnitSum(qty, back))
               /\ UNCHANGED qty
    BY <2>1
  <2> DEFINE o == orders \cup out
             kept == granted \ out
             g == granted'
  <2>3. /\ out \in SUBSET Requests /\ kept \in SUBSET Requests
        /\ back \in SUBSET Requests /\ g \in SUBSET Requests
        /\ o \in SUBSET Requests /\ g \cup back \in SUBSET kept
        /\ g \cap back = {} /\ orders \cap out = {} /\ out \cap kept = {}
        /\ out \cup kept = granted /\ g \cap o = {}
    BY <1>0, <2>2
  <2>4. /\ UnitSum(qty, o) = O + UnitSum(qty, out)
        /\ UnitSum(qty, g \cup back) = UnitSum(qty, g) + UnitSum(qty, back)
        /\ UnitSum(qty, g \cup back) <= UnitSum(qty, kept)
        /\ UnitSum(qty, out \cup kept) = UnitSum(qty, out) + UnitSum(qty, kept)
    <3> HIDE DEF kept, g
    <3> QED
      BY <1>0, <2>3, Sums
  <2>5. /\ UnitSum(qty, out) \in Nat /\ UnitSum(qty, kept) \in Nat
        /\ UnitSum(qty, g) \in Nat /\ UnitSum(qty, back) \in Nat
    BY <1>0, <2>3, Sums
  <2>6. G = UnitSum(qty, out) + UnitSum(qty, kept)
    BY <2>3, <2>4, Zenon
  <2>7. /\ qty' = qty /\ orders' = o /\ granted' = g
        /\ available' \in Nat /\ available' <= available + UnitSum(qty, back)
    BY <1>0, <2>2, <2>5
  <2> HIDE DEF o, g, kept
  <2>8. available' + UnitSum(qty, g) + UnitSum(qty, o) <= InventoryCount
    BY <1>0, <2>4, <2>5, <2>6, <2>7
  <2> QED
    BY <1>1, <2>3, <2>7, <2>8
<1>5. CASE UNCHANGED stockVars
  BY <1>5 DEF stockVars, Typed, Conserved
<1> QED
  BY <1>2, <1>3, <1>4, <1>5 DEF Next

(* Whatever implements the abstract stock never sells a unit twice.         *)
THEOREM StockConserves ==
    ASSUME IsFiniteSet(Requests), InventoryCount \in Nat, NEW M \in Nat
    PROVE  Spec /\ qty \in [Requests -> 1..M] => []Conserved
<1>1. Init /\ qty \in [Requests -> 1..M] => Typed(M) /\ Conserved
  <2> SUFFICES ASSUME Init, qty \in [Requests -> 1..M]
               PROVE  Typed(M) /\ Conserved
    OBVIOUS
  <2>1. UnitSum(qty, {}) = 0
    BY UnitSumEmpty
  <2>2. 0 + UnitSum(qty, {}) + UnitSum(qty, {}) <= InventoryCount
    BY <2>1
  <2> QED
    BY <2>2 DEF Init, Typed, Conserved
<1>2. Typed(M) /\ Conserved /\ [Next]_stockVars => Typed(M)' /\ Conserved'
  BY StockStep
<1> QED
  BY <1>1, <1>2, PTL DEF Spec
=============================================================================
