------------------------- MODULE WaitingRoom_proofs -------------------------
(* Theorems about WaitingRoom, for every value of its constants.             *)
EXTENDS WaitingRoom, FiniteSetTheorems, TLAPS

-----------------------------------------------------------------------------
(* Ranks *)

LEMMA RankType ==
    ASSUME NEW f \in [Users -> Nat], NEW u \in Users
    PROVE  /\ IsFiniteSet(Ahead(f, u))
           /\ Cardinality(Ahead(f, u)) \in Nat
           /\ RankIn(f, u) \in Nat \ {0}
<1>1. Ahead(f, u) \in SUBSET Users
  BY DEF Ahead
<1>2. IsFiniteSet(Ahead(f, u))
  BY <1>1, FS_Subset, RoomAssumption
<1>3. Cardinality(Ahead(f, u)) \in Nat
  BY <1>2, FS_CardinalityType
<1> QED
  BY <1>2, <1>3 DEF RankIn

(* Whoever is ahead has the lower rank. *)
LEMMA RankRises ==
    ASSUME NEW f \in [Users -> Nat], NEW u \in Users, NEW v \in Users,
           u \in Ahead(f, v)
    PROVE  RankIn(f, u) < RankIn(f, v)
<1>1. u \in Nat /\ v \in Nat
  BY RoomAssumption
<1>2. Ahead(f, u) \cup {u} \in SUBSET Ahead(f, v)
  <2> SUFFICES ASSUME NEW w \in Ahead(f, u)
               PROVE  w \in Ahead(f, v)
    OBVIOUS
  <2>1. w \in Nat /\ f[w] \in Nat /\ f[u] \in Nat /\ f[v] \in Nat
    BY RoomAssumption DEF Ahead
  <2> QED
    BY <1>1, <2>1 DEF Ahead
<1>3. u \notin Ahead(f, u)
  BY <1>1 DEF Ahead
<1>4. Cardinality(Ahead(f, u) \cup {u}) = Cardinality(Ahead(f, u)) + 1
  BY <1>3, RankType, FS_AddElement
<1>5. Cardinality(Ahead(f, u) \cup {u}) <= Cardinality(Ahead(f, v))
  BY <1>2, RankType, FS_Subset
<1> QED
  BY <1>4, <1>5, RankType DEF RankIn

(* No two users in line have one rank. *)
LEMMA RankInjective ==
    ASSUME NEW f \in [Users -> Nat], NEW u \in Users, NEW v \in Users,
           f[u] # 0, f[v] # 0, RankIn(f, u) = RankIn(f, v)
    PROVE  u = v
<1>1. u \in Nat /\ v \in Nat /\ f[u] \in Nat /\ f[v] \in Nat
  BY RoomAssumption
<1>2. u = v \/ u \in Ahead(f, v) \/ v \in Ahead(f, u)
  BY <1>1 DEF Ahead
<1>3. RankIn(f, u) \in Nat /\ RankIn(f, v) \in Nat
  BY RankType
<1> QED
  BY <1>2, <1>3, RankRises

(* A newcomer with the highest score moves nobody. *)
LEMMA NewcomerLast ==
    ASSUME NEW f \in [Users -> Nat], NEW u \in Users, f[u] = 0,
           NEW s \in Nat, \A v \in Users : f[v] < s,
           NEW w \in Users, f[w] # 0
    PROVE  RankIn([f EXCEPT ![u] = s], w) = RankIn(f, w)
<1> DEFINE g == [f EXCEPT ![u] = s]
<1>1. ASSUME NEW v \in Users
      PROVE  v \in Ahead(g, w) <=> v \in Ahead(f, w)
  <2>1. CASE v = u
    <3>1. f[v] = 0 /\ g[v] = s /\ g[w] = f[w] /\ f[w] < s /\ f[w] \in Nat
      BY <2>1
    <3> QED
      BY <3>1 DEF Ahead
  <2>2. CASE v # u
    <3>1. g[v] = f[v] /\ g[w] = f[w]
      BY <2>2
    <3> QED
      BY <3>1 DEF Ahead
  <2> QED
    BY <2>1, <2>2
<1>2. Ahead(g, w) \subseteq Users /\ Ahead(f, w) \subseteq Users
  BY DEF Ahead
<1>3. Ahead(g, w) = Ahead(f, w)
  BY <1>1, <1>2, Zenon
<1> QED
  BY <1>3 DEF RankIn

-----------------------------------------------------------------------------
(* Type correctness *)

LEMMA AddedType ==
    ASSUME NEW f \in [Users -> Nat], score = f, NEW u \in Users, NEW s \in Nat
    PROVE  Added(u, s) \in [Users -> Nat]
BY DEF Added

LEMMA EitherType ==
    ASSUME TypeOK, NEW fine, NEW kind,
           Either(fine, kind) \/ Strikes(kind) \/ UNCHANGED mishaps
    PROVE  mishaps' \in 0..MaxMishaps
BY RoomAssumption DEF TypeOK, Either, Strikes

LEMMA RunScriptTypes ==
    ASSUME TypeOK, NEW c \in Clients, RunScript(c)
    PROVE  score' \in [Users -> Nat] /\ seq' \in Nat
<1>1. seq \in Nat /\ seq' \in Nat /\ stamp[c] \in Nat /\ Caller[c] \in Users
  BY RoomAssumption DEF RunScript, TypeOK
<1>2. score \in [Users -> Nat]
  BY DEF TypeOK
<1> QED
  BY <1>1, <1>2, AddedType DEF RunScript

LEMMA RoomInit == Init => RoomInv
<1> SUFFICES ASSUME Init
             PROVE  RoomInv
  OBVIOUS
<1> USE DEF Init
<1>1. TypeOK
  BY RoomAssumption DEF TypeOK
<1>2. TokensMade /\ OneOwner /\ TokensStand
  BY DEF TokensMade, OneOwner, TokensStand, Bearers
<1>3. LineInOrder
  BY RoomAssumption DEF LineInOrder, InLine, Recent
<1>4. PassedCounter /\ StampsRead
  BY DEF PassedCounter, Recent, StampsRead
<1> QED
  BY <1>1, <1>2, <1>3, <1>4 DEF RoomInv

LEMMA TypeStep == TypeOK /\ TokensMade /\ [Next]_vars => TypeOK'
<1> SUFFICES ASSUME TypeOK, TokensMade, [Next]_vars
             PROVE  TypeOK'
  OBVIOUS
<1> USE RoomAssumption DEF TypeOK, Labels, Refusals, redis, handlers, world, history
<1>1. ASSUME NEW c \in Clients, Ask(c)
      PROVE  TypeOK'
  BY <1>1 DEF Ask, GoTo
<1>2. ASSUME NEW c \in Clients, Lookup(c)
      PROVE  TypeOK'
  <2>1. score \in [Users -> Nat] /\ Caller[c] \in Users
    OBVIOUS
  <2>2. Rank(Caller[c]) \in Nat
    BY <2>1, RankType DEF Rank
  <2>3. position' \in [Clients -> Nat]
    BY <1>2, <2>2 DEF Lookup
  <2>4. stamp' \in [Clients -> Nat] /\ pc' \in [Clients -> Labels \cup Refusals \cup {"idle", "admitted"}]
    BY <1>2 DEF Lookup, GoTo
  <2>5. mishaps' \in 0..MaxMishaps
    BY <1>2 DEF Lookup, Either, Strikes
  <2> QED
    BY <1>2, <2>3, <2>4, <2>5 DEF Lookup
<1>3. ASSUME NEW c \in Clients, Insert(c)
      PROVE  TypeOK'
  <2>1. score' \in [Users -> Nat] /\ seq' \in Nat /\ Caller[c] \in Users
    BY <1>3, RunScriptTypes DEF Insert
  <2>2. RankIn(score', Caller[c]) \in Nat
    BY <2>1, RankType
  <2> QED
    BY <1>3, <2>1, <2>2 DEF Insert, RunScript, GoTo
<1>4. ASSUME NEW c \in Clients, QueryRank(c)
      PROVE  TypeOK'
  <2>1. score \in [Users -> Nat] /\ Caller[c] \in Users
    OBVIOUS
  <2>2. Rank(Caller[c]) \in Nat
    BY <2>1, RankType DEF Rank
  <2> QED
    BY <1>4, <2>2 DEF QueryRank, GoTo
<1>5. ASSUME NEW c \in Clients, QueryAdmitted(c)
      PROVE  TypeOK'
  BY <1>5 DEF QueryAdmitted, GoTo
<1>6. ASSUME NEW c \in Clients, GetToken(c)
      PROVE  TypeOK'
  <2>1. mishaps' \in 0..MaxMishaps
    BY <1>6, EitherType DEF GetToken
  <2>2. made' \in Nat /\ made <= made' /\ holds' \in [Clients -> Nat]
    <3>1. token[Caller[c]] \in Nat
      OBVIOUS
    <3>2. CASE AnswerToken(c, token[Caller[c]])
      BY <3>1, <3>2 DEF AnswerToken
    <3>3. CASE made' = made + 1 /\ holds' = [holds EXCEPT ![c] = made']
      BY <3>3
    <3> QED
      BY <1>6, <3>2, <3>3 DEF GetToken
  <2>3. pc' \in [Clients -> Labels \cup Refusals \cup {"idle", "admitted"}]
    BY <1>6 DEF GetToken, AnswerToken, GoTo
  <2>4. issued' \subseteq 1..made'
    BY <1>6, <2>2 DEF GetToken
  <2> QED
    BY <1>6, <2>1, <2>2, <2>3, <2>4 DEF GetToken, AnswerToken
<1>7. ASSUME NEW c \in Clients, ConfirmToken(c)
      PROVE  TypeOK'
  <2>1. mishaps' \in 0..MaxMishaps
    BY <1>7, EitherType DEF ConfirmToken
  <2>2. holds' \in [Clients -> Nat]
    BY <1>7 DEF ConfirmToken, AnswerToken
  <2>3. pc' \in [Clients -> Labels \cup Refusals \cup {"idle", "admitted"}]
    BY <1>7 DEF ConfirmToken, AnswerToken, GoTo
  <2> QED
    BY <1>7, <2>1, <2>2, <2>3 DEF ConfirmToken, AnswerToken
<1>8. ASSUME NEW c \in Clients, pc[c] = "issue", SetToken(c)
      PROVE  token' \in [Users -> Nat] /\ issued' \subseteq 1..made
  <2>1. holds[c] \in 1..made
    BY <1>8 DEF TokensMade, Bearers
  <2>2. issued' \subseteq issued \cup {holds[c]}
    BY <1>8 DEF SetToken
  <2>3. token' \in [Users -> Nat]
    BY <1>8 DEF SetToken
  <2> QED
    BY <2>1, <2>2, <2>3
<1>9. ASSUME NEW c \in Clients, IssueToken(c)
      PROVE  TypeOK'
  BY <1>8, <1>9 DEF IssueToken, SetToken, GoTo
<1>10. ASSUME NEW c \in Clients, AnswerError(c)
       PROVE  /\ pc' \in [Clients -> Labels \cup Refusals \cup {"idle", "admitted"}]
              /\ stamp' \in [Clients -> Nat]
              /\ position' \in [Clients -> Nat]
              /\ holds' \in [Clients -> Nat]
  BY <1>10 DEF AnswerError, GoTo
<1>11. ASSUME NEW c \in Clients, CallFails(c)
       PROVE  TypeOK'
  <2>1. mishaps' \in 0..MaxMishaps
    BY <1>11, EitherType DEF CallFails
  <2> QED
    BY <1>10, <1>11, <2>1 DEF CallFails, AnswerError
<1>12. ASSUME NEW c \in Clients, ReplyLost(c)
       PROVE  TypeOK'
  <2>1. /\ pc' \in [Clients -> Labels \cup Refusals \cup {"idle", "admitted"}]
        /\ stamp' \in [Clients -> Nat]
        /\ position' \in [Clients -> Nat]
        /\ holds' \in [Clients -> Nat]
        /\ made' = made
    BY <1>10, <1>12 DEF ReplyLost, AnswerError
  <2>2. mishaps' \in 0..MaxMishaps /\ UNCHANGED world
    BY <1>12 DEF ReplyLost, Strikes
  <2>3. CASE RunScript(c)
    BY <2>1, <2>2, <2>3, RunScriptTypes DEF RunScript
  <2>4. CASE pc[c] = "issue" /\ SetToken(c)
    BY <1>8, <2>1, <2>2, <2>4 DEF SetToken
  <2> QED
    BY <1>12, <2>3, <2>4 DEF ReplyLost
<1>13. ASSUME NEW p \in Replicas, Tick(p) \/ StopTicker(p) \/ StartTicker(p)
       PROVE  TypeOK'
  <2>1. CASE Tick(p)
    BY <2>1 DEF Tick
  <2>2. CASE StopTicker(p)
    <3>1. mishaps' \in 0..MaxMishaps
      BY <2>2, EitherType DEF StopTicker
    <3> QED
      BY <2>2, <3>1 DEF StopTicker
  <2>3. CASE StartTicker(p)
    BY <2>3 DEF StartTicker
  <2> QED
    BY <1>13, <2>1, <2>2, <2>3
<1>14. ASSUME NEW u \in Users, ExpireToken(u)
       PROVE  TypeOK'
  BY <1>14 DEF ExpireToken, Strikes
<1>15. CASE Reset
  BY <1>15 DEF Reset, Strikes
<1>16. CASE ClockAdvances
  BY <1>16 DEF ClockAdvances
<1>17. CASE UNCHANGED vars
  BY <1>17 DEF vars
<1> QED
  BY <1>1, <1>2, <1>3, <1>4, <1>5, <1>6, <1>7, <1>9, <1>11, <1>12, <1>13,
     <1>14, <1>15, <1>16, <1>17
     DEF Next, Arrive, AskAgain, Line, Admission, Trouble

-----------------------------------------------------------------------------
(* Tokens *)

TokenInv == TypeOK /\ TokensMade /\ OneOwner /\ TokensStand

(* No new bearer, no new token. *)
LEMMA TokensUntouched ==
    ASSUME TokenInv, UNCHANGED <<issued, made>>, lapsed \subseteq lapsed',
           \A u \in Users : \/ token'[u] = token[u]
                            \/ token'[u] = 0 /\ u \in lapsed',
           \A c \in Bearers' : c \in Bearers /\ holds'[c] = holds[c]
    PROVE  TokensMade' /\ OneOwner' /\ TokensStand'
<1> USE RoomAssumption DEF TokenInv
<1>1. Bearers' \subseteq Clients /\ Bearers \subseteq Clients
  BY DEF Bearers
<1>2. TokensMade'
  BY <1>1 DEF TokensMade
<1>3. \A c \in Bearers : holds[c] # 0
  BY DEF TokensMade, TypeOK
<1>4. OneOwner'
  BY <1>1, <1>3 DEF OneOwner
<1>5. TokensStand'
  BY <1>1 DEF TokensStand
<1> QED
  BY <1>2, <1>4, <1>5

(* SETNX. *)
LEMMA SetTokenKeeps ==
    ASSUME TokenInv, NEW c \in Clients, pc[c] = "issue", SetToken(c),
           UNCHANGED made,
           \A d \in Bearers' : d \in Bearers /\ holds'[d] = holds[d]
    PROVE  TokensMade' /\ OneOwner' /\ TokensStand'
<1> USE RoomAssumption DEF TokenInv
<1> DEFINE u == Caller[c]
<1>1. Bearers' \subseteq Clients /\ Bearers \subseteq Clients /\ c \in Bearers
  BY DEF Bearers
<1>2. lapsed' = lapsed /\ u \in Users /\ token \in [Users -> Nat]
  BY DEF SetToken, TypeOK
<1>3. CASE token[u] # 0
  <2>1. UNCHANGED <<token, issued>>
    BY <1>3 DEF SetToken
  <2> QED
    BY <1>2, <2>1, TokensUntouched
<1>4. CASE token[u] = 0
  <2>1. /\ token' = [token EXCEPT ![u] = holds[c]]
        /\ issued' = issued \cup {holds[c]}
    BY <1>4 DEF SetToken
  <2>2. \A d \in Bearers : holds[d] \in 1..made
    BY DEF TokensMade
  <2>3. TokensMade'
    BY <1>1, <1>2, <2>1, <2>2 DEF TokensMade
  <2>4. \A d \in Bearers : holds[d] = holds[c] => Caller[d] = u
    BY <1>1 DEF OneOwner
  <2>5. \A v \in Users : v # u => token'[v] = token[v] /\ token[v] # holds[c]
    BY <1>1, <1>2, <2>1 DEF OneOwner
  <2>6. token'[u] = holds[c] /\ holds[c] # 0
    BY <1>1, <1>2, <2>1, <2>2
  <2>7. OneOwner'
    BY <1>1, <1>2, <2>4, <2>5, <2>6 DEF OneOwner
  <2>8. TokensStand'
    <3> SUFFICES ASSUME NEW d \in Bearers', holds'[d] \in issued',
                        Caller[d] \notin lapsed'
                 PROVE  token'[Caller[d]] = holds'[d]
      BY DEF TokensStand
    <3>1. d \in Bearers /\ holds'[d] = holds[d] /\ Caller[d] \in Users
      BY <1>1
    <3>2. CASE holds[d] = holds[c]
      BY <2>4, <2>6, <3>1, <3>2
    <3>3. CASE holds[d] # holds[c]
      <4>1. token[Caller[d]] = holds[d]
        BY <1>2, <2>1, <3>1, <3>3 DEF TokensStand
      <4>2. Caller[d] # u
        BY <1>4, <2>2, <3>1, <4>1
      <4> QED
        BY <2>5, <3>1, <4>1, <4>2
    <3> QED
      BY <3>2, <3>3
  <2> QED
    BY <2>3, <2>7, <2>8
<1> QED
  BY <1>3, <1>4

(* A request is answered what is stored. *)
LEMMA StoredAnswered ==
    ASSUME TokenInv, NEW c \in Clients, token[Caller[c]] # 0,
           holds' = [holds EXCEPT ![c] = token[Caller[c]]],
           UNCHANGED <<token, issued, made, lapsed>>,
           Bearers' \subseteq Bearers \cup {c}
    PROVE  TokensMade' /\ OneOwner' /\ TokensStand'
<1> USE RoomAssumption DEF TokenInv
<1>1. Bearers \subseteq Clients /\ Caller[c] \in Users
  BY DEF Bearers
<1>2. /\ holds'[c] = token[Caller[c]]
      /\ \A d \in Bearers : d # c => holds'[d] = holds[d]
  BY <1>1 DEF TypeOK
<1>3. TokensMade'
  BY <1>1, <1>2 DEF TokensMade, TypeOK
<1>4. OneOwner'
  <2>1. \A d \in Bearers' : d # c => d \in Bearers /\ holds'[d] = holds[d]
    BY <1>2
  <2>2. ASSUME NEW d \in Bearers', holds'[d] = holds'[c]
        PROVE  Caller[d] = Caller[c]
    <3>1. CASE d = c
      BY <3>1
    <3>2. CASE d # c
      <4>1. d \in Bearers /\ token[Caller[c]] = holds[d]
        BY <1>2, <2>1, <2>2, <3>2
      <4> QED
        BY <1>1, <4>1, Zenon DEF OneOwner
    <3> QED
      BY <3>1, <3>2
  <2>3. \A d, e \in Bearers' : holds'[d] = holds'[e] => Caller[d] = Caller[e]
    BY <2>1, <2>2 DEF OneOwner
  <2>4. ASSUME NEW d \in Bearers', NEW v \in Users, token'[v] = holds'[d]
        PROVE  Caller[d] = v
    <3>1. CASE d = c
      <4>1. token[v] = token[Caller[c]]
        BY <1>2, <2>4, <3>1
      <4> QED
        BY <1>1, <3>1, <4>1 DEF OneOwner
    <3>2. CASE d # c
      <4>1. d \in Bearers /\ token[v] = holds[d]
        BY <2>1, <2>4, <3>2
      <4> QED
        BY <4>1, Zenon DEF OneOwner
    <3> QED
      BY <3>1, <3>2
  <2>5. \A v, w \in Users : token'[v] # 0 /\ token'[v] = token'[w] => v = w
    BY Zenon DEF OneOwner
  <2> QED
    BY <2>3, <2>4, <2>5 DEF OneOwner
<1>5. TokensStand'
  BY <1>1, <1>2 DEF TokensStand
<1> QED
  BY <1>3, <1>4, <1>5

(* A new token is nobody's yet. *)
LEMMA TokenMade ==
    ASSUME TokenInv, NEW c \in Clients,
           made' = made + 1, holds' = [holds EXCEPT ![c] = made'],
           UNCHANGED <<token, issued, lapsed>>,
           Bearers' \subseteq Bearers \cup {c}
    PROVE  TokensMade' /\ OneOwner' /\ TokensStand'
<1> USE RoomAssumption DEF TokenInv
<1>1. Bearers \subseteq Clients /\ made \in Nat /\ issued \subseteq 1..made
  BY DEF Bearers, TypeOK
<1>2. /\ holds'[c] = made + 1
      /\ \A d \in Bearers : d # c => holds'[d] = holds[d]
  BY <1>1 DEF TypeOK
<1>3. \A d \in Bearers : holds[d] \in 1..made
  BY DEF TokensMade
<1>4. \A u \in Users : token[u] \in 0..made
  <2> SUFFICES ASSUME NEW u \in Users
               PROVE  token[u] \in 0..made
    OBVIOUS
  <2>1. token[u] \in issued \/ token[u] = 0
    BY DEF TokensMade
  <2>2. CASE token[u] \in issued
    <3>1. token[u] \in 1..made
      BY <1>1, <2>2, Zenon
    <3> QED
      BY <1>1, <3>1
  <2>3. CASE token[u] = 0
    BY <1>1, <2>3
  <2> QED
    BY <2>1, <2>2, <2>3
<1>5. TokensMade'
  <2>1. \A d \in Bearers' : holds'[d] \in 1..made'
    BY <1>1, <1>2, <1>3
  <2> QED
    BY <2>1 DEF TokensMade
<1>6. OneOwner'
  BY <1>1, <1>2, <1>3, <1>4 DEF OneOwner
<1>7. made + 1 \notin issued
  BY <1>1
<1>8. TokensStand'
  BY <1>1, <1>2, <1>7 DEF TokensStand
<1> QED
  BY <1>5, <1>6, <1>8

LEMMA TokenStep ==
    TokenInv /\ [Next]_vars => TokensMade' /\ OneOwner' /\ TokensStand'
<1> SUFFICES ASSUME TokenInv, [Next]_vars
             PROVE  TokensMade' /\ OneOwner' /\ TokensStand'
  OBVIOUS
<1> DEFINE Same == \A d \in Bearers' : d \in Bearers /\ holds'[d] = holds[d]
<1>0. /\ pc \in [Clients -> Labels \cup Refusals \cup {"idle", "admitted"}]
      /\ holds \in [Clients -> Nat] /\ position \in [Clients -> Nat]
      /\ token \in [Users -> Nat] /\ Caller \in [Clients -> Users]
  BY RoomAssumption DEF TokenInv, TypeOK
<1> USE <1>0 DEF redis, handlers, world, history
(* A request that does not come to hold a token. *)
<1>1. ASSUME NEW c \in Clients, NEW l \in {"lookup", "insert", "rank", "count",
                "token", "waiting", "absent", "error"},
             GoTo(c, l), \/ UNCHANGED holds
                         \/ holds' = [holds EXCEPT ![c] = 0]
      PROVE  Same
  BY <1>1 DEF Bearers, GoTo
<1>2. ASSUME UNCHANGED <<token, issued, made>>, lapsed \subseteq lapsed', Same
      PROVE  TokensMade' /\ OneOwner' /\ TokensStand'
  BY <1>2, TokensUntouched
<1>3. ASSUME NEW c \in Clients, Ask(c)
      PROVE  TokensMade' /\ OneOwner' /\ TokensStand'
  <2>1. Same
    BY <1>1, <1>3 DEF Ask
  <2> QED
    BY <1>2, <1>3, <2>1 DEF Ask
<1>4. ASSUME NEW c \in Clients, Lookup(c) \/ Insert(c) \/ QueryRank(c) \/ QueryAdmitted(c)
      PROVE  TokensMade' /\ OneOwner' /\ TokensStand'
  <2>1. \E l \in {"insert", "rank", "count", "token", "waiting", "absent"} :
           GoTo(c, l)
    BY <1>4 DEF Lookup, Insert, QueryRank, QueryAdmitted
  <2>2. UNCHANGED <<token, issued, made, lapsed, holds>>
    BY <1>4 DEF Lookup, Insert, QueryRank, QueryAdmitted, RunScript
  <2>3. Same
    BY <1>1, <2>1, <2>2
  <2> QED
    BY <1>2, <2>2, <2>3
<1>5. ASSUME NEW c \in Clients, NEW l \in {"issue", "admitted"}, GoTo(c, l)
      PROVE  Bearers' \subseteq Bearers \cup {c}
  BY <1>5 DEF Bearers, GoTo
<1>6. ASSUME NEW c \in Clients, AnswerToken(c, token[Caller[c]]),
             token[Caller[c]] # 0, UNCHANGED <<redis, world, history>>
      PROVE  TokensMade' /\ OneOwner' /\ TokensStand'
  BY <1>5, <1>6, StoredAnswered DEF AnswerToken
<1>7. ASSUME NEW c \in Clients, GetToken(c)
      PROVE  TokensMade' /\ OneOwner' /\ TokensStand'
  <2>1. CASE token[Caller[c]] # 0 /\ AnswerToken(c, token[Caller[c]])
    BY <1>6, <1>7, <2>1 DEF GetToken
  <2>2. CASE /\ GoTo(c, "issue")
             /\ made' = made + 1
             /\ holds' = [holds EXCEPT ![c] = made']
    BY <1>5, <1>7, <2>2, TokenMade DEF GetToken
  <2> QED
    BY <1>7, <2>1, <2>2 DEF GetToken
<1>8. ASSUME NEW c \in Clients, IssueToken(c)
      PROVE  TokensMade' /\ OneOwner' /\ TokensStand'
  <2>1. Same
    BY <1>8 DEF IssueToken, GoTo, Bearers
  <2> QED
    BY <1>8, <2>1, SetTokenKeeps DEF IssueToken
<1>9. ASSUME NEW c \in Clients, ConfirmToken(c)
      PROVE  TokensMade' /\ OneOwner' /\ TokensStand'
  <2>1. CASE token[Caller[c]] # 0 /\ AnswerToken(c, token[Caller[c]])
    BY <1>6, <1>9, <2>1 DEF ConfirmToken
  <2>2. CASE AnswerToken(c, holds[c])
    <3>1. Same
      BY <1>9, <2>2 DEF ConfirmToken, AnswerToken, GoTo, Bearers
    <3> QED
      BY <1>2, <1>9, <2>2, <3>1 DEF ConfirmToken, AnswerToken
  <2> QED
    BY <1>9, <2>1, <2>2 DEF ConfirmToken
<1>10. ASSUME NEW c \in Clients, CallFails(c)
       PROVE  TokensMade' /\ OneOwner' /\ TokensStand'
  <2>1. Same
    BY <1>1, <1>10 DEF CallFails, AnswerError
  <2> QED
    BY <1>2, <1>10, <2>1 DEF CallFails, AnswerError
<1>11. ASSUME NEW c \in Clients, ReplyLost(c)
       PROVE  TokensMade' /\ OneOwner' /\ TokensStand'
  <2>1. Same /\ UNCHANGED made
    <3>1. CASE AnswerError(c)
      BY <1>1, <3>1 DEF AnswerError
    <3>2. CASE UNCHANGED handlers
      BY <3>2 DEF Bearers
    <3> QED
      BY <1>11, <3>1, <3>2 DEF ReplyLost
  <2>2. CASE RunScript(c)
    BY <1>2, <2>1, <2>2 DEF RunScript
  <2>3. CASE pc[c] = "issue" /\ SetToken(c)
    BY <2>1, <2>3, SetTokenKeeps
  <2> QED
    BY <1>11, <2>2, <2>3 DEF ReplyLost
<1>12. ASSUME NEW u \in Users, ExpireToken(u)
       PROVE  TokensMade' /\ OneOwner' /\ TokensStand'
  <2>1. Same
    BY <1>12 DEF ExpireToken, Bearers
  <2> QED
    BY <1>12, <2>1, TokensUntouched DEF ExpireToken
<1>13. ASSUME UNCHANGED <<token, issued, made, lapsed, pc, holds>>
       PROVE  TokensMade' /\ OneOwner' /\ TokensStand'
  <2>1. Same
    BY <1>13 DEF Bearers
  <2> QED
    BY <1>2, <1>13, <2>1
<1>14. ASSUME NEW p \in Replicas, Tick(p) \/ StopTicker(p) \/ StartTicker(p)
       PROVE  TokensMade' /\ OneOwner' /\ TokensStand'
  BY <1>13, <1>14 DEF Tick, StopTicker, StartTicker
<1>15. CASE Reset \/ ClockAdvances \/ UNCHANGED vars
  BY <1>13, <1>15 DEF Reset, ClockAdvances, vars
<1> QED
  BY <1>3, <1>4, <1>7, <1>8, <1>9, <1>10, <1>11, <1>12, <1>14, <1>15
     DEF Next, Arrive, AskAgain, Line, Admission, Trouble

-----------------------------------------------------------------------------
(* The line and the counter *)

LineInv == TypeOK /\ LineInOrder /\ PassedCounter

(* The line stays, and whatever is learnt is a rank in it. *)
LEMMA LineKept ==
    ASSUME LineInv, UNCHANGED <<score, seq, strategy>>,
           \A c \in Recent' : position'[c] # 0 =>
              \/ c \in Recent /\ position'[c] = position[c]
              \/ InLine(Caller[c]) /\ position'[c] = Rank(Caller[c])
    PROVE  LineInOrder'
<1>1. Recent' \subseteq Clients
  BY DEF Recent
<1>2. \A u \in Users : (InLine(u) <=> InLine(u)') /\ Rank(u)' = Rank(u)
  BY DEF InLine, Rank, RankIn, Ahead
<1>3. SUFFICES ASSUME strategy = "timestamp_incr"
               PROVE  /\ \A u \in Users : score'[u] <= seq'
                      /\ \A u, v \in Users :
                            InLine(u)' /\ score'[u] = score'[v] => u = v
                      /\ \A c \in Recent' : position'[c] # 0 =>
                            InLine(Caller[c])' /\ position'[c] = Rank(Caller[c])'
  BY DEF LineInOrder
<1>4. \A u \in Users : score'[u] <= seq'
  BY <1>3 DEF LineInv, LineInOrder
<1>5. \A u, v \in Users : InLine(u)' /\ score'[u] = score'[v] => u = v
  BY <1>2, <1>3 DEF LineInv, LineInOrder
<1>6. ASSUME NEW c \in Recent', position'[c] # 0
      PROVE  InLine(Caller[c])' /\ position'[c] = Rank(Caller[c])'
  <2>1. InLine(Caller[c]) /\ position'[c] = Rank(Caller[c])
    BY <1>3, <1>6 DEF LineInv, LineInOrder
  <2>2. Caller[c] \in Users
    BY <1>1, RoomAssumption
  <2> QED
    BY <1>2, <2>1, <2>2
<1> QED
  BY <1>4, <1>5, <1>6

(* The script puts a newcomer last. *)
LEMMA LineGrows ==
    ASSUME LineInv, NEW c \in Clients, RunScript(c), UNCHANGED strategy,
           \A d \in Clients : d # c => position'[d] = position[d],
           \/ position'[c] = 0
           \/ position'[c] = position[c]
           \/ position'[c] = RankIn(score', Caller[c])
    PROVE  LineInOrder'
<1> DEFINE u == Caller[c]
<1>1. /\ u \in Users /\ Recent' = Recent /\ Recent \subseteq Clients
      /\ score \in [Users -> Nat] /\ seq \in Nat
  BY RoomAssumption DEF Recent, RunScript, LineInv, TypeOK, history
<1>2. SUFFICES ASSUME strategy = "timestamp_incr"
               PROVE  /\ \A v \in Users : score'[v] <= seq'
                      /\ \A v, w \in Users :
                            InLine(v)' /\ score'[v] = score'[w] => v = w
                      /\ \A d \in Recent' : position'[d] # 0 =>
                            InLine(Caller[d])' /\ position'[d] = Rank(Caller[d])'
  BY DEF LineInOrder
<1>3. /\ \A v \in Users : score[v] <= seq
      /\ \A v, w \in Users : InLine(v) /\ score[v] = score[w] => v = w
      /\ \A d \in Recent : position[d] # 0 =>
            InLine(Caller[d]) /\ position[d] = Rank(Caller[d])
  BY <1>2 DEF LineInv, LineInOrder
<1>4. seq' = seq + 1 /\ score' = Added(u, seq + 1)
  BY <1>2 DEF RunScript
<1>5. /\ InLine(u)'
      /\ \A v \in Users : InLine(v) => InLine(v)' /\ Rank(v)' = Rank(v)
  <2>1. CASE InLine(u)
    <3>1. score' = score
      BY <1>4, <2>1 DEF Added
    <3> QED
      BY <2>1, <3>1 DEF InLine, Rank, RankIn, Ahead
  <2>2. CASE ~InLine(u)
    <3>1. score' = [score EXCEPT ![u] = seq + 1]
      BY <1>4, <2>2 DEF Added
    <3>2. \A v \in Users : score[v] < seq + 1
      BY <1>1, <1>3
    <3>3. \A v \in Users : InLine(v) => Rank(v)' = Rank(v)
      <4> SUFFICES ASSUME NEW v \in Users, InLine(v)
                   PROVE  RankIn(score', v) = RankIn(score, v)
        BY DEF Rank
      <4>1. score[v] # 0 /\ score[u] = 0 /\ seq + 1 \in Nat
        BY <1>1, <2>2 DEF InLine
      <4>2. RankIn([score EXCEPT ![u] = seq + 1], v) = RankIn(score, v)
        BY <1>1, <3>2, <4>1, NewcomerLast
      <4> QED
        BY <3>1, <4>2
    <3>4. InLine(u)' /\ \A v \in Users : InLine(v) => InLine(v)'
      BY <1>1, <3>1 DEF InLine
    <3> QED
      BY <3>3, <3>4
  <2> QED
    BY <2>1, <2>2
<1>6. \A v \in Users : score'[v] <= seq'
  BY <1>1, <1>3, <1>4 DEF Added
<1>7. ASSUME NEW v \in Users, NEW w \in Users, InLine(v)', score'[v] = score'[w]
      PROVE  v = w
  BY <1>1, <1>3, <1>4, <1>7 DEF Added, InLine
<1>8. ASSUME NEW d \in Recent', position'[d] # 0
      PROVE  InLine(Caller[d])' /\ position'[d] = Rank(Caller[d])'
  <2>1. CASE position'[d] = position[d]
    <3>1. InLine(Caller[d]) /\ position[d] = Rank(Caller[d]) /\ Caller[d] \in Users
      BY <1>1, <1>3, <1>8, <2>1, RoomAssumption
    <3> QED
      BY <1>5, <2>1, <3>1
  <2>2. CASE d = c /\ position'[c] = RankIn(score', u)
    BY <1>5, <2>2 DEF Rank
  <2> QED
    BY <1>1, <1>8, <2>1, <2>2
<1> QED
  BY <1>6, <1>7, <1>8

(* Where a request is, and what it has learnt of line and counter. *)
Passed == {"token", "issue", "confirm", "admitted"}

LEMMA CounterKept ==
    ASSUME LineInv, NEW c \in Clients,
           admitted <= admitted', admitted' \in Nat,
           \A d \in Clients : d # c =>
              /\ pc'[d] = pc[d] /\ position'[d] = position[d]
              /\ d \in Recent' => d \in Recent,
           pc'[c] = "idle" => position'[c] = 0,
           pc'[c] \in {"count"} \cup Passed => position'[c] # 0,
           c \in Recent' /\ pc'[c] \in Passed => position'[c] <= admitted'
    PROVE  PassedCounter'
<1>1. /\ admitted \in Nat /\ Recent' \subseteq Clients
      /\ \A d \in Clients : position[d] \in Nat
  BY DEF LineInv, TypeOK, Recent
<1>2. \A d \in Clients : pc'[d] = "idle" => position'[d] = 0
  BY DEF LineInv, PassedCounter
<1>3. \A d \in Clients : pc'[d] \in {"count"} \cup Passed => position'[d] # 0
  BY DEF LineInv, PassedCounter, Passed
<1>4. \A d \in Recent' : pc'[d] \in Passed => position'[d] <= admitted'
  BY <1>1 DEF LineInv, PassedCounter, Passed
<1> QED
  BY <1>2, <1>3, <1>4 DEF PassedCounter, Passed

LEMMA LineStep == LineInv /\ [Next]_vars => LineInOrder' /\ PassedCounter'
<1> SUFFICES ASSUME LineInv, [Next]_vars
             PROVE  LineInOrder' /\ PassedCounter'
  OBVIOUS
<1>0. /\ pc \in [Clients -> Labels \cup Refusals \cup {"idle", "admitted"}]
      /\ position \in [Clients -> Nat] /\ score \in [Users -> Nat]
      /\ admitted \in Nat /\ Caller \in [Clients -> Users]
      /\ Recent \subseteq Clients
  BY RoomAssumption DEF LineInv, TypeOK, Recent
<1>1. \A u \in Users : Rank(u) \in Nat \ {0}
  BY <1>0, RankType DEF Rank
<1> USE <1>0 DEF redis, handlers, world, history
<1>2. ASSUME NEW c \in Clients, position[c] # 0 \/ pc[c] \in {"count"} \cup Passed,
             UNCHANGED <<admitted, old>>
      PROVE  /\ position[c] # 0
             /\ c \in Recent' /\ pc[c] \in Passed => position[c] <= admitted'
  BY <1>2 DEF LineInv, PassedCounter, Passed, Recent
(* A request that keeps its position and does not pass the counter now. *)
<1>3. ASSUME NEW c \in Clients, NEW l \in Labels \cup Refusals \cup {"admitted"},
             GoTo(c, l), UNCHANGED <<score, seq, admitted, strategy, old, position>>,
             l \in {"count"} \cup Passed => position[c] # 0,
             l \in Passed => pc[c] \in Passed
      PROVE  LineInOrder' /\ PassedCounter'
  <2>1. LineInOrder'
    BY <1>3, LineKept DEF Recent
  <2>2. \A d \in Clients : d # c => pc'[d] = pc[d]
    BY <1>3 DEF GoTo
  <2>3. pc'[c] = l /\ l # "idle"
    BY <1>3 DEF GoTo, Labels, Refusals
  <2>4. c \in Recent' /\ pc'[c] \in Passed => position'[c] <= admitted'
    BY <1>2, <1>3, <2>3
  <2>5. PassedCounter'
    BY <1>3, <2>2, <2>3, <2>4, CounterKept DEF Recent
  <2> QED
    BY <2>1, <2>5
(* A request that forgets its position. *)
<1>4. ASSUME NEW c \in Clients, NEW l \in {"rank", "lookup", "error"}, GoTo(c, l),
             position' = [position EXCEPT ![c] = 0],
             UNCHANGED <<admitted, strategy>>, old \ {c} \subseteq old'
      PROVE  /\ PassedCounter'
             /\ UNCHANGED <<score, seq>> => LineInOrder'
  <2>1. /\ pc'[c] = l /\ position'[c] = 0
        /\ \A d \in Clients : d # c =>
              /\ pc'[d] = pc[d] /\ position'[d] = position[d]
              /\ d \in Recent' => d \in Recent
    BY <1>4 DEF GoTo, Recent
  <2>2. PassedCounter'
    BY <1>4, <2>1, CounterKept DEF Passed
  <2>3. \A d \in Recent' : position'[d] # 0 =>
           d \in Recent /\ position'[d] = position[d]
    BY <2>1 DEF Recent
  <2>4. ASSUME UNCHANGED <<score, seq>>
        PROVE  LineInOrder'
    BY <1>4, <2>3, <2>4, LineKept
  <2> QED
    BY <2>2, <2>4
(* A request that learns a rank. *)
<1>5. ASSUME NEW c \in Clients, NEW l \in {"rank", "count"}, GoTo(c, l),
             InLine(Caller[c]),
             position' = [position EXCEPT ![c] = Rank(Caller[c])],
             UNCHANGED <<score, seq, admitted, strategy, old>>
      PROVE  LineInOrder' /\ PassedCounter'
  <2>1. /\ pc'[c] = l /\ position'[c] = Rank(Caller[c]) /\ position'[c] # 0
        /\ \A d \in Clients : d # c =>
              pc'[d] = pc[d] /\ position'[d] = position[d]
    BY <1>1, <1>5 DEF GoTo
  <2>2. LineInOrder'
    <3> SUFFICES ASSUME NEW d \in Recent', position'[d] # 0
                 PROVE  \/ d \in Recent /\ position'[d] = position[d]
                        \/ InLine(Caller[d]) /\ position'[d] = Rank(Caller[d])
      BY <1>5, LineKept
    <3> QED
      BY <1>5, <2>1 DEF Recent
  <2>3. PassedCounter'
    BY <1>5, <2>1, CounterKept DEF Recent, Passed
  <2> QED
    BY <2>2, <2>3
<1>6. ASSUME NEW c \in Clients, Ask(c)
      PROVE  LineInOrder' /\ PassedCounter'
  BY <1>4, <1>6 DEF Ask
<1>7. ASSUME NEW c \in Clients, Lookup(c)
      PROVE  LineInOrder' /\ PassedCounter'
  <2>1. CASE InLine(Caller[c]) /\ GoTo(c, "rank")
             /\ position' = [position EXCEPT ![c] = Rank(Caller[c])]
    BY <1>5, <1>7, <2>1 DEF Lookup
  <2>2. CASE GoTo(c, "insert") /\ UNCHANGED position
    BY <1>3, <1>7, <2>2 DEF Lookup, Labels, Passed
  <2> QED
    BY <1>7, <2>1, <2>2 DEF Lookup
<1>8. ASSUME NEW c \in Clients, Insert(c)
      PROVE  LineInOrder' /\ PassedCounter'
  <2>1. RankIn(score', Caller[c]) \in Nat \ {0}
    <3>1. score' \in [Users -> Nat]
      BY <1>8, RunScriptTypes DEF Insert, LineInv
    <3> QED
      BY <3>1, RankType
  <2>2. /\ pc'[c] = "rank" /\ position'[c] = RankIn(score', Caller[c])
        /\ UNCHANGED <<admitted, old, strategy>>
        /\ \A d \in Clients : d # c =>
              pc'[d] = pc[d] /\ position'[d] = position[d]
    BY <1>8 DEF Insert, GoTo, RunScript
  <2>3. LineInOrder'
    BY <1>8, <2>2, LineGrows DEF Insert
  <2>4. PassedCounter'
    BY <2>1, <2>2, CounterKept DEF Recent, Passed
  <2> QED
    BY <2>3, <2>4
<1>9. ASSUME NEW c \in Clients, QueryRank(c)
      PROVE  LineInOrder' /\ PassedCounter'
  <2>1. CASE InLine(Caller[c]) /\ ~Joined(c)
    BY <1>5, <1>9, <2>1 DEF QueryRank
  <2>2. CASE InLine(Caller[c]) /\ Joined(c)
    BY <1>3, <1>9, <2>2 DEF QueryRank, Joined, Labels, Passed
  <2>3. CASE ~InLine(Caller[c])
    BY <1>3, <1>9, <2>3 DEF QueryRank, Refusals, Passed
  <2> QED
    BY <2>1, <2>2, <2>3
<1>10. ASSUME NEW c \in Clients, QueryAdmitted(c)
       PROVE  LineInOrder' /\ PassedCounter'
  <2>1. CASE position[c] <= admitted
    <3>1. /\ pc'[c] = "token" /\ UNCHANGED <<score, seq, admitted, strategy, old, position>>
          /\ \A d \in Clients : d # c => pc'[d] = pc[d]
      BY <1>10, <2>1 DEF QueryAdmitted, GoTo
    <3>2. position[c] # 0
      BY <1>10 DEF QueryAdmitted, LineInv, PassedCounter
    <3>3. LineInOrder'
      BY <3>1, LineKept DEF Recent
    <3>4. PassedCounter'
      BY <2>1, <3>1, <3>2, CounterKept DEF Recent
    <3> QED
      BY <3>3, <3>4
  <2>2. CASE ~(position[c] <= admitted)
    BY <1>3, <1>10, <2>2 DEF QueryAdmitted, Refusals, Passed
  <2> QED
    BY <2>1, <2>2
<1>11. ASSUME NEW c \in Clients, pc[c] \in Passed
       PROVE  position[c] # 0
  BY <1>11 DEF LineInv, PassedCounter, Passed
<1>12. ASSUME NEW c \in Clients, GetToken(c) \/ IssueToken(c) \/ ConfirmToken(c)
       PROVE  LineInOrder' /\ PassedCounter'
  <2>1. pc[c] \in Passed
    BY <1>12 DEF GetToken, IssueToken, ConfirmToken, Passed
  <2>2. \E l \in Passed \ {"token"} : GoTo(c, l)
    BY <1>12 DEF GetToken, IssueToken, ConfirmToken, AnswerToken, Passed
  <2>3. UNCHANGED <<score, seq, admitted, strategy, old, position>>
    BY <1>12 DEF GetToken, IssueToken, ConfirmToken, AnswerToken, SetToken
  <2>4. Passed \subseteq Labels \cup {"admitted"}
    BY DEF Passed, Labels
  <2> QED
    BY <1>3, <1>11, <2>1, <2>2, <2>3, <2>4
<1>13. ASSUME NEW c \in Clients, CallFails(c)
       PROVE  LineInOrder' /\ PassedCounter'
  BY <1>4, <1>13 DEF CallFails, AnswerError
<1>14. ASSUME admitted <= admitted', admitted' \in Nat, UNCHANGED <<pc, position, old>>
       PROVE  PassedCounter'
  BY <1>14 DEF PassedCounter, LineInv, Recent
<1>15. ASSUME UNCHANGED <<score, seq, strategy, position, old>>
       PROVE  LineInOrder'
  BY <1>15, LineKept DEF Recent
<1>16. ASSUME NEW c \in Clients, ReplyLost(c)
       PROVE  LineInOrder' /\ PassedCounter'
  <2>1. UNCHANGED <<admitted, old, strategy>>
    BY <1>16 DEF ReplyLost, RunScript, SetToken
  <2>2. /\ PassedCounter'
        /\ UNCHANGED <<score, seq>> => LineInOrder'
    <3>1. CASE AnswerError(c)
      BY <1>4, <2>1, <3>1 DEF AnswerError
    <3>2. CASE UNCHANGED handlers
      BY <1>14, <1>15, <2>1, <3>2
    <3> QED
      BY <1>16, <3>1, <3>2 DEF ReplyLost
  <2>3. CASE RunScript(c)
    <3>1. /\ \A d \in Clients : d # c => position'[d] = position[d]
          /\ position'[c] = 0 \/ position'[c] = position[c]
      BY <1>16 DEF ReplyLost, AnswerError
    <3>2. LineInOrder'
      BY <2>1, <2>3, <3>1, LineGrows
    <3> QED
      BY <2>2, <3>2
  <2>4. CASE SetToken(c)
    BY <2>2, <2>4 DEF SetToken
  <2> QED
    BY <1>16, <2>3, <2>4 DEF ReplyLost
<1>17. ASSUME NEW p \in Replicas, Tick(p) \/ StopTicker(p) \/ StartTicker(p)
       PROVE  LineInOrder' /\ PassedCounter'
  <2>1. UNCHANGED <<score, seq, strategy, position, old, pc>>
    BY <1>17 DEF Tick, StopTicker, StartTicker
  <2>2. admitted <= admitted' /\ admitted' \in Nat
    BY <1>17 DEF Tick, StopTicker, StartTicker
  <2> QED
    BY <1>14, <1>15, <2>1, <2>2
<1>18. CASE (\E u \in Users : ExpireToken(u)) \/ ClockAdvances \/ UNCHANGED vars
  <2>1. UNCHANGED <<score, seq, strategy, position, old, pc, admitted>>
    BY <1>18 DEF ExpireToken, ClockAdvances, vars
  <2> QED
    BY <1>14, <1>15, <2>1
<1>19. CASE Reset
  <2>1. \A c \in Recent' : pc'[c] = "idle" /\ position'[c] = 0
    BY <1>19 DEF Reset, Recent, LineInv, PassedCounter
  <2>2. /\ \A u \in Users : score'[u] = 0
        /\ seq' = 0
    BY <1>19 DEF Reset
  <2>3. LineInOrder'
    BY <2>1, <2>2 DEF LineInOrder, InLine
  <2>4. PassedCounter'
    BY <1>19, <2>1 DEF Reset, PassedCounter, LineInv
  <2> QED
    BY <2>3, <2>4
<1> QED
  BY <1>6, <1>7, <1>8, <1>9, <1>10, <1>12, <1>13, <1>16, <1>17, <1>18, <1>19
     DEF Next, Arrive, AskAgain, Line, Admission, Trouble

LEMMA StampStep == TypeOK /\ StampsRead /\ [Next]_vars => StampsRead'
<1> SUFFICES ASSUME TypeOK, StampsRead, [Next]_vars, strategy' = "timestamp",
                    NEW d \in Clients, pc'[d] = "insert"
             PROVE  stamp'[d] # 0
  BY DEF StampsRead
<1>1. now \in Nat \ {0} /\ MaxSkew \in Nat
  BY RoomAssumption DEF TypeOK
<1> USE DEF TypeOK, StampsRead, redis, handlers, world, history, GoTo
<1>2. ASSUME NEW c \in Clients, Lookup(c)
      PROVE  stamp'[d] # 0
  BY <1>1, <1>2 DEF Lookup
<1>3. ASSUME NEW c \in Clients,
             \/ Ask(c) \/ Insert(c) \/ QueryRank(c) \/ QueryAdmitted(c)
             \/ Admission(c) \/ CallFails(c)
      PROVE  stamp'[d] # 0
  BY <1>3 DEF Ask, Insert, QueryRank, QueryAdmitted, Admission, GetToken,
              IssueToken, ConfirmToken, AnswerToken, CallFails, AnswerError
<1>4. ASSUME NEW c \in Clients, ReplyLost(c)
      PROVE  stamp'[d] # 0
  BY <1>4 DEF ReplyLost, AnswerError
<1>5. ASSUME UNCHANGED <<pc, stamp, strategy>>
      PROVE  stamp'[d] # 0
  BY <1>5
<1>6. ASSUME NEW p \in Replicas, Tick(p) \/ StopTicker(p) \/ StartTicker(p)
      PROVE  stamp'[d] # 0
  BY <1>5, <1>6 DEF Tick, StopTicker, StartTicker
<1>7. CASE (\E u \in Users : ExpireToken(u)) \/ Reset \/ ClockAdvances
            \/ UNCHANGED vars
  BY <1>5, <1>7 DEF ExpireToken, Reset, ClockAdvances, vars
<1> QED
  BY <1>2, <1>3, <1>4, <1>6, <1>7 DEF Next, Arrive, AskAgain, Line, Trouble

-----------------------------------------------------------------------------
(* The theorems *)

(* Whatever handlers, tickers, resets and mishaps do, the state stays       *)
(* within its types and the room's invariant holds: tokens have one owner   *)
(* and stand, the line is ordered by arrival, and requests that passed the  *)
(* counter are below it.                                                    *)
THEOREM RoomSafe == Spec => []RoomInv
<1>1. RoomInv /\ [Next]_vars => RoomInv'
  BY TypeStep, TokenStep, LineStep, StampStep DEF RoomInv, TokenInv, LineInv
<1> QED
  BY RoomInit, <1>1, PTL DEF Spec

(* Every variable keeps its type; tokens and scores are numbers that the    *)
(* code has made.                                                           *)
THEOREM RoomTypeCorrect == Spec => []TypeOK
<1>1. RoomInv => TypeOK
  BY DEF RoomInv
<1> QED
  BY RoomSafe, <1>1, PTL

(* admissionToken (handler.go): all requests of a user are answered the     *)
(* token that Redis holds, for any number of concurrent handlers.           *)
THEOREM TokensAgree == Spec => []TokenAgreement
<1>1. RoomInv => TokenAgreement
  BY DEF RoomInv, TokensStand, TokenAgreement, Bearers
<1> QED
  BY RoomSafe, <1>1, PTL

(* joinIncrScript (store.go): under timestamp_incr a place is given once.   *)
THEOREM PlacesFixed == Spec => []PlacesAreFixed
<1>1. RoomInv => PlacesAreFixed
  <2> SUFFICES ASSUME RoomInv, strategy = "timestamp_incr",
                      NEW c \in Recent, position[c] # 0,
                      NEW d \in Recent, position[d] # 0
               PROVE  Caller[c] = Caller[d] <=> position[c] = position[d]
    BY DEF PlacesAreFixed
  <2>1. /\ InLine(Caller[c]) /\ position[c] = Rank(Caller[c])
        /\ InLine(Caller[d]) /\ position[d] = Rank(Caller[d])
    BY DEF RoomInv, LineInOrder
  <2>2. /\ score \in [Users -> Nat]
        /\ Caller[c] \in Users /\ Caller[d] \in Users
    BY RoomAssumption DEF RoomInv, TypeOK, Recent
  <2> QED
    BY <2>1, <2>2, RankInjective DEF InLine, Rank
<1> QED
  BY RoomSafe, <1>1, PTL

(* GetPosition and Join (store.go, join.go): under timestamp_incr no more   *)
(* users are told that they are admitted than the counter says, although    *)
(* it is read later than the rank.                                          *)
THEOREM AdmissionSafe == Spec => []AdmittedWithinCounter
<1>1. RoomInv => AdmittedWithinCounter
  <2> SUFFICES ASSUME RoomInv, strategy = "timestamp_incr"
               PROVE  Cardinality(Welcomed) <= admitted
    BY DEF AdmittedWithinCounter
  <2>1. /\ admitted \in Nat /\ score \in [Users -> Nat]
        /\ Recent \subseteq Clients /\ Caller \in [Clients -> Users]
    BY RoomAssumption DEF RoomInv, TypeOK, Recent
  <2>2. \A u \in Welcomed : u \in Users /\ InLine(u) /\ Rank(u) \in 1..admitted
    <3> SUFFICES ASSUME NEW c \in Recent, pc[c] = "admitted"
                 PROVE  /\ Caller[c] \in Users /\ InLine(Caller[c])
                        /\ Rank(Caller[c]) \in 1..admitted
      BY DEF Welcomed
    <3>1. position[c] # 0 /\ position[c] <= admitted
      BY <2>1 DEF RoomInv, PassedCounter
    <3>2. InLine(Caller[c]) /\ position[c] = Rank(Caller[c]) /\ Caller[c] \in Users
      BY <2>1, <3>1 DEF RoomInv, LineInOrder
    <3>3. Rank(Caller[c]) \in Nat \ {0}
      BY <2>1, <3>2, RankType DEF Rank
    <3> QED
      BY <2>1, <3>1, <3>2, <3>3
  <2> DEFINE rank == [u \in Welcomed |-> Rank(u)]
  <2>3. rank \in Injection(Welcomed, 1..admitted)
    <3>1. rank \in [Welcomed -> 1..admitted]
      BY <2>2
    <3>2. \A u, v \in Welcomed : rank[u] = rank[v] => u = v
      BY <2>1, <2>2, RankInjective DEF InLine, Rank
    <3> QED
      BY <3>1, <3>2 DEF Injection, IsInjective
  <2>4. IsFiniteSet(1..admitted) /\ Cardinality(1..admitted) = admitted
    BY <2>1, FS_Interval
  <2> QED
    BY <2>3, <2>4, FS_Injection
<1> QED
  BY RoomSafe, <1>1, PTL

-----------------------------------------------------------------------------
(* The refinement *)

(* A newcomer moves those it comes before by one, and nobody else. *)
LEMMA NewcomerShifts ==
    ASSUME NEW f \in [Users -> Nat], NEW g \in [Users -> Nat],
           NEW u \in Users, f[u] = 0, g[u] # 0,
           \A v \in Users : v # u => g[v] = f[v],
           NEW w \in Users, w # u, f[w] # 0
    PROVE  RankIn(g, w) = IF RankIn(f, w) >= RankIn(g, u)
                          THEN RankIn(f, w) + 1 ELSE RankIn(f, w)
<1>1. u \in Nat /\ w \in Nat
  BY RoomAssumption
<1>2. RankIn(f, w) \in Nat /\ RankIn(g, w) \in Nat /\ RankIn(g, u) \in Nat
  BY <1>1, RankType
<1>3. CASE u \in Ahead(g, w)
  <2>1. \A v \in Users : v \in Ahead(g, w) <=> v \in Ahead(f, w) \cup {u}
    BY <1>1, <1>3 DEF Ahead
  <2>2. Ahead(g, w) \subseteq Users /\ Ahead(f, w) \cup {u} \subseteq Users
    BY DEF Ahead
  <2>3. Ahead(g, w) = Ahead(f, w) \cup {u}
    BY <2>1, <2>2, Zenon
  <2>4. u \notin Ahead(f, w)
    BY DEF Ahead
  <2>5. Cardinality(Ahead(g, w)) = Cardinality(Ahead(f, w)) + 1
    <3>1. IsFiniteSet(Ahead(f, w))
      BY RankType
    <3>2. Cardinality(Ahead(f, w) \cup {u}) = Cardinality(Ahead(f, w)) + 1
      BY <2>4, <3>1, FS_AddElement
    <3> QED
      BY <2>3, <3>2, Zenon
  <2>6. RankIn(g, w) = RankIn(f, w) + 1
    BY <2>5, RankType DEF RankIn
  <2>7. RankIn(g, u) < RankIn(g, w)
    BY <1>1, <1>3, RankRises
  <2> QED
    BY <1>2, <2>6, <2>7
<1>4. CASE u \notin Ahead(g, w)
  <2>1. \A v \in Users : v \in Ahead(g, w) <=> v \in Ahead(f, w)
    BY <1>1, <1>4 DEF Ahead
  <2>2. Ahead(g, w) \subseteq Users /\ Ahead(f, w) \subseteq Users
    BY DEF Ahead
  <2>3. Ahead(g, w) = Ahead(f, w)
    BY <2>1, <2>2, Zenon
  <2>4. w \in Ahead(g, u)
    BY <1>1, <1>4 DEF Ahead
  <2>5. RankIn(g, w) < RankIn(g, u)
    BY <1>1, <2>4, RankRises
  <2> QED
    BY <1>2, <2>3, <2>5 DEF RankIn
<1> QED
  BY <1>3, <1>4

(* Places settle for good: no clock goes back, and no request is given a    *)
(* timestamp before the clocks.                                             *)
LEMMA SettledStays ==
    ASSUME RoomInv, UNCHANGED strategy, now <= now', now' \in Nat,
           \A v \in Users : InLine(v) => score'[v] = score[v],
           \A c \in Clients : pc'[c] = "insert" =>
              \/ pc[c] = "insert" /\ stamp'[c] = stamp[c]
              \/ strategy = "timestamp" => stamp'[c] \in Nat /\ stamp'[c] >= now,
           NEW u \in Users, Settled(u)
    PROVE  Settled(u)'
<1>1. score'[u] = score[u] /\ InLine(u)' /\ score[u] \in Nat /\ now \in Nat
  BY DEF Settled, InLine, RoomInv, TypeOK
<1>2. CASE strategy = "timestamp"
  <2>1. now > score[u] /\ now' > score[u]
    BY <1>1, <1>2 DEF Settled
  <2>2. ASSUME NEW c \in Clients, pc'[c] = "insert"
        PROVE  stamp'[c] > score[u]
    BY <1>1, <1>2, <2>1, <2>2 DEF Settled
  <2> QED
    BY <1>1, <2>1, <2>2 DEF Settled
<1>3. CASE strategy # "timestamp"
  BY <1>1, <1>3 DEF Settled
<1> QED
  BY <1>2, <1>3

(* The script lets a user enter behind all users that have settled. *)
LEMMA ScriptEnters ==
    ASSUME RoomInv, NEW c \in Clients, pc[c] = "insert", RunScript(c),
           ~InLine(Caller[c])
    PROVE  \E k \in 1..(Cardinality(LobbyPromise!InLine) + 1) :
              LobbyPromise!Enter(Caller[c], k)
<1> DEFINE u == Caller[c]
           s == IF strategy = "timestamp_incr" THEN seq' ELSE stamp[c]
           k == RankIn(score', u)
<1>1. /\ u \in Users /\ score \in [Users -> Nat] /\ seq \in Nat /\ stamp[c] \in Nat
      /\ strategy \in KnownStrategies /\ now \in Nat
  BY RoomAssumption DEF RoomInv, TypeOK
<1>2. s \in Nat \ {0}
  BY <1>1 DEF RunScript, RoomInv, StampsRead, KnownStrategies
<1>3. /\ score' = [score EXCEPT ![u] = s] /\ score[u] = 0
      /\ score' \in [Users -> Nat] /\ score'[u] # 0
      /\ \A v \in Users : v # u => score'[v] = score[v]
  BY <1>1, <1>2 DEF RunScript, Added, InLine
<1>4. u \in Nat /\ \A v \in Users : v \in Nat
  BY <1>1, RoomAssumption
<1>5. ASSUME NEW v \in Users, v # u, score[v] # 0
      PROVE  RankIn(score', v) = IF RankIn(score, v) >= k
                                 THEN RankIn(score, v) + 1 ELSE RankIn(score, v)
  <2> HIDE DEF u, s
  <2>1. /\ score \in [Users -> Nat] /\ score' \in [Users -> Nat] /\ u \in Users
        /\ score[u] = 0 /\ score'[u] # 0
        /\ \A w \in Users : w # u => score'[w] = score[w]
    BY <1>1, <1>3
  <2>2. v \in Users /\ v # u /\ score[v] # 0
    BY <1>5
  <2> QED
    BY <2>1, <2>2, NewcomerShifts
<1>6. k \in 1..(Cardinality(LobbyPromise!InLine) + 1)
  <2>1. Ahead(score', u) \subseteq LobbyPromise!InLine
    <3> SUFFICES ASSUME NEW v \in Ahead(score', u)
                 PROVE  v \in LobbyPromise!InLine
      OBVIOUS
    <3>1. v \in Users /\ v # u /\ score[v] # 0
      BY <1>3, <1>4 DEF Ahead
    <3>2. Rank(v) \in Nat \ {0}
      BY <1>1, <3>1, RankType DEF Rank
    <3> QED
      BY <3>1, <3>2 DEF LobbyPromise!InLine, InLine
  <2>2. LobbyPromise!InLine \subseteq Users
    BY DEF LobbyPromise!InLine
  <2>3. IsFiniteSet(LobbyPromise!InLine)
    BY <2>2, FS_Subset, RoomAssumption
  <2>4. /\ Cardinality(Ahead(score', u)) <= Cardinality(LobbyPromise!InLine)
        /\ Cardinality(LobbyPromise!InLine) \in Nat
    BY <2>1, <2>3, FS_Subset, FS_CardinalityType
  <2>5. Cardinality(Ahead(score', u)) \in Nat
    BY <1>1, <1>3, RankType
  <2> QED
    BY <2>4, <2>5 DEF RankIn
<1>7. u \notin LobbyPromise!InLine
  BY <1>3 DEF LobbyPromise!InLine, InLine
<1>8. ASSUME NEW v \in Users, Settled(v)
      PROVE  Rank(v) < k
  <2>1. score[v] # 0 /\ v # u /\ score'[v] = score[v]
    BY <1>3, <1>8 DEF Settled, InLine
  <2>2. score[v] < s
    <3>1. CASE strategy = "timestamp"
      BY <1>8, <3>1 DEF Settled
    <3>2. CASE strategy = "timestamp_incr"
      BY <1>1, <3>2 DEF RoomInv, LineInOrder, RunScript
    <3> QED
      BY <1>1, <3>1, <3>2 DEF KnownStrategies
  <2>3. v \in Ahead(score', u) /\ u \notin Ahead(score', v)
    BY <1>1, <1>2, <1>3, <1>4, <2>1, <2>2 DEF Ahead
  <2>4. RankIn(score', v) < k
    BY <1>1, <1>3, <2>3, RankRises
  <2>5. RankIn(score', v) = IF RankIn(score, v) >= k
                            THEN RankIn(score, v) + 1 ELSE RankIn(score, v)
    BY <1>5, <2>1
  <2>6. RankIn(score', v) \in Nat /\ RankIn(score, v) \in Nat /\ k \in Nat
    BY <1>1, <1>3, RankType
  <2> QED
    BY <2>4, <2>5, <2>6 DEF Rank
<1>9. ASSUME NEW v \in Users
      PROVE  (IF InLine(v) THEN Rank(v) ELSE 0)' =
                IF v = u THEN k
                ELSE IF (IF InLine(v) THEN Rank(v) ELSE 0) >= k
                     THEN (IF InLine(v) THEN Rank(v) ELSE 0) + 1
                     ELSE (IF InLine(v) THEN Rank(v) ELSE 0)
  <2>1. CASE v = u
    BY <1>3, <2>1 DEF InLine, Rank
  <2>2. CASE v # u /\ score[v] # 0
    BY <1>3, <1>5, <2>2 DEF InLine, Rank
  <2>3. CASE v # u /\ score[v] = 0
    <3>1. ~(0 >= k)
      BY <1>6
    <3> QED
      BY <1>3, <2>3, <3>1 DEF InLine
  <2> QED
    BY <2>1, <2>2, <2>3
<1>10. UNCHANGED admitted
  BY DEF RunScript
<1> QED
  BY <1>6, <1>7, <1>8, <1>9, <1>10 DEF LobbyPromise!Enter

(* What the lobby sees of a step that does not empty the line. *)
LEMMA PlacesSettle ==
    ASSUME RoomInv, TypeOK', UNCHANGED strategy, now <= now',
           \A v \in Users : InLine(v) => score'[v] = score[v],
           \A c \in Clients : pc'[c] = "insert" =>
              \/ pc[c] = "insert" /\ stamp'[c] = stamp[c]
              \/ strategy = "timestamp" => stamp'[c] \in Nat /\ stamp'[c] >= now
    PROVE  LobbyPromise!Settle
<1>1. now' \in Nat /\ score' \in [Users -> Nat]
  BY DEF TypeOK
<1>2. \A u \in Users : Settled(u) => Settled(u)'
  BY <1>1, SettledStays
<1>3. \A u \in Users : Settled(u)' => InLine(u)' /\ Rank(u)' # 0
  BY <1>1, RankType DEF Settled, Rank
<1> QED
  BY <1>2, <1>3 DEF LobbyPromise!Settle

LEMMA LobbyStays ==
    ASSUME RoomInv, TypeOK', UNCHANGED <<score, admitted, strategy>>, now <= now',
           \A c \in Clients : pc'[c] = "insert" =>
              \/ pc[c] = "insert" /\ stamp'[c] = stamp[c]
              \/ strategy = "timestamp" => stamp'[c] \in Nat /\ stamp'[c] >= now
    PROVE  LobbyPromise!Next
<1>1. LobbyPromise!Settle
  BY PlacesSettle
<1>2. LobbyPromise!Stay
  BY DEF LobbyPromise!Stay, InLine, Rank, RankIn, Ahead
<1> QED
  BY <1>1, <1>2 DEF LobbyPromise!Next

(* The lobby counts as the room does. *)
LEMMA LobbyCounts ==
    ASSUME NEW S
    PROVE  LobbyPromise!Cardinality(S) = Cardinality(S)
BY DEF LobbyPromise!Cardinality, Cardinality

(* Insert and its lost reply: the user enters, or was in line already.      *)
LEMMA LobbyGrows ==
    ASSUME RoomInv, TypeOK', NEW c \in Clients, pc[c] = "insert", RunScript(c),
           UNCHANGED <<strategy, now>>,
           \A d \in Clients : pc'[d] = "insert" =>
              pc[d] = "insert" /\ stamp'[d] = stamp[d]
    PROVE  LobbyPromise!Next
<1> DEFINE u == Caller[c]
<1>0. u \in Users /\ now \in Nat /\ score \in [Users -> Nat]
  BY RoomAssumption DEF RoomInv, TypeOK
<1>1. CASE InLine(u)
  <2>1. UNCHANGED <<score, admitted>>
    BY <1>1 DEF RunScript, Added
  <2> QED
    BY <1>0, <2>1, LobbyStays
<1>2. CASE ~InLine(u)
  <2>1. \A v \in Users : InLine(v) => score'[v] = score[v]
    BY <1>0, <1>2 DEF RunScript, Added, InLine
  <2>2. LobbyPromise!Settle
    BY <1>0, <2>1, PlacesSettle
  <2>3. PICK k \in 1..(Cardinality(LobbyPromise!InLine) + 1) :
           LobbyPromise!Enter(u, k)
    BY <1>2, ScriptEnters
  <2> QED
    BY <1>0, <2>2, <2>3, LobbyCounts, Zenon DEF LobbyPromise!Next
<1> QED
  BY <1>1, <1>2

(* Store, handlers and tickers implement the lobby: under timestamp_incr    *)
(* nobody is ever overtaken, under timestamp nobody whose score every clock *)
(* has passed; only a reset clears the line, and the counter goes one by    *)
(* one.                                                                     *)
THEOREM LobbyImplemented == Spec => ImplementsLobby
<1>1. Init => LobbyPromise!Init
  BY DEF Init, LobbyPromise!Init, InLine, Settled
<1>2. RoomInv /\ RoomInv' /\ [Next]_vars => [LobbyPromise!Next]_(LobbyPromise!vars)
  <2> SUFFICES ASSUME RoomInv, RoomInv', [Next]_vars
               PROVE  LobbyPromise!Next \/ UNCHANGED LobbyPromise!vars
    BY DEF LobbyPromise!vars
  <2>0. /\ TypeOK' /\ now \in Nat /\ admitted \in Nat
        /\ pc \in [Clients -> Labels \cup Refusals \cup {"idle", "admitted"}]
        /\ stamp \in [Clients -> Nat] /\ MaxSkew \in Nat
    BY RoomAssumption DEF RoomInv, TypeOK
  <2> DEFINE Older == \A d \in Clients : pc'[d] = "insert" =>
                         pc[d] = "insert" /\ stamp'[d] = stamp[d]
  <2> USE <2>0 DEF redis, handlers, world, history
  <2>1. ASSUME UNCHANGED <<score, admitted, strategy>>, now <= now', Older
        PROVE  LobbyPromise!Next
    BY <2>1, LobbyStays
  <2>2. ASSUME NEW c \in Clients, NEW l, GoTo(c, l), l # "insert",
               stamp' = stamp \/ stamp' = [stamp EXCEPT ![c] = 0]
        PROVE  Older
    BY <2>2 DEF GoTo
  <2>3. ASSUME NEW c \in Clients,
               Ask(c) \/ QueryRank(c) \/ QueryAdmitted(c) \/ CallFails(c)
        PROVE  LobbyPromise!Next
    <3>1. Older
      BY <2>2, <2>3 DEF Ask, QueryRank, QueryAdmitted, CallFails, AnswerError
    <3>2. UNCHANGED <<score, admitted, strategy, now>>
      BY <2>3 DEF Ask, QueryRank, QueryAdmitted, CallFails
    <3> QED
      BY <2>1, <3>1, <3>2
  <2>4. ASSUME NEW c \in Clients, GetToken(c) \/ IssueToken(c) \/ ConfirmToken(c)
        PROVE  LobbyPromise!Next
    <3>1. Older
      BY <2>2, <2>4 DEF GetToken, IssueToken, ConfirmToken, AnswerToken
    <3>2. UNCHANGED <<score, admitted, strategy, now>>
      BY <2>4 DEF GetToken, IssueToken, ConfirmToken, SetToken
    <3> QED
      BY <2>1, <3>1, <3>2
  <2>5. ASSUME NEW c \in Clients, Lookup(c)
        PROVE  LobbyPromise!Next
    <3>1. \A d \in Clients : pc'[d] = "insert" =>
             \/ pc[d] = "insert" /\ stamp'[d] = stamp[d]
             \/ strategy = "timestamp" => stamp'[d] \in Nat /\ stamp'[d] >= now
      BY <2>5 DEF Lookup, GoTo
    <3>2. UNCHANGED <<score, admitted, strategy, now>>
      BY <2>5 DEF Lookup
    <3> QED
      BY <3>1, <3>2, LobbyStays
  <2>6. ASSUME NEW c \in Clients, Insert(c)
        PROVE  LobbyPromise!Next
    <3>1. Older
      BY <2>2, <2>6 DEF Insert
    <3> QED
      BY <2>6, <3>1, LobbyGrows DEF Insert
  <2>7. ASSUME NEW c \in Clients, ReplyLost(c)
        PROVE  LobbyPromise!Next
    <3>1. Older
      <4>1. CASE AnswerError(c)
        BY <2>2, <4>1 DEF AnswerError
      <4> QED
        BY <2>7, <4>1 DEF ReplyLost
    <3>2. UNCHANGED <<strategy, now>>
      BY <2>7 DEF ReplyLost
    <3>3. CASE pc[c] = "insert" /\ RunScript(c)
      BY <3>1, <3>2, <3>3, LobbyGrows
    <3>4. CASE SetToken(c)
      BY <2>1, <3>1, <3>2, <3>4 DEF SetToken
    <3> QED
      BY <2>7, <3>3, <3>4 DEF ReplyLost
  <2>8. ASSUME NEW p \in Replicas, Tick(p)
        PROVE  LobbyPromise!Next
    <3>1. admitted' = admitted + 1 /\ UNCHANGED <<score, strategy, now, pc, stamp>>
      BY <2>8 DEF Tick
    <3>2. LobbyPromise!Admit
      BY <3>1 DEF LobbyPromise!Admit, InLine, Rank, RankIn, Ahead, Settled
    <3> QED
      BY <3>2 DEF LobbyPromise!Next
  <2>9. CASE Reset
    <3>1. LobbyPromise!Clear
      BY <2>9 DEF Reset, LobbyPromise!Clear, InLine, Settled
    <3> QED
      BY <3>1 DEF LobbyPromise!Next
  <2>10. CASE \/ \E p \in Replicas : StopTicker(p) \/ StartTicker(p)
              \/ \E u \in Users : ExpireToken(u)
              \/ ClockAdvances
              \/ UNCHANGED vars
    <3>1. /\ UNCHANGED <<score, admitted, strategy, pc, stamp>>
          /\ now' = now \/ now' = now + 1
      BY <2>10 DEF StopTicker, StartTicker, ExpireToken, ClockAdvances, vars
    <3> QED
      BY <2>1, <3>1
  <2> QED
    BY <2>3, <2>4, <2>5, <2>6, <2>7, <2>8, <2>9, <2>10
       DEF Next, Arrive, AskAgain, Line, Admission, Trouble
<1> QED
  BY RoomSafe, <1>1, <1>2, PTL DEF Spec, ImplementsLobby, LobbyPromise!Spec
=============================================================================
