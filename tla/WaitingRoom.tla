---------------------------- MODULE WaitingRoom -----------------------------
(***************************************************************************)
(* The waiting-room service (src/services/waiting-room): replicas of an    *)
(* HTTP server that keep one line of users in a Redis sorted set, raise    *)
(* the number of admitted users with one ticker per replica, and hand      *)
(* every admitted user a token.                                            *)
(*                                                                         *)
(* One action is one Redis command (or script) of a handler together with  *)
(* the code that runs on its reply.  The handlers of all replicas share    *)
(* nothing but Redis, so a request needs no replica; the tickers do.  A    *)
(* client sends one request after another until it is admitted.  Requests  *)
(* that change nothing (no user id, the health check) and ZCARD in Join,   *)
(* which only feeds a metric, are left out.                                *)
(***************************************************************************)
EXTENDS Naturals, FiniteSets

CONSTANTS
    Users,        \* user ids, ordered as Redis orders members of equal score
    Clients,      \* clients, each of which asks for one user
    Caller,       \* the user of each client
    Pollers,      \* clients that poll and never join
    Replicas,     \* waiting-room tasks
    Strategies,   \* values of QUEUE_STRATEGY to consider
    MaxAdmitted,  \* bound on the admitted counter
    MaxClock,     \* bound on the clock
    MaxSkew,      \* how far a replica's clock may be ahead of the slowest
    Mishaps,      \* which of MishapKinds the environment has in store
    MaxMishaps    \* bound on their number

KnownStrategies == {"timestamp", "timestamp_incr"}

(* refused: a Redis command fails without an effect.  lost_reply: it takes  *)
(* effect and its reply is lost.  (A handler whose task dies is one of the  *)
(* two.)  stop: a task's ticker stops.  expiry: a token reaches its TTL.    *)
(* reset: POST /queue/reset is called.                                      *)
MishapKinds == {"refused", "lost_reply", "stop", "expiry", "reset"}

ASSUME RoomAssumption ==
    /\ Users \subseteq Nat
    /\ IsFiniteSet(Users)
    /\ Caller \in [Clients -> Users]
    /\ Pollers \subseteq Clients
    /\ Strategies \subseteq KnownStrategies
    /\ MaxAdmitted \in Nat
    /\ MaxClock \in Nat \ {0}
    /\ MaxSkew \in Nat
    /\ Mishaps \subseteq MishapKinds
    /\ MaxMishaps \in Nat

VARIABLES
    score,     \* the sorted set queue:<item>; 0 for users that are not in it
    seq,       \* seq:<item>
    admitted,  \* admitted:<item>
    token,     \* token:<user>; tokens are 1, 2, ..., and 0 is none
    now,       \* the slowest of the replicas' clocks, in milliseconds
    strategy,  \* QUEUE_STRATEGY
    ticking,   \* replicas whose admission ticker runs
    pc,        \* next round trip of each client's request, or its answer
    stamp,     \* the timestamp that the script of a join will use
    position,  \* the position a request has learnt (0: none)
    holds,     \* the token a request has made or is answered
    made,      \* how many tokens were made
    mishaps,   \* how many mishaps there have been
    \* history variables
    old,       \* clients whose request began before the last reset
    issued,    \* tokens that were stored
    lapsed     \* users who had a token that expired

redis    == <<score, seq, admitted, token>>
handlers == <<pc, stamp, position, holds, made>>
world    == <<now, strategy, ticking>>
history  == <<old, issued, lapsed>>
vars     == <<redis, handlers, world, history, mishaps>>

Labels  == {"lookup", "insert", "rank", "count", "token", "issue", "confirm"}
Refusals == {"waiting", "absent", "error"}

TypeOK ==
    /\ score \in [Users -> Nat]
    /\ seq \in Nat
    /\ admitted \in 0..MaxAdmitted
    /\ token \in [Users -> Nat]
    /\ now \in 1..MaxClock
    /\ strategy \in Strategies
    /\ ticking \subseteq Replicas
    /\ pc \in [Clients -> Labels \cup Refusals \cup {"idle", "admitted"}]
    /\ stamp \in [Clients -> Nat]
    /\ position \in [Clients -> Nat]
    /\ holds \in [Clients -> Nat]
    /\ made \in Nat
    /\ mishaps \in 0..MaxMishaps
    /\ old \subseteq Clients
    /\ issued \subseteq 1..made
    /\ lapsed \subseteq Users

Init ==
    /\ score = [u \in Users |-> 0]
    /\ seq = 0
    /\ admitted = 0
    /\ token = [u \in Users |-> 0]
    /\ now = 1
    /\ strategy \in Strategies
    /\ ticking = Replicas
    /\ pc = [c \in Clients |-> "idle"]
    /\ stamp = [c \in Clients |-> 0]
    /\ position = [c \in Clients |-> 0]
    /\ holds = [c \in Clients |-> 0]
    /\ made = 0
    /\ mishaps = 0
    /\ old = {}
    /\ issued = {}
    /\ lapsed = {}

-----------------------------------------------------------------------------
(* The sorted set: members by score, those of equal score by their name. *)

InLine(u) == score[u] # 0

Ahead(f, u) ==
    {v \in Users : f[v] # 0 /\ (f[v] < f[u] \/ (f[v] = f[u] /\ v < u))}

(* ZRANK, counted from 1 as the handlers do. *)
RankIn(f, u) == Cardinality(Ahead(f, u)) + 1
Rank(u) == RankIn(score, u)

(* Mutant: ZADD without NX. *)
Rescored(u, s) == [score EXCEPT ![u] = s]

(* ZADD NX. *)
Added(u, s) == IF InLine(u) THEN score ELSE [score EXCEPT ![u] = s]

-----------------------------------------------------------------------------
(* Handler bookkeeping *)

Strikes(kind) ==
    /\ kind \in Mishaps
    /\ mishaps < MaxMishaps
    /\ mishaps' = mishaps + 1

Either(fine, kind) == (fine /\ UNCHANGED mishaps) \/ Strikes(kind)

GoTo(c, label) == pc' = [pc EXCEPT ![c] = label]

(* "error" stands for every answer that tells nothing, or none at all. *)
AnswerError(c) ==
    /\ GoTo(c, "error")
    /\ stamp' = [stamp EXCEPT ![c] = 0]
    /\ position' = [position EXCEPT ![c] = 0]
    /\ holds' = [holds EXCEPT ![c] = 0]
    /\ UNCHANGED made

AnswerToken(c, t) ==
    /\ GoTo(c, "admitted")
    /\ holds' = [holds EXCEPT ![c] = t]
    /\ UNCHANGED <<stamp, position, made>>

-----------------------------------------------------------------------------
(* POST /queue/join and GET /queue/position *)

(* A client joins or polls; one that was not admitted asks again. *)
Ask(c) ==
    /\ GoTo(c, "rank") \/ (c \notin Pollers /\ GoTo(c, "lookup"))
    /\ stamp' = [stamp EXCEPT ![c] = 0]
    /\ position' = [position EXCEPT ![c] = 0]
    /\ holds' = [holds EXCEPT ![c] = 0]
    /\ old' = old \ {c}
    /\ UNCHANGED <<redis, made, world, issued, lapsed, mishaps>>

Arrive(c)   == pc[c] = "idle" /\ Ask(c)
AskAgain(c) == pc[c] \in Refusals /\ Ask(c)

(* ZRANK: any error, not only a missing member, leads to the script, for    *)
(* which a timestamp is read from the replica's clock.                      *)
Lookup(c) ==
    /\ pc[c] = "lookup"
    /\ \/ /\ InLine(Caller[c])
          /\ position' = [position EXCEPT ![c] = Rank(Caller[c])]
          /\ GoTo(c, "rank")
          /\ UNCHANGED <<stamp, mishaps>>
       \/ /\ Either(~InLine(Caller[c]), "refused")
          /\ \E t \in now..(now + MaxSkew) :
                stamp' = [stamp EXCEPT ![c] =
                            IF strategy = "timestamp" THEN t ELSE 0]
          /\ GoTo(c, "insert")
          /\ UNCHANGED position
    /\ UNCHANGED <<redis, holds, made, world, history>>

(* The effect of joinIncrScript and of joinTimestampScript. *)
RunScript(c) ==
    /\ seq' = IF strategy = "timestamp_incr" THEN seq + 1 ELSE seq
    /\ score' = Added(Caller[c],
                      IF strategy = "timestamp_incr" THEN seq' ELSE stamp[c])
    /\ UNCHANGED <<admitted, token, history>>

(* Mutant: the size of the line is taken for the place in it. *)
InsertAndCount(c) ==
    /\ pc[c] = "insert"
    /\ RunScript(c)
    /\ position' = [position EXCEPT ![c] =
                       Cardinality({u \in Users : score'[u] # 0})]
    /\ stamp' = [stamp EXCEPT ![c] = 0]
    /\ GoTo(c, "rank")
    /\ UNCHANGED <<holds, made, world, mishaps>>

Insert(c) ==
    /\ pc[c] = "insert"
    /\ RunScript(c)
    /\ position' = [position EXCEPT ![c] = RankIn(score', Caller[c])]
    /\ stamp' = [stamp EXCEPT ![c] = 0]
    /\ GoTo(c, "rank")
    /\ UNCHANGED <<holds, made, world, mishaps>>

(* A join comes to GetPosition with the position of Store.Join and keeps it. *)
Joined(c) == position[c] # 0

(* ZRANK of GetPosition.  Join takes a missing member for an admitted count *)
(* of zero.                                                                 *)
QueryRank(c) ==
    /\ pc[c] = "rank"
    /\ \/ /\ InLine(Caller[c])
          /\ position' = IF Joined(c) THEN position
                         ELSE [position EXCEPT ![c] = Rank(Caller[c])]
          /\ GoTo(c, "count")
       \/ /\ ~InLine(Caller[c])
          /\ GoTo(c, IF Joined(c) THEN "waiting" ELSE "absent")
          /\ UNCHANGED position
    /\ UNCHANGED <<redis, stamp, holds, made, world, history, mishaps>>

(* Mutants: a rank from 0 is compared; the place must be below the counter. *)
AdmitByRank(c) ==
    /\ pc[c] = "count"
    /\ GoTo(c, IF position[c] <= admitted + 1 THEN "token" ELSE "waiting")
    /\ UNCHANGED <<redis, stamp, position, holds, made, world, history, mishaps>>

AdmitBelow(c) ==
    /\ pc[c] = "count"
    /\ GoTo(c, IF position[c] < admitted THEN "token" ELSE "waiting")
    /\ UNCHANGED <<redis, stamp, position, holds, made, world, history, mishaps>>

(* GET of the admitted counter, in a round trip of its own. *)
QueryAdmitted(c) ==
    /\ pc[c] = "count"
    /\ GoTo(c, IF position[c] <= admitted THEN "token" ELSE "waiting")
    /\ UNCHANGED <<redis, stamp, position, holds, made, world, history, mishaps>>

(* admissionToken: GET, then SETNX of a new token, then GET again.  An      *)
(* error of the first GET is taken for "no token yet".                      *)
GetToken(c) ==
    /\ pc[c] = "token"
    /\ \/ /\ token[Caller[c]] # 0
          /\ AnswerToken(c, token[Caller[c]])
          /\ UNCHANGED mishaps
       \/ /\ Either(token[Caller[c]] = 0, "refused")
          /\ GoTo(c, "issue")
          /\ made' = made + 1
          /\ holds' = [holds EXCEPT ![c] = made']
          /\ UNCHANGED <<stamp, position>>
    /\ UNCHANGED <<redis, world, history>>

(* Mutant: SET in place of SETNX. *)
OverwriteToken(c) ==
    /\ token' = [token EXCEPT ![Caller[c]] = holds[c]]
    /\ issued' = issued \cup {holds[c]}
    /\ UNCHANGED <<score, seq, admitted, old, lapsed>>

(* SETNX with the token's TTL. *)
SetToken(c) ==
    /\ IF token[Caller[c]] = 0
       THEN /\ token' = [token EXCEPT ![Caller[c]] = holds[c]]
            /\ issued' = issued \cup {holds[c]}
       ELSE UNCHANGED <<token, issued>>
    /\ UNCHANGED <<score, seq, admitted, old, lapsed>>

IssueToken(c) ==
    /\ pc[c] = "issue"
    /\ SetToken(c)
    /\ GoTo(c, "confirm")
    /\ UNCHANGED <<stamp, position, holds, made, world, mishaps>>

(* Whoever cannot read back the stored token answers the one it made. *)
ConfirmToken(c) ==
    /\ pc[c] = "confirm"
    /\ \/ /\ token[Caller[c]] # 0
          /\ AnswerToken(c, token[Caller[c]])
          /\ UNCHANGED mishaps
       \/ /\ Either(token[Caller[c]] = 0, "refused")
          /\ AnswerToken(c, holds[c])
    /\ UNCHANGED <<redis, world, history>>

CallFails(c) ==
    /\ pc[c] \in {"insert", "rank", "count", "issue"}
    /\ Strikes("refused")
    /\ AnswerError(c)
    /\ UNCHANGED <<redis, world, history>>

(* The handler answers an error, or the Redis client sends the command a    *)
(* second time.                                                             *)
ReplyLost(c) ==
    /\ \/ pc[c] = "insert" /\ RunScript(c)
       \/ pc[c] = "issue" /\ SetToken(c)
    /\ Strikes("lost_reply")
    /\ AnswerError(c) \/ UNCHANGED handlers
    /\ UNCHANGED world

-----------------------------------------------------------------------------
(* Tickers, reset, time *)

(* Mutant: a tick releases the users of a second, at the default rate. *)
TickBySecond(p) ==
    /\ p \in ticking
    /\ admitted < MaxAdmitted
    /\ admitted' = admitted + 10
    /\ UNCHANGED <<score, seq, token, handlers, world, history, mishaps>>

(* INCRBY 1.  A failed one is only logged, and one sent twice is two. *)
Tick(p) ==
    /\ p \in ticking
    /\ admitted < MaxAdmitted
    /\ admitted' = admitted + 1
    /\ UNCHANGED <<score, seq, token, handlers, world, history, mishaps>>

(* The context that a signal cancels is the ticker's only: the HTTP server  *)
(* goes on serving until the task is killed and another takes its place.    *)
StopTicker(p) ==
    /\ p \in ticking
    /\ Strikes("stop")
    /\ ticking' = ticking \ {p}
    /\ UNCHANGED <<redis, handlers, now, strategy, history>>

StartTicker(p) ==
    /\ p \notin ticking
    /\ ticking' = ticking \cup {p}
    /\ UNCHANGED <<redis, handlers, now, strategy, history, mishaps>>

(* DEL of queue, counter and sequence; the tokens stay. *)
Reset ==
    /\ Strikes("reset")
    /\ score' = [u \in Users |-> 0]
    /\ seq' = 0
    /\ admitted' = 0
    /\ old' = {c \in Clients : pc[c] # "idle"}
    /\ UNCHANGED <<token, handlers, world, issued, lapsed>>

ExpireToken(u) ==
    /\ token[u] # 0
    /\ Strikes("expiry")
    /\ token' = [token EXCEPT ![u] = 0]
    /\ lapsed' = lapsed \cup {u}
    /\ UNCHANGED <<score, seq, admitted, handlers, world, old, issued>>

(* Only the timestamp strategy reads the clock. *)
ClockAdvances ==
    /\ strategy = "timestamp"
    /\ now < MaxClock
    /\ now' = now + 1
    /\ UNCHANGED <<redis, handlers, strategy, ticking, history, mishaps>>

-----------------------------------------------------------------------------

Line(c)      == Lookup(c) \/ Insert(c) \/ QueryRank(c) \/ QueryAdmitted(c)
Admission(c) == GetToken(c) \/ IssueToken(c) \/ ConfirmToken(c)
Trouble(c)   == CallFails(c) \/ ReplyLost(c)

Next ==
    \/ \E c \in Clients :
          Arrive(c) \/ AskAgain(c) \/ Line(c) \/ Admission(c) \/ Trouble(c)
    \/ \E p \in Replicas : Tick(p) \/ StopTicker(p) \/ StartTicker(p)
    \/ \E u \in Users : ExpireToken(u)
    \/ Reset
    \/ ClockAdvances

Spec == Init /\ [][Next]_vars

(* Clients ask until they are admitted (tests/exp3-admission/main.go), a    *)
(* handler is a goroutine whose round trips end, a stopped task is replaced *)
(* and a running ticker ticks.                                              *)
Fairness ==
    /\ \A c \in Clients : WF_vars(AskAgain(c)) /\ WF_vars(Line(c) \/ Admission(c))
    /\ \A p \in Replicas : WF_vars(StartTicker(p)) /\ WF_vars(Tick(p))

FairSpec == Spec /\ Fairness

-----------------------------------------------------------------------------
(* Properties *)

Recent == Clients \ old

(* Under timestamp_incr a place is given once: whatever the same user is    *)
(* told by joins and polls, of any replica, is one position, and no other   *)
(* user is ever told it ("Strategy B eliminates queue collisions").  Only a *)
(* reset starts a new line.                                                 *)
PlacesAreFixed ==
    strategy = "timestamp_incr" =>
       \A c, d \in {e \in Recent : position[e] # 0} :
          Caller[c] = Caller[d] <=> position[c] = position[d]

(* Under timestamp_incr no more users are told that they are admitted than  *)
(* the tickers have released, however stale the ranks were that handlers    *)
(* compared with the counter.  (Under timestamp two users can be told one   *)
(* position, and both are admitted for it.)                                 *)
Welcomed == {Caller[c] : c \in {e \in Recent : pc[e] = "admitted"}}

AdmittedWithinCounter ==
    strategy = "timestamp_incr" => Cardinality(Welcomed) <= admitted

(* All requests of a user are told the token that the API will find in      *)
(* Redis, whichever of two handlers won the SETNX.  Excused are tokens that *)
(* reached their TTL and handlers that could not read back what is stored.  *)
TokenAgreement ==
    \A c \in Clients :
       /\ pc[c] = "admitted"
       /\ holds[c] \in issued
       /\ Caller[c] \notin lapsed
       => token[Caller[c]] = holds[c]

(* A place has settled when no request can still be given a place before    *)
(* it: at once under timestamp_incr; under timestamp when every clock is    *)
(* past its score and so is every timestamp under way.                      *)
Settled(u) ==
    /\ InLine(u)
    /\ strategy = "timestamp" =>
          /\ now > score[u]
          /\ \A c \in Clients : pc[c] = "insert" => stamp[c] > score[u]

(* Under both strategies the replicas implement a lobby in which nobody is  *)
(* overtaken whose place has settled.                                       *)
LobbyPromise == INSTANCE Lobby WITH
    place    <- [u \in Users |-> IF InLine(u) THEN Rank(u) ELSE 0],
    settled  <- {u \in Users : Settled(u)},
    admitted <- admitted

ImplementsLobby == LobbyPromise!Spec

(* A client that keeps asking for a user in line is admitted, whoever is    *)
(* put before the user, whichever commands fail or tickers stop on the way  *)
(* (MaxMishaps in all), unless a reset takes the user out of the line.      *)
ClientsGetIn ==
    \A c \in Clients :
       pc[c] # "idle" /\ InLine(Caller[c])
          ~> pc[c] = "admitted" \/ ~InLine(Caller[c])
-----------------------------------------------------------------------------
(* Why: the parts of an inductive invariant.                                *)

(* A token is made before it is stored, and stored before it is read.       *)
Bearers == {c \in Clients : pc[c] \in {"issue", "confirm", "admitted"}}

TokensMade ==
    /\ \A c \in Bearers : holds[c] \in 1..made
    /\ \A u \in Users : token[u] \in issued \cup {0}

(* A token belongs to one user, wherever it is.                             *)
OneOwner ==
    /\ \A c, d \in Bearers : holds[c] = holds[d] => Caller[c] = Caller[d]
    /\ \A c \in Bearers : \A u \in Users : token[u] = holds[c] => Caller[c] = u
    /\ \A u, v \in Users : token[u] # 0 /\ token[u] = token[v] => u = v

(* A stored token stands until its TTL: SETNX replaces none, and whoever    *)
(* holds one that was stored has what is stored.                            *)
TokensStand ==
    \A c \in Bearers :
       holds[c] \in issued /\ Caller[c] \notin lapsed
          => token[Caller[c]] = holds[c]

(* Under timestamp_incr newcomers go to the end of the line, so a position  *)
(* that was learnt stays the user's rank.                                   *)
LineInOrder ==
    strategy = "timestamp_incr" =>
       /\ \A u \in Users : score[u] <= seq
       /\ \A u, v \in Users : InLine(u) /\ score[u] = score[v] => u = v
       /\ \A c \in Recent : position[c] # 0 =>
             InLine(Caller[c]) /\ position[c] = Rank(Caller[c])

(* A request passes the counter with its position below it; the counter     *)
(* only grows until a reset.                                                *)
PassedCounter ==
    /\ \A c \in Clients : pc[c] = "idle" => position[c] = 0
    /\ \A c \in Clients :
          pc[c] \in {"count", "token"} \cup {"issue", "confirm", "admitted"}
             => position[c] # 0
    /\ \A c \in Recent :
          pc[c] \in {"token", "issue", "confirm", "admitted"}
             => position[c] <= admitted

(* The script is given a timestamp that was read from a clock.              *)
StampsRead ==
    strategy = "timestamp" =>
       \A c \in Clients : pc[c] = "insert" => stamp[c] # 0

RoomInv ==
    /\ TypeOK
    /\ StampsRead
    /\ TokensMade
    /\ OneOwner
    /\ TokensStand
    /\ LineInOrder
    /\ PassedCounter
=============================================================================
