-------------------------- MODULE SqlService_proofs --------------------------
(***************************************************************************)
(* Pools follow the settings of their connection, their clients wait clean *)
(* and a failed request writes nothing, for any number of requests,        *)
(* backends, databases and administrators.                                 *)
(***************************************************************************)
EXTENDS SqlService, TLAPS

(* Who waits for a client or holds one: nobody else does, and the client is a
   client of a pool. *)
Owned ==
  /\ \A r \in Requests : stage[r] \in {"opening", "holding"} <=> holds[r] # NoBackend
  /\ \A r, q \in Requests : holds[r] = holds[q] /\ holds[r] # NoBackend => r = q
  /\ \A r \in Requests : holds[r] # NoBackend => homes[holds[r]] # 0
  /\ 0 \notin mapped

(* A request is at a statement while it holds its client. *)
Working == Pcs \ {"idle", "done"}

Paced ==
  \A r \in Requests :
    /\ stage[r] = "holding" <=> pc[r] \in Working
    /\ stage[r] = "done" <=> pc[r] = "done"

(* The client c as it was made. *)
Clean(c) == tx[c] = "none" /\ ~limit[c]

(* What the statement a request is at says of its client. *)
Proper(r) ==
  LET c == holds[r]
  IN  /\ pc[r] = "limit" => Clean(c) /\ Kind(r) # "edit"
      /\ pc[r] = "begin" => tx[c] = "none" /\ (Kind(r) = "edit" <=> ~limit[c])
                            /\ (Kind(r) = "edit" \/ (ReadOnly(r) /\ Kind(r) # "script"))
      /\ pc[r] = "query" =>
           IF Kind(r) = "edit" THEN tx[c] = "open" /\ ~limit[c]
           ELSE tx[c] = IF ReadOnly(r) /\ Kind(r) # "script" THEN "open" ELSE "none"
      /\ pc[r] \in {"commit", "rollback", "stuck"} /\ Kind(r) = "edit" => ~limit[c]
      /\ pc[r] = "commit" => Kind(r) = "edit" \/ ReadOnly(r)
      /\ pc[r] = "reset" => tx[c] = "none" /\ (Kind(r) = "edit" => ~limit[c])

Swept ==
  /\ \A c \in Backends : homes[c] = 0 => Clean(c) /\ c \notin spoiled
  /\ \A r \in Requests : stage[r] = "opening" => Clean(holds[r]) /\ holds[r] \notin spoiled
  /\ \A r \in Requests : stage[r] = "holding" /\ holds[r] \notin spoiled => Proper(r)
  /\ \A r \in Requests : ReadOnly(r) => Kind(r) \notin {"begin", "end", "edit"}
  /\ PoolIsClean

(* Whose writes wait in a transaction, and whose are in the database: those of a
   request that has not failed and no longer can, or of a script that ended its
   transaction by itself. *)
Written ==
  /\ \A q \in failed : pc[q] \in {"rollback", "reset", "done"}
  /\ \A c \in Backends : \A q \in pending[c] :
       /\ pc[q] = "done" \/ holds[q] = c
       /\ q \in failed => pc[q] = "rollback"
  /\ \A q \in committed : IF q \in failed THEN Kind(q) = "end" ELSE pc[q] \in {"reset", "done"}

(* A walk that is under way will come to every pool of earlier settings. *)
Walked ==
  /\ \A a \in Admins : admin[a].step = "walking" =>
       admin[a].at <= Len(pools) /\ \A p \in mapped : p > admin[a].at
  /\ (\A a \in Admins : admin[a].step # "walking") =>
       \A p \in mapped : pools[p].version = settings

IInv == TypeOK /\ Owned /\ Paced /\ Swept /\ Written /\ Walked

-----------------------------------------------------------------------------
(* Types *)

(* Every step of the pools keeps their types. *)
LEMMA PoolsTypeStep ==
  ASSUME PoolsTypeOK, Owned,
         \/ \E r \in Requests, d \in Databases : GetPool(r, d)
         \/ \E r \in Requests : Opened(r) \/ ConnectFails(r) \/ Release(r)
         \/ Administer
         \/ \E c \in Backends : IdleOut(c)
  PROVE  PoolsTypeOK'
<1> USE PoolsAssumption DEF PoolsTypeOK
<1>0. DOMAIN pools = 1..Len(pools) /\ Len(pools) \in Nat
  OBVIOUS
<1>1. ASSUME NEW r \in Requests, NEW p \in DOMAIN pools, Ask(r, p),
             UNCHANGED <<settings, exists, pools, mapped, ending, admin>>
      PROVE  PoolsTypeOK'
  <2>1. asked' \in [Requests -> {0} \cup DOMAIN pools]
    BY <1>1 DEF Ask
  <2>2. stage' \in [Requests -> Stages]
    BY <1>1 DEF Ask, Stages
  <2>3. homes' \in [Backends -> {0} \cup DOMAIN pools]
        /\ holds' \in [Requests -> Backends \cup {NoBackend}]
    <3>1. CASE UNCHANGED <<homes, holds>>
      BY <3>1
    <3>2. CASE \E c \in Backends : holds' = [holds EXCEPT ![r] = c] /\ UNCHANGED homes
      BY <3>2
    <3>3. CASE \E c \in Backends : /\ homes' = [homes EXCEPT ![c] = p]
                                  /\ holds' = [holds EXCEPT ![r] = c]
      BY <3>3
    <3>4. QED
      BY <1>1, <3>1, <3>2, <3>3 DEF Ask, Idle, Clients
  <2>4. QED
    BY <1>1, <2>1, <2>2, <2>3
<1>2. ASSUME NEW r \in Requests, NEW d \in Databases, GetPool(r, d)
      PROVE  PoolsTypeOK'
  <2>1. CASE PoolOf(d) # {}
    <3>1. PICK p \in PoolOf(d) : Ask(r, p)
      BY <1>2, <2>1 DEF GetPool
    <3>2. p \in DOMAIN pools
      BY DEF PoolOf
    <3>3. QED
      BY <1>1, <1>2, <2>1, <3>1, <3>2 DEF GetPool
  <2>2. CASE PoolOf(d) = {}
    <3>1. pools' = Append(pools, [db |-> d, version |-> settings])
          /\ mapped' = mapped \cup {Len(pools) + 1} /\ UNCHANGED <<ending, admin, settings, exists>>
          /\ stage' = [stage EXCEPT ![r] = "opening"]
          /\ asked' = [asked EXCEPT ![r] = Len(pools) + 1]
      BY <1>2, <2>2 DEF GetPool
    <3>2. pools' \in Seq([db : Databases, version : Nat])
          /\ DOMAIN pools' = 1..(Len(pools) + 1)
      BY <3>1
    <3>3. \E c \in Backends : /\ homes' = [homes EXCEPT ![c] = Len(pools) + 1]
                              /\ holds' = [holds EXCEPT ![r] = c]
      BY <1>2, <2>2 DEF GetPool, Clients
    <3>4. homes' \in [Backends -> {0} \cup DOMAIN pools']
          /\ holds' \in [Requests -> Backends \cup {NoBackend}]
      BY <1>0, <3>2, <3>3
    <3>5. asked' \in [Requests -> {0} \cup DOMAIN pools']
      BY <1>0, <3>1, <3>2
    <3>6. mapped' \subseteq DOMAIN pools' /\ ending' \subseteq DOMAIN pools'
      BY <1>0, <3>1, <3>2
    <3>7. stage' \in [Requests -> Stages]
      BY <3>1 DEF Stages
    <3>8. QED
      BY <3>1, <3>2, <3>4, <3>5, <3>6, <3>7
  <2>3. QED
    BY <2>1, <2>2
<1>3. ASSUME NEW r \in Requests, Opened(r) PROVE PoolsTypeOK'
  BY <1>3 DEF Opened, mapVars, Stages
<1>4. ASSUME NEW r \in Requests, ConnectFails(r) PROVE PoolsTypeOK'
  BY <1>4 DEF ConnectFails, mapVars, Stages
<1>5. ASSUME NEW r \in Requests, Release(r) PROVE PoolsTypeOK'
  <2>1. holds[r] \in Backends
    BY <1>5 DEF Release, Owned
  <2>2. stage' \in [Requests -> Stages]
    BY <1>5 DEF Release, Stages
  <2>3. holds' \in [Requests -> Backends \cup {NoBackend}]
    BY <1>5, <2>1 DEF Release
  <2>4. homes' \in [Backends -> {0} \cup DOMAIN pools]
    BY <1>5, <2>1 DEF Release
  <2>5. QED
    BY <1>5, <2>2, <2>3, <2>4 DEF Release, mapVars
<1>6. ASSUME NEW c \in Backends, IdleOut(c) PROVE PoolsTypeOK'
  BY <1>6 DEF IdleOut, mapVars
<1>7. ASSUME NEW ps \in SUBSET DOMAIN pools, EndPools(ps)
      PROVE  ending' \subseteq DOMAIN pools /\ homes' \in [Backends -> {0} \cup DOMAIN pools]
  BY <1>7 DEF EndPools
<1>8. ASSUME NEW p \in mapped, Evict(p) PROVE PoolsTypeOK'
  BY <1>7, <1>8 DEF Evict
<1>9. ASSUME NEW a \in Admins, StartUpdate(a) \/ StartDelete(a) PROVE PoolsTypeOK'
  <2>1. \A op \in Ops : [op |-> op, step |-> "walking", at |-> 0]
                        \in [op : Ops, step : Steps, at : Nat]
    BY DEF Steps
  <2>2. \E op \in Ops : admin' = [admin EXCEPT ![a] = [op |-> op, step |-> "walking", at |-> 0]]
    BY <1>9 DEF StartUpdate, StartDelete, Ops
  <2>3. admin' \in [Admins -> [op : Ops, step : Steps, at : Nat]]
    BY <2>1, <2>2
  <2>4. settings' \in Nat
        /\ UNCHANGED <<exists, pools, mapped, ending, homes, stage, asked, holds>>
    BY <1>9 DEF StartUpdate, StartDelete
  <2>5. QED
    BY <2>3, <2>4
<1>10. ASSUME NEW a \in Admins, CloseAll(a) PROVE PoolsTypeOK'
  BY <1>7, <1>10 DEF CloseAll, Ops, Steps
<1>11. ASSUME NEW a \in Admins, NEW st \in Steps, At(a, st)
       PROVE  admin' \in [Admins -> [op : Ops, step : Steps, at : Nat]]
  BY <1>11 DEF At
<1>12. ASSUME NEW a \in Admins, Walk(a) PROVE PoolsTypeOK'
  <2>1. CASE Ahead(a) = {}
    <3>1. PICK st \in Steps : At(a, st)
      BY <1>12, <2>1 DEF Walk, Steps
    <3>2. QED
      BY <1>11, <1>12, <2>1, <3>1 DEF Walk
  <2>2. CASE Ahead(a) # {}
    <3>1. PICK p \in Ahead(a) : mapped' = mapped \ {p} /\ EndPools({p})
                                /\ admin' = [admin EXCEPT ![a].at = p]
      BY <1>12, <2>2 DEF Walk
    <3>2. p \in DOMAIN pools /\ p \in Nat
      BY <1>0 DEF Ahead
    <3>3. admin' \in [Admins -> [op : Ops, step : Steps, at : Nat]]
      BY <3>1, <3>2
    <3>4. QED
      BY <1>7, <1>12, <3>1, <3>2, <3>3 DEF Walk
  <2>3. QED
    BY <2>1, <2>2
<1>13. ASSUME NEW a \in Admins, DeleteConnection(a) PROVE PoolsTypeOK'
  BY <1>11, <1>13 DEF DeleteConnection, Steps
<1>14. ASSUME NEW a \in Admins, Closed(a) PROVE PoolsTypeOK'
  BY <1>11, <1>14 DEF Closed, Steps
<1>15. QED
  BY <1>2, <1>3, <1>4, <1>5, <1>6, <1>8, <1>9, <1>10, <1>12, <1>13, <1>14 DEF Administer

-----------------------------------------------------------------------------
(* What a step does to the clients *)

(* r is refused, queued, gets the idle client c or a new one; it gives its
   client back or to q; no step of the map takes a client from its holder. *)
Moves(r, st)     == stage' = [stage EXCEPT ![r] = st] /\ UNCHANGED <<homes, holds>>
Takes(r, c)      == /\ homes[c] # 0 /\ ~Held(c)
                    /\ stage' = [stage EXCEPT ![r] = "holding"]
                    /\ holds' = [holds EXCEPT ![r] = c] /\ UNCHANGED homes
Opens(r, c, p)   == /\ homes[c] = 0
                    /\ stage' = [stage EXCEPT ![r] = "opening"]
                    /\ holds' = [holds EXCEPT ![r] = c]
                    /\ homes' = [homes EXCEPT ![c] = p]
GivesBack(r)     == /\ stage' = [stage EXCEPT ![r] = "done"]
                    /\ holds' = [holds EXCEPT ![r] = NoBackend]
                    /\ \A c \in Backends \ {holds[r]} : homes'[c] = homes[c]
PassesOn(r, q)   == /\ stage[q] = "queued"
                    /\ stage' = [stage EXCEPT ![r] = "done", ![q] = "holding"]
                    /\ holds' = [holds EXCEPT ![r] = NoBackend, ![q] = holds[r]]
                    /\ UNCHANGED homes
Closes           == /\ UNCHANGED <<stage, holds>>
                    /\ \A c \in Backends : homes'[c] = homes[c] \/ (homes'[c] = 0 /\ ~Held(c))

(* What a request that asks for a connection may change. *)
LEMMA GetPoolEffect ==
  ASSUME PoolsTypeOK, Owned, NEW r \in Requests, NEW d, GetPool(r, d)
  PROVE  /\ stage[r] = "idle"
         /\ \/ \E st \in {"done", "queued"} : Moves(r, st)
            \/ \E c \in Backends : Takes(r, c)
            \/ \E c \in Backends, p \in Nat \ {0} : Opens(r, c, p)
<1>0. stage[r] = "idle" /\ DOMAIN pools = 1..Len(pools) /\ Len(pools) \in Nat
  BY DEF GetPool, PoolsTypeOK
<1>1. CASE PoolOf(d) # {}
  <2>1. PICK p \in PoolOf(d) : Ask(r, p)
    BY <1>1 DEF GetPool
  <2>2. p \in Nat \ {0}
    BY <1>0 DEF PoolOf, PoolsTypeOK
  <2>3. CASE p \in ending
    BY <1>0, <2>1, <2>3 DEF Ask, Moves
  <2>4. CASE p \notin ending /\ Idle(p) # {}
    <3>1. PICK c \in Idle(p) : holds' = [holds EXCEPT ![r] = c]
      BY <2>1, <2>4 DEF Ask
    <3>2. c \in Backends /\ homes[c] # 0 /\ ~Held(c)
      BY <2>2 DEF Idle, Clients
    <3>3. Takes(r, c)
      BY <2>1, <2>4, <3>1, <3>2 DEF Ask, Takes
    <3>4. QED
      BY <1>0, <3>2, <3>3
  <2>5. CASE p \notin ending /\ Idle(p) = {} /\ Cardinality(Clients(p)) < PoolMax
    <3>1. PICK c \in Clients(0) :
            /\ homes' = [homes EXCEPT ![c] = p] /\ holds' = [holds EXCEPT ![r] = c]
            /\ stage' = [stage EXCEPT ![r] = "opening"]
      BY <2>1, <2>5 DEF Ask
    <3>2. c \in Backends /\ Opens(r, c, p)
      BY <3>1 DEF Opens, Clients
    <3>3. QED
      BY <1>0, <2>2, <3>2
  <2>6. CASE p \notin ending /\ Idle(p) = {} /\ ~(Cardinality(Clients(p)) < PoolMax)
    BY <1>0, <2>1, <2>6 DEF Ask, Moves
  <2>7. QED
    BY <2>3, <2>4, <2>5, <2>6
<1>2. CASE PoolOf(d) = {}
  <2>1. PICK c \in Clients(0) : /\ homes' = [homes EXCEPT ![c] = Len(pools) + 1]
                                /\ holds' = [holds EXCEPT ![r] = c]
    BY <1>2 DEF GetPool
  <2>2. c \in Backends /\ Opens(r, c, Len(pools) + 1)
    BY <1>2, <2>1 DEF Opens, Clients, GetPool
  <2>3. Len(pools) + 1 \in Nat \ {0}
    BY <1>0
  <2>4. QED
    BY <1>0, <2>2, <2>3
<1>3. QED
  BY <1>1, <1>2

(* What giving a connection back may change. *)
LEMMA ReleaseEffect ==
  ASSUME PoolsTypeOK, Owned, NEW r \in Requests, Release(r)
  PROVE  /\ stage[r] = "holding" /\ holds[r] \in Backends
         /\ GivesBack(r) \/ \E q \in Requests \ {r} : PassesOn(r, q)
<1>1. stage[r] = "holding" /\ holds[r] \in Backends
  BY DEF Release, Owned, PoolsTypeOK
<1>2. CASE homes[holds[r]] \in ending
           \/ {q \in Requests : stage[q] = "queued" /\ asked[q] = homes[holds[r]]} = {}
  <2>1. GivesBack(r)
    BY <1>1, <1>2 DEF Release, GivesBack, PoolsTypeOK
  <2>2. QED
    BY <1>1, <2>1
<1>3. CASE ~(homes[holds[r]] \in ending)
           /\ {q \in Requests : stage[q] = "queued" /\ asked[q] = homes[holds[r]]} # {}
  <2>1. PICK q \in Requests :
          /\ stage[q] = "queued"
          /\ stage' = [stage EXCEPT ![r] = "done", ![q] = "holding"]
          /\ holds' = [holds EXCEPT ![r] = NoBackend, ![q] = holds[r]]
          /\ UNCHANGED homes
    BY <1>3 DEF Release
  <2>2. q # r /\ PassesOn(r, q)
    BY <1>1, <2>1 DEF PassesOn
  <2>3. QED
    BY <1>1, <2>2
<1>4. QED
  BY <1>2, <1>3

(* Settings and idling only ever close connections no request holds. *)
LEMMA ManageEffect ==
  ASSUME PoolsTypeOK, Owned, Administer \/ \E c \in Backends : IdleOut(c)
  PROVE  Closes
<1>1. ASSUME NEW ps, EndPools(ps) PROVE \A c \in Backends :
                homes'[c] = homes[c] \/ (homes'[c] = 0 /\ ~Held(c))
  BY <1>1 DEF EndPools
<1>2. ASSUME NEW a \in Admins, StartUpdate(a) \/ StartDelete(a) \/ DeleteConnection(a) \/ Closed(a)
      PROVE  Closes
  BY <1>2 DEF StartUpdate, StartDelete, DeleteConnection, Closed, Closes
<1>3. ASSUME NEW a \in Admins, CloseAll(a) PROVE Closes
  BY <1>1, <1>3 DEF CloseAll, Closes
<1>4. ASSUME NEW a \in Admins, Walk(a) PROVE Closes
  BY <1>1, <1>4 DEF Walk, Closes
<1>5. ASSUME NEW p \in mapped, Evict(p) PROVE Closes
  BY <1>1, <1>5 DEF Evict, Closes
<1>6. ASSUME NEW c \in Backends, IdleOut(c) PROVE Closes
  BY <1>6 DEF IdleOut, Closes, PoolsTypeOK
<1>7. QED
  BY <1>2, <1>3, <1>4, <1>5, <1>6 DEF Administer

(* The pools that are in the map are pools that were made. *)
LEMMA MappedStep ==
  ASSUME PoolsTypeOK'
  PROVE  0 \notin mapped'
  BY DEF PoolsTypeOK

(* Every step leaves a connection to one request at most. *)
LEMMA OwnedStep ==
  ASSUME PoolsTypeOK, PoolsTypeOK', Owned,
         \/ \E r \in Requests : stage[r] = "idle" /\ \E st \in {"done", "queued"} : Moves(r, st)
         \/ \E r \in Requests, c \in Backends : stage[r] = "idle" /\ Takes(r, c)
         \/ \E r \in Requests, c \in Backends, p \in Nat \ {0} : stage[r] = "idle" /\ Opens(r, c, p)
         \/ \E r \in Requests : stage[r] = "opening" /\ Moves(r, "holding")
         \/ \E r \in Requests : stage[r] # "idle" /\ GivesBack(r)
         \/ \E r, q \in Requests : r # q /\ stage[r] = "holding" /\ PassesOn(r, q)
         \/ Closes
  PROVE  Owned'
<1> USE PoolsAssumption, MappedStep
<1> USE DEF Owned, PoolsTypeOK
<1>1. ASSUME NEW r \in Requests, NEW st \in {"done", "queued"}, stage[r] = "idle", Moves(r, st)
      PROVE  Owned'
  BY <1>1 DEF Moves
<1>2. ASSUME NEW r \in Requests, NEW c \in Backends, stage[r] = "idle", Takes(r, c)
      PROVE  Owned'
  BY <1>2 DEF Takes, Held
<1>3. ASSUME NEW r \in Requests, NEW c \in Backends, NEW p \in Nat \ {0}, stage[r] = "idle",
             Opens(r, c, p)
      PROVE  Owned'
  BY <1>3 DEF Opens
<1>4. ASSUME NEW r \in Requests, stage[r] = "opening", Moves(r, "holding") PROVE Owned'
  BY <1>4 DEF Moves
<1>5. ASSUME NEW r \in Requests, stage[r] # "idle", GivesBack(r) PROVE Owned'
  BY <1>5 DEF GivesBack
<1>6. ASSUME NEW r \in Requests, NEW q \in Requests \ {r}, stage[r] = "holding", PassesOn(r, q)
      PROVE  Owned'
  BY <1>6 DEF PassesOn
<1>7. CASE Closes
  BY <1>7 DEF Closes, Held
<1>8. QED
  BY <1>1, <1>2, <1>3, <1>4, <1>5, <1>6, <1>7

-----------------------------------------------------------------------------
(* Types of the requests and of the sessions *)

(* A request that begins keeps the types of its own state. *)
LEMMA BeginType ==
  ASSUME TypeOK, PoolsTypeOK', Owned', Begin
  PROVE  /\ pc' \in [Requests -> Pcs] /\ running' \in [Requests -> Backends \cup {NoBackend}]
         /\ job' \in [Requests -> [kind : Kinds, readOnly : BOOLEAN]]
         /\ canceled' \subseteq Requests
<1>1. pc' \in [Requests -> Pcs]
  BY DEF Begin, TypeOK, Pcs
<1>2. running' \in [Requests -> Backends \cup {NoBackend}]
  BY DEF Begin, TypeOK, PoolsTypeOK
<1>3. NoJob \in [kind : Kinds, readOnly : BOOLEAN]
  BY DEF NoJob, Kinds
<1>4. job' \in [Requests -> [kind : Kinds, readOnly : BOOLEAN]]
  BY <1>3 DEF Begin, TypeOK
<1>5. canceled' \subseteq Requests
  BY DEF Begin, TypeOK
<1>6. QED
  BY <1>1, <1>2, <1>4, <1>5

SessionTypeOK ==
  /\ tx \in [Backends -> {"none", "open", "aborted"}]
  /\ pending \in [Backends -> SUBSET Requests]
  /\ limit \in [Backends -> BOOLEAN] /\ hit \in [Backends -> BOOLEAN]
  /\ spoiled \subseteq Backends

(* Closed connections keep the session state typed. *)
LEMMA FreshType ==
  ASSUME TypeOK, NEW closed, Fresh(closed) PROVE SessionTypeOK'
  BY DEF Fresh, TypeOK, SessionTypeOK

(* The steps of a statement that is not the last one. *)
LEMMA FailsType ==
  ASSUME TypeOK, NEW r \in Requests, holds[r] \in Backends,
         NEW st \in {"none", "open", "aborted"}, Fails(r, st)
  PROVE  /\ tx' \in [Backends -> {"none", "open", "aborted"}]
         /\ pending' \in [Backends -> SUBSET Requests]
         /\ limit' \in [Backends -> BOOLEAN] /\ hit' \in [Backends -> BOOLEAN]
         /\ pc' \in [Requests -> Pcs] /\ failed' \subseteq Requests /\ committed' \subseteq Requests
<1>1. pending' \in [Backends -> SUBSET Requests]
  BY DEF Fails, TypeOK
<1>2. pc' \in [Requests -> Pcs]
  BY DEF Fails, Goto, TypeOK, Pcs
<1>3. QED
  BY <1>1, <1>2 DEF Fails, TypeOK

(* A failed statement leaves one of the three transaction states. *)
LEMMA AbortedType ==
  ASSUME NEW c PROVE Aborted(c) \in {"none", "open", "aborted"}
  BY DEF Aborted

(* A request that moves on is at a place of the program. *)
LEMMA GotoType ==
  ASSUME TypeOK, NEW r \in Requests, NEW st \in Pcs, Goto(r, st)
  PROVE  pc' \in [Requests -> Pcs]
  BY DEF Goto, TypeOK

StatementTypeOK ==
  /\ SessionTypeOK /\ pc \in [Requests -> Pcs]
  /\ failed \subseteq Requests /\ committed \subseteq Requests

(* A request at work holds a connection. *)
LEMMA HoldsType ==
  ASSUME TypeOK, Owned, Paced, NEW r \in Requests, pc[r] \in Working
  PROVE  holds[r] \in Backends /\ stage[r] = "holding"
  BY DEF Owned, Paced, TypeOK, PoolsTypeOK

(* Every statement keeps the types. *)
LEMMA StatementType ==
  ASSUME TypeOK, NEW r \in Requests, holds[r] \in Backends,
         \/ SetLimit(r) \/ BeginTransaction(r) \/ Query(r) \/ QueryFails(r)
         \/ QueryFailsHalfway(r) \/ Commit(r) \/ Rollback(r) \/ CursorTimesOut(r)
  PROVE  StatementTypeOK'
<1> DEFINE c == holds[r]
<1> USE DEF StatementTypeOK, SessionTypeOK
<1>0. {"limit", "begin", "query", "commit", "stuck", "rollback", "reset"} \subseteq Pcs
      /\ Aborted(c) \in {"none", "open", "aborted"}
  BY AbortedType DEF Pcs
<1>1. CASE SetLimit(r)
  <2>1. CASE \E st \in {"none", "open", "aborted"} : Fails(r, st) /\ UNCHANGED spoiled
    BY <2>1, FailsType DEF TypeOK
  <2>2. CASE /\ limit' = [limit EXCEPT ![c] = TRUE]
             /\ \E st \in Pcs : Goto(r, st)
             /\ UNCHANGED <<tx, pending, hit, failed, committed, spoiled>>
    BY <2>2, GotoType DEF TypeOK
  <2>3. QED
    BY <1>0, <1>1, <2>1, <2>2 DEF SetLimit
<1>2. CASE BeginTransaction(r)
  <2>1. CASE \E st \in {"none", "open", "aborted"} : Fails(r, st) /\ UNCHANGED spoiled
    BY <2>1, FailsType DEF TypeOK
  <2>2. CASE /\ tx' = [tx EXCEPT ![c] = "open"] /\ Goto(r, "query")
             /\ UNCHANGED <<pending, limit, hit, failed, committed, spoiled>>
    BY <1>0, <2>2, GotoType DEF TypeOK
  <2>3. QED
    BY <1>0, <1>2, <2>1, <2>2 DEF BeginTransaction
<1>3. CASE Query(r)
  <2>1. pc' \in [Requests -> Pcs]
    <3>1. \E st \in Pcs : Goto(r, st)
      BY <1>0, <1>3 DEF Query
    <3>2. QED
      BY <3>1, GotoType
  <2>2. UNCHANGED <<limit, hit, failed>> /\ spoiled' \subseteq Backends
    BY <1>3 DEF Query, TypeOK
  <2>3. CASE UNCHANGED <<tx, pending, committed>>
    BY <2>1, <2>2, <2>3 DEF TypeOK
  <2>4. CASE Commits(r, c)
    BY <2>1, <2>2, <2>4 DEF TypeOK, Commits
  <2>5. CASE pending' = [pending EXCEPT ![c] = @ \cup {r}] /\ UNCHANGED <<tx, committed>>
    BY <2>1, <2>2, <2>5 DEF TypeOK
  <2>6. CASE pending' = [pending EXCEPT ![c] = @ \cup {r}] /\ tx' = [tx EXCEPT ![c] = "open"]
             /\ UNCHANGED committed
    BY <2>1, <2>2, <2>6 DEF TypeOK
  <2>7. CASE /\ tx' = [tx EXCEPT ![c] = "none"] /\ pending' = [pending EXCEPT ![c] = {}]
             /\ UNCHANGED committed
    BY <2>1, <2>2, <2>7 DEF TypeOK
  <2>8. Kind(r) \in Kinds
    BY DEF Kind, TypeOK
  <2>9. CASE Kind(r) \in {"select", "explain", "long"}
    BY <1>3, <2>3, <2>9 DEF Query
  <2>10. CASE Kind(r) = "script"
    BY <1>3, <2>4, <2>5, <2>10 DEF Query, TypeOK
  <2>11. CASE Kind(r) = "begin"
    BY <1>3, <2>6, <2>11 DEF Query
  <2>12. CASE Kind(r) = "end"
    BY <1>3, <2>4, <2>7, <2>12 DEF Query
  <2>13. CASE Kind(r) = "edit"
    BY <1>3, <2>5, <2>13 DEF Query
  <2>14. QED
    BY <2>8, <2>9, <2>10, <2>11, <2>12, <2>13 DEF Kinds
<1>4. CASE QueryFails(r)
  <2>1. \E st \in {"none", "open", "aborted"} : Fails(r, st)
    BY <1>4 DEF QueryFails
  <2>2. spoiled' \subseteq Backends
    BY <1>4 DEF QueryFails, TypeOK
  <2>3. QED
    BY <2>1, <2>2, FailsType
<1>5. CASE Commit(r)
  <2>1. CASE Fails(r, "aborted")
    BY <1>5, <2>1, FailsType DEF Commit, TypeOK
  <2>2. CASE Commits(r, c) /\ Goto(r, "reset") /\ UNCHANGED <<limit, hit, failed>>
    BY <1>0, <1>5, <2>2, GotoType DEF Commit, Commits, TypeOK
  <2>3. QED
    BY <1>5, <2>1, <2>2 DEF Commit
<1>6. CASE Rollback(r)
  BY <1>0, <1>6, GotoType DEF Rollback, TypeOK
<1>7. CASE CursorTimesOut(r)
  BY <1>0, <1>7, GotoType DEF CursorTimesOut, TypeOK
<1>8. CASE QueryFailsHalfway(r)
  BY <1>0, <1>8, GotoType DEF QueryFailsHalfway, Commits, TypeOK
<1>9. QED
  BY <1>1, <1>2, <1>3, <1>4, <1>5, <1>6, <1>7, <1>8

(* The steps of the pools, in every action that takes one. *)
LEMMA PoolsStep ==
  ASSUME TypeOK, Owned, Paced, Next
  PROVE  PoolsTypeOK' /\ Owned'
<1> USE DEF TypeOK
<1>1. ASSUME NEW r \in Requests, NEW d \in Databases, GetPool(r, d) PROVE PoolsTypeOK' /\ Owned'
  BY <1>1, PoolsTypeStep, GetPoolEffect, OwnedStep
<1>2. ASSUME NEW r \in Requests, Opened(r) PROVE PoolsTypeOK' /\ Owned'
  <2>1. stage[r] = "opening" /\ Moves(r, "holding")
    BY <1>2 DEF Opened, Moves
  <2>2. QED
    BY <1>2, <2>1, PoolsTypeStep, OwnedStep
<1>3. ASSUME NEW r \in Requests, ConnectFails(r) PROVE PoolsTypeOK' /\ Owned'
  <2>1. stage[r] # "idle" /\ GivesBack(r)
    BY <1>3 DEF ConnectFails, GivesBack, PoolsTypeOK
  <2>2. QED
    BY <1>3, <2>1, PoolsTypeStep, OwnedStep
<1>4. ASSUME NEW r \in Requests, Release(r) PROVE PoolsTypeOK' /\ Owned'
  <2>1. PoolsTypeOK'
    BY <1>4, PoolsTypeStep
  <2>2. stage[r] = "holding" /\ (GivesBack(r) \/ \E q \in Requests \ {r} : PassesOn(r, q))
    BY <1>4, ReleaseEffect
  <2>3. CASE GivesBack(r)
    BY <2>1, <2>2, <2>3, OwnedStep
  <2>4. CASE \E q \in Requests \ {r} : PassesOn(r, q)
    BY <2>1, <2>2, <2>4, OwnedStep
  <2>5. QED
    BY <2>2, <2>3, <2>4
<1>5. ASSUME Administer \/ \E c \in Backends : IdleOut(c) PROVE PoolsTypeOK' /\ Owned'
  BY <1>5, PoolsTypeStep, ManageEffect, OwnedStep
<1>6. ASSUME UNCHANGED poolVars PROVE PoolsTypeOK' /\ Owned'
  BY <1>6 DEF poolVars, PoolsTypeOK, Owned
<1>7. QED
  BY <1>1, <1>2, <1>3, <1>4, <1>5, <1>6
  DEF Next, Request, Connected, NotConnected, Statement, SetLimit, BeginTransaction, Query,
      QueryFails, QueryFailsHalfway, Commit, Rollback, Reset, CursorTimesOut, RequestCancel,
      CancelArrives, Manage, Elsewhere

(* Every step keeps the types. *)
LEMMA TypeStep ==
  ASSUME TypeOK, Owned, Paced, Next
  PROVE  TypeOK'
<1>0. PoolsTypeOK' /\ Owned'
  BY PoolsStep
<1>1. ASSUME NEW r \in Requests, NEW d \in Databases, NEW k \in Kinds, NEW b \in BOOLEAN,
             Request(r, d, k, b)
      PROVE  TypeOK'
  <2>1. [kind |-> k, readOnly |-> b] \in [kind : Kinds, readOnly : BOOLEAN]
    OBVIOUS
  <2>2. job' \in [Requests -> [kind : Kinds, readOnly : BOOLEAN]]
    BY <1>1, <2>1 DEF Request, TypeOK
  <2>3. pc' \in [Requests -> Pcs] /\ failed' \subseteq Requests
    BY <1>1 DEF Request, TypeOK, Pcs
  <2>4. running' \in [Requests -> Backends \cup {NoBackend}]
    BY <1>0, <1>1 DEF Request, TypeOK, PoolsTypeOK
  <2>5. QED
    BY <1>0, <1>1, <2>2, <2>3, <2>4 DEF Request, TypeOK, session
<1>2. ASSUME NEW r \in Requests, Connected(r) PROVE TypeOK'
  BY <1>0, <1>2, BeginType DEF Connected, TypeOK, session
<1>3. ASSUME NEW r \in Requests, NotConnected(r) PROVE TypeOK'
  <2>1. SessionTypeOK'
    BY <1>3, FreshType DEF NotConnected
  <2>2. QED
    BY <1>0, <1>3, <2>1, BeginType DEF NotConnected, TypeOK, SessionTypeOK
<1>4. ASSUME NEW r \in Requests,
             \/ SetLimit(r) \/ BeginTransaction(r) \/ Query(r) \/ QueryFails(r)
             \/ QueryFailsHalfway(r) \/ Commit(r) \/ Rollback(r) \/ CursorTimesOut(r)
      PROVE  TypeOK'
  <2>1. pc[r] \in Working
    BY <1>4 DEF SetLimit, BeginTransaction, Query, QueryFails, QueryFailsHalfway, Commit,
       Rollback, CursorTimesOut, Working, Pcs
  <2>2. StatementTypeOK'
    BY <1>4, <2>1, HoldsType, StatementType
  <2>3. UNCHANGED <<job, running, aim, canceled>>
    BY <1>4 DEF SetLimit, BeginTransaction, Query, QueryFails, QueryFailsHalfway, Commit,
       Rollback, CursorTimesOut, Elsewhere, cancels
  <2>4. QED
    BY <1>0, <2>2, <2>3 DEF TypeOK, StatementTypeOK, SessionTypeOK
<1>5. ASSUME NEW r \in Requests, Reset(r) PROVE TypeOK'
  <2>1. tx' \in [Backends -> {"none", "open", "aborted"}]
    BY <1>5 DEF Reset, TypeOK
  <2>2. pending' \in [Backends -> SUBSET Requests]
    BY <1>5 DEF Reset, TypeOK
  <2>3. limit' \in [Backends -> BOOLEAN] /\ hit' \in [Backends -> BOOLEAN]
    BY <1>5 DEF Reset, TypeOK
  <2>4. spoiled' \subseteq Backends
    <3>1. holds[r] \in Backends
      BY <1>5, ReleaseEffect DEF Reset, TypeOK
    <3>2. spoiled' \subseteq spoiled \cup {holds[r]}
      BY <1>5 DEF Reset
    <3>3. QED
      BY <3>1, <3>2 DEF TypeOK
  <2>5. QED
    BY <1>0, <1>5, <2>1, <2>2, <2>3, <2>4, BeginType DEF Reset, TypeOK
<1>6. ASSUME NEW r \in Requests, RequestCancel(r) \/ CancelArrives(r) PROVE TypeOK'
  BY <1>0, <1>6 DEF RequestCancel, CancelArrives, TypeOK, session
<1>7. CASE Manage
  <2>1. SessionTypeOK'
    BY <1>7, FreshType DEF Manage
  <2>2. QED
    BY <1>0, <1>7, <2>1 DEF Manage, TypeOK, SessionTypeOK, cancels
<1>8. QED
  BY <1>1, <1>2, <1>3, <1>4, <1>5, <1>6, <1>7 DEF Next, Statement

-----------------------------------------------------------------------------
(* Clean clients, and the writes of failed requests *)

Sound == Paced /\ Swept /\ Written

(* A statement touches the client of its request, and no other. *)
LEMMA StatementSweeps ==
  ASSUME TypeOK, Owned, Paced, Swept, NEW r \in Requests, pc[r] \in Working,
         UNCHANGED <<poolVars, job>>,
         NEW st \in Working, Goto(r, st),
         \A c \in Backends \ {holds[r]} : tx'[c] = tx[c] /\ limit'[c] = limit[c],
         spoiled \subseteq spoiled', spoiled' \subseteq spoiled \cup {holds[r]},
         holds[r] \notin spoiled' => Proper(r)'
  PROVE  Paced' /\ Swept'
<1>1. holds[r] \in Backends /\ stage[r] = "holding" /\ homes[holds[r]] # 0
  BY HoldsType DEF Owned, TypeOK
<1>2. UNCHANGED <<homes, holds, stage, job>>
  BY DEF poolVars
<1>3. pc'[r] = st /\ \A q \in Requests \ {r} : pc'[q] = pc[q]
  BY DEF Goto, TypeOK
<1>4. Paced'
  BY <1>1, <1>2, <1>3 DEF Paced, Working
<1>5. \A q \in Requests \ {r} : holds[q] # holds[r]
  BY <1>1, PoolsAssumption DEF Owned
<1>6. ASSUME NEW q \in Requests \ {r}, stage[q] = "holding", holds[q] \notin spoiled'
      PROVE  Proper(q)'
  <2>1. Proper(q) /\ holds[q] \in Backends \ {holds[r]}
    BY <1>5, <1>6 DEF Swept, Owned, TypeOK, PoolsTypeOK
  <2>2. UNCHANGED <<holds[q], pc[q], job[q], tx[holds[q]], limit[holds[q]]>>
    BY <1>2, <1>3, <2>1
  <2>3. QED
    BY <2>1, <2>2 DEF Proper, Clean, Kind, ReadOnly
<1>7. \A c \in Backends : homes[c] = 0 => Clean(c)' /\ c \notin spoiled'
  BY <1>1 DEF Swept, Clean
<1>8. \A q \in Requests : stage[q] = "opening" => Clean(holds[q])' /\ holds[q] \notin spoiled'
  <2> SUFFICES ASSUME NEW q \in Requests, stage[q] = "opening"
               PROVE  Clean(holds[q])' /\ holds[q] \notin spoiled'
    OBVIOUS
  <2>1. q # r /\ holds[q] \in Backends \ {holds[r]}
    BY <1>1, <1>5 DEF Owned, TypeOK, PoolsTypeOK
  <2>2. QED
    BY <1>2, <2>1 DEF Swept, Clean
<1>9. PoolIsClean'
  BY <1>2 DEF Swept, PoolIsClean, Held
<1>10. \A q \in Requests : ReadOnly(q)' => Kind(q)' \notin {"begin", "end", "edit"}
  BY <1>2 DEF Swept, ReadOnly, Kind
<1>11. QED
  BY <1>2, <1>4, <1>6, <1>7, <1>8, <1>9, <1>10 DEF Swept

(* A statement that leaves its request where its writes allow it keeps Written. *)
LEMMA StatementWrites ==
  ASSUME TypeOK, Owned, Paced, Written, NEW r \in Requests, pc[r] \in Working \ {"reset"},
         UNCHANGED <<holds, job>>,
         NEW st \in Working, Goto(r, st),
         \A c \in Backends \ {holds[r]} : pending'[c] = pending[c],
         pending'[holds[r]] \subseteq pending[holds[r]] \cup {r},
         failed \subseteq failed', failed' \subseteq failed \cup {r},
         r \in failed' => st \in {"rollback", "reset"},
         r \in failed' /\ r \in pending'[holds[r]] => st = "rollback",
         committed' \subseteq committed \cup pending[holds[r]] \cup {r},
         r \in committed' \ committed => IF r \in failed' THEN Kind(r) = "end" ELSE st = "reset"
  PROVE  Written'
<1>1. holds[r] \in Backends
  BY HoldsType
<1>2. pc'[r] = st /\ \A q \in Requests \ {r} : pc'[q] = pc[q]
  BY DEF Goto, TypeOK
<1>3. \A q \in Requests \ {r} : holds[q] # holds[r]
  BY <1>1, PoolsAssumption DEF Owned
<1>4. pc[r] # "done"
  BY DEF Working
<1>5. ASSUME NEW q \in failed' PROVE pc'[q] \in {"rollback", "reset", "done"}
  BY <1>2, <1>5 DEF Written, TypeOK
<1>6. ASSUME NEW c \in Backends, NEW q \in pending'[c]
      PROVE  (pc'[q] = "done" \/ holds'[q] = c) /\ (q \in failed' => pc'[q] = "rollback")
  <2>1. CASE q = r
    <3>1. c = holds[r]
      BY <1>4, <1>6, <2>1 DEF Written
    <3>2. QED
      BY <1>2, <1>6, <2>1, <3>1
  <2>2. CASE q # r
    <3>1. q \in pending[c] /\ q \in Requests
      BY <1>6, <2>2 DEF TypeOK
    <3>2. QED
      BY <1>2, <2>2, <3>1 DEF Written
  <2>3. QED
    BY <2>1, <2>2
<1>7. ASSUME NEW q \in committed'
      PROVE  IF q \in failed' THEN Kind(q)' = "end" ELSE pc'[q] \in {"reset", "done"}
  <2>1. Kind(q)' = Kind(q)
    BY DEF Kind
  <2>2. CASE q = r /\ r \in committed
    BY <1>4, <2>1, <2>2 DEF Written
  <2>3. CASE q = r /\ r \notin committed
    BY <1>2, <1>7, <2>1, <2>3
  <2>4. CASE q # r /\ q \in committed
    BY <1>2, <2>1, <2>4 DEF Written, TypeOK
  <2>5. CASE q # r /\ q \in pending[holds[r]]
    <3>1. q \in Requests /\ pc[q] = "done" /\ q \notin failed
      BY <1>1, <1>3, <2>5 DEF Written, TypeOK
    <3>2. QED
      BY <1>2, <2>5, <3>1
  <2>6. QED
    BY <1>7, <2>2, <2>3, <2>4, <2>5
<1>8. QED
  BY <1>5, <1>6, <1>7 DEF Written

(* What a failed statement leaves: its transaction aborted, or none, or that of
   an edit, whose ROLLBACK comes next. *)
LEMMA FailsSound ==
  ASSUME TypeOK, Owned, Sound, NEW r \in Requests, pc[r] \in Working \ {"rollback", "reset", "stuck"},
         UNCHANGED <<poolVars, job>>, spoiled \subseteq spoiled',
         spoiled' \subseteq spoiled \cup {holds[r]},
         NEW state \in {"none", "open", "aborted"}, Fails(r, state),
         state = "open" => Kind(r) = "edit" /\ pc[r] # "begin",
         \/ state = "none" /\ (Kind(r) = "edit" => holds[r] \in spoiled' \/ ~limit[holds[r]])
         \/ holds[r] \in spoiled'
         \/ ReadOnly(r) /\ Kind(r) # "edit" /\ pc[r] # "limit"
         \/ Kind(r) = "edit" /\ pc[r] # "begin" /\ ~limit[holds[r]]
  PROVE  Sound'
<1> DEFINE c == holds[r]
<1> DEFINE st == IF RollsBack(r) THEN "rollback" ELSE "reset"
<1>1. c \in Backends
  BY HoldsType DEF Sound
<1>2. st \in Working /\ Goto(r, st)
  BY DEF Fails, Working, Pcs
<1>3. pc'[r] = st /\ UNCHANGED <<holds, job>>
  BY <1>2 DEF Goto, TypeOK, poolVars
<1>4. tx'[c] = state /\ limit'[c] = limit[c]
      /\ \A x \in Backends \ {c} : tx'[x] = tx[x] /\ limit'[x] = limit[x]
  BY <1>1 DEF Fails, TypeOK
<1>5. ASSUME c \notin spoiled' PROVE Proper(r)'
  BY <1>3, <1>4, <1>5 DEF Proper, RollsBack, Kind, ReadOnly, Clean, Sound, Swept
<1>6. Paced' /\ Swept'
  <2> HIDE DEF st
  <2>1. QED
    BY <1>2, <1>4, <1>5, StatementSweeps DEF Sound
<1>7. pending'[c] \subseteq pending[c] \cup {r} /\ \A x \in Backends \ {c} : pending'[x] = pending[x]
  BY <1>1 DEF Fails, TypeOK
<1>8. r \in pending'[c] => st = "rollback"
  BY <1>1 DEF Fails, RollsBack, TypeOK
<1>9. Written'
  <2>1. st \in {"rollback", "reset"}
    OBVIOUS
  <2>2. failed' = failed \cup {r} /\ committed' = committed
    BY DEF Fails
  <2> HIDE DEF st
  <2>3. QED
    BY <1>2, <1>3, <1>7, <1>8, <2>1, <2>2, StatementWrites DEF Sound
<1>10. QED
  BY <1>6, <1>9 DEF Sound

(* SET statement_timeout keeps the sessions sound. *)
LEMMA SetLimitSound ==
  ASSUME TypeOK, Owned, Sound, NEW r \in Requests, SetLimit(r)
  PROVE  Sound'
<1> DEFINE c == holds[r]
<1>1. pc[r] = "limit" /\ pc[r] \in Working /\ UNCHANGED <<poolVars, job, spoiled>>
  BY DEF SetLimit, Elsewhere, Working, Pcs
<1>2. c \in Backends /\ stage[r] = "holding"
  BY <1>1, HoldsType DEF Sound
<1>3. c \notin spoiled => Clean(c) /\ Kind(r) # "edit"
  BY <1>1, <1>2 DEF Sound, Swept, Proper
<1>4. CASE Fails(r, Aborted(c))
  <2>1. Aborted(c) \in {"none", "aborted"} /\ (c \notin spoiled => Aborted(c) = "none")
    BY <1>3 DEF Aborted, Clean
  <2> HIDE DEF c
  <2>2. QED
    BY <1>1, <1>3, <1>4, <2>1, FailsSound DEF c
<1>5. CASE /\ limit' = [limit EXCEPT ![c] = TRUE]
           /\ Goto(r, IF ReadOnly(r) /\ Kind(r) # "script" THEN "begin" ELSE "query")
           /\ UNCHANGED <<tx, pending, hit, failed, committed>>
  <2> DEFINE st == IF ReadOnly(r) /\ Kind(r) # "script" THEN "begin" ELSE "query"
  <2>1. st \in Working /\ pc'[r] = st /\ UNCHANGED <<holds, job>>
    BY <1>1, <1>5 DEF Goto, TypeOK, Working, Pcs, poolVars
  <2>2. limit'[c] /\ \A x \in Backends \ {c} : limit'[x] = limit[x]
    BY <1>2, <1>5 DEF TypeOK
  <2>3. ASSUME c \notin spoiled' PROVE Proper(r)'
    BY <1>1, <1>3, <1>5, <2>1, <2>2, <2>3 DEF Proper, Kind, ReadOnly, Clean
  <2>4. Paced' /\ Swept'
    <3> HIDE DEF st
    <3>1. QED
      BY <1>1, <1>5, <2>1, <2>2, <2>3, StatementSweeps DEF Sound, st
  <2>5. r \notin failed
    BY <1>1 DEF Sound, Written
  <2>6. Written'
    <3> HIDE DEF st
    <3>1. QED
      BY <1>1, <1>5, <2>1, <2>5, StatementWrites DEF Sound, st
  <2>7. QED
    BY <2>4, <2>6 DEF Sound
<1>6. QED
  BY <1>4, <1>5 DEF SetLimit

(* BEGIN keeps the sessions sound. *)
LEMMA BeginSound ==
  ASSUME TypeOK, Owned, Sound, NEW r \in Requests, BeginTransaction(r)
  PROVE  Sound'
<1> DEFINE c == holds[r]
<1>1. pc[r] = "begin" /\ pc[r] \in Working /\ UNCHANGED <<poolVars, job, spoiled>>
  BY DEF BeginTransaction, Elsewhere, Working, Pcs
<1>2. c \in Backends /\ stage[r] = "holding"
  BY <1>1, HoldsType DEF Sound
<1>3. c \notin spoiled => /\ tx[c] = "none" /\ (Kind(r) = "edit" <=> ~limit[c])
                          /\ (Kind(r) = "edit" \/ ReadOnly(r))
  BY <1>1, <1>2 DEF Sound, Swept, Proper
<1>4. CASE Fails(r, Aborted(c))
  <2>1. Aborted(c) \in {"none", "aborted"} /\ (c \notin spoiled => Aborted(c) = "none")
    BY <1>3 DEF Aborted
  <2> HIDE DEF c
  <2>2. QED
    BY <1>1, <1>3, <1>4, <2>1, FailsSound DEF c
<1>5. CASE /\ tx' = [tx EXCEPT ![c] = "open"] /\ Goto(r, "query")
           /\ UNCHANGED <<pending, limit, hit, failed, committed>>
  <2>1. "query" \in Working /\ pc'[r] = "query" /\ UNCHANGED <<holds, job>>
    BY <1>1, <1>5 DEF Goto, TypeOK, Working, Pcs, poolVars
  <2>2. tx'[c] = "open" /\ \A x \in Backends \ {c} : tx'[x] = tx[x]
    BY <1>2, <1>5 DEF TypeOK
  <2>3. ASSUME c \notin spoiled' PROVE Proper(r)'
    <3>1. Kind(r) # "script"
      BY <1>1, <1>2, <2>3 DEF Sound, Swept, Proper
    <3>2. QED
      BY <1>1, <1>3, <1>5, <2>1, <2>2, <2>3, <3>1 DEF Proper, Kind, ReadOnly, Clean
  <2>4. Paced' /\ Swept'
    BY <1>1, <1>5, <2>1, <2>2, <2>3, StatementSweeps DEF Sound
  <2>5. r \notin failed
    BY <1>1 DEF Sound, Written
  <2>6. Written'
    BY <1>1, <1>5, <2>1, <2>5, StatementWrites DEF Sound
  <2>7. QED
    BY <2>4, <2>6 DEF Sound
<1>6. QED
  BY <1>4, <1>5 DEF BeginTransaction

(* A statement that fails keeps the sessions sound. *)
LEMMA QueryFailsSound ==
  ASSUME TypeOK, Owned, Sound, NEW r \in Requests, QueryFails(r)
  PROVE  Sound'
<1> DEFINE c == holds[r]
<1>1. pc[r] = "query" /\ pc[r] \in Working \ {"rollback", "reset", "stuck"}
      /\ UNCHANGED <<poolVars, job>>
      /\ spoiled' = IF Kind(r) = "begin" THEN spoiled \cup {c} ELSE spoiled
  BY DEF QueryFails, Elsewhere, Working, Pcs
<1>2. c \in Backends /\ stage[r] = "holding"
  BY <1>1, HoldsType DEF Sound
<1>3. c \notin spoiled =>
        IF Kind(r) = "edit" THEN tx[c] = "open" /\ ~limit[c]
        ELSE tx[c] = IF ReadOnly(r) /\ Kind(r) # "script" THEN "open" ELSE "none"
  BY <1>1, <1>2 DEF Sound, Swept, Proper
<1>4. PICK state \in {"none", "open", "aborted"} :
        /\ Fails(r, state)
        /\ state = "open" => Kind(r) = "edit"
        /\ state = "aborted" => tx[c] # "none" \/ Kind(r) = "begin" \/ ReadOnly(r)
  BY DEF QueryFails
<1>5. \/ state = "none" /\ (Kind(r) = "edit" => c \in spoiled' \/ ~limit[c])
      \/ c \in spoiled'
      \/ ReadOnly(r) /\ Kind(r) # "edit"
      \/ Kind(r) = "edit" /\ pc[r] # "begin" /\ ~limit[c]
  BY <1>1, <1>3, <1>4
<1> HIDE DEF c
<1>6. QED
  BY <1>1, <1>4, <1>5, FailsSound DEF c

(* A statement that succeeds does. *)
LEMMA QuerySound ==
  ASSUME TypeOK, Owned, Sound, NEW r \in Requests, Query(r)
  PROVE  Sound'
<1> DEFINE c == holds[r]
<1> DEFINE st == IF Kind(r) = "edit" \/ (ReadOnly(r) /\ Kind(r) \in {"select", "explain"})
                   THEN "commit"
                 ELSE IF ReadOnly(r) /\ Kind(r) = "long" THEN "stuck" ELSE "reset"
<1>1. pc[r] = "query" /\ pc[r] \in Working /\ UNCHANGED <<poolVars, job, limit, failed>>
      /\ tx[c] # "aborted" /\ Goto(r, st)
      /\ spoiled' = IF Kind(r) = "begin" THEN spoiled \cup {c} ELSE spoiled
  BY DEF Query, Elsewhere, Working, Pcs
<1>2. c \in Backends /\ stage[r] = "holding"
  BY <1>1, HoldsType DEF Sound
<1>3. c \notin spoiled =>
        IF Kind(r) = "edit" THEN tx[c] = "open" /\ ~limit[c]
        ELSE tx[c] = IF ReadOnly(r) /\ Kind(r) # "script" THEN "open" ELSE "none"
  BY <1>1, <1>2 DEF Sound, Swept, Proper
<1>4. st \in Working /\ pc'[r] = st /\ UNCHANGED <<holds, job>>
  BY <1>1 DEF Goto, TypeOK, Working, Pcs, poolVars
<1>5. Kind(r) \in Kinds /\ (ReadOnly(r) => Kind(r) \notin {"begin", "end", "edit"})
  BY DEF Kind, TypeOK, Sound, Swept
<1>6. \/ UNCHANGED <<tx, pending, committed>>
      \/ Commits(r, c)
      \/ /\ pending' = [pending EXCEPT ![c] = @ \cup {r}] /\ UNCHANGED committed
         /\ tx' = tx \/ tx' = [tx EXCEPT ![c] = "open"]
      \/ /\ tx' = [tx EXCEPT ![c] = "none"] /\ pending' = [pending EXCEPT ![c] = {}]
         /\ UNCHANGED committed
  <2>1. tx[c] \in {"none", "open"}
    BY <1>1, <1>2 DEF TypeOK
  <2>2. CASE Kind(r) \in {"select", "explain", "long"}
    BY <2>2 DEF Query
  <2>3. CASE Kind(r) = "script"
    BY <2>1, <2>3 DEF Query
  <2>4. CASE Kind(r) \in {"begin", "end", "edit"}
    BY <2>4 DEF Query
  <2>5. QED
    BY <1>5, <2>2, <2>3, <2>4 DEF Kinds
<1>7. \A x \in Backends \ {c} : tx'[x] = tx[x] /\ pending'[x] = pending[x]
  BY <1>2, <1>6 DEF Commits, TypeOK
<1>8. /\ pending'[c] \subseteq pending[c] \cup {r}
      /\ committed' \subseteq committed \cup pending[c] \cup {r}
      /\ committed' = committed \/ st = "reset"
  <2>1. committed' = committed \/ Kind(r) \in {"script", "end"}
    BY <1>5 DEF Query, Kinds
  <2>2. QED
    BY <1>2, <1>6, <2>1 DEF Commits, TypeOK
<1>9. c \notin spoiled' => tx'[c] = IF st \in {"commit", "stuck"} THEN "open" ELSE "none"
  <2> SUFFICES ASSUME c \notin spoiled'
               PROVE  tx'[c] = IF st \in {"commit", "stuck"} THEN "open" ELSE "none"
    OBVIOUS
  <2>1. c \notin spoiled /\ Kind(r) # "begin"
    BY <1>1
  <2>2. CASE Kind(r) \in {"select", "explain", "long"}
    BY <1>3, <2>1, <2>2 DEF Query
  <2>3. CASE Kind(r) = "script"
    BY <1>2, <1>3, <2>1, <2>3 DEF Query, Commits, TypeOK
  <2>4. CASE Kind(r) = "end"
    BY <1>2, <1>5, <2>4 DEF Query, Commits, TypeOK
  <2>5. CASE Kind(r) = "edit"
    BY <1>3, <2>1, <2>5 DEF Query
  <2>6. QED
    BY <1>5, <2>1, <2>2, <2>3, <2>4, <2>5 DEF Kinds
<1>10. ASSUME c \notin spoiled' PROVE Proper(r)'
  <2>1. c \notin spoiled
    BY <1>1, <1>10
  <2>2. QED
    BY <1>1, <1>3, <1>4, <1>9, <1>10, <2>1 DEF Proper, Kind, ReadOnly, Clean
<1>11. r \notin failed
  BY <1>1 DEF Sound, Written
<1> HIDE DEF st
<1>12. Paced' /\ Swept'
  BY <1>1, <1>4, <1>7, <1>10, StatementSweeps DEF Sound
<1>13. Written'
  <2>1. pc[r] \in Working \ {"reset"} /\ UNCHANGED <<holds, job>> /\ failed' = failed
    BY <1>1, <1>4
  <2>2. /\ pending'[c] \subseteq pending[c] \cup {r}
        /\ committed' \subseteq committed \cup pending[c] \cup {r}
        /\ \A x \in Backends \ {c} : pending'[x] = pending[x]
    BY <1>7, <1>8
  <2>3. /\ failed \subseteq failed' /\ failed' \subseteq failed \cup {r}
        /\ r \in failed' => st \in {"rollback", "reset"}
        /\ r \in failed' /\ r \in pending'[c] => st = "rollback"
        /\ r \in committed' \ committed => IF r \in failed' THEN Kind(r) = "end" ELSE st = "reset"
    BY <1>8, <1>11, <2>1
  <2>4. Goto(r, st) /\ st \in Working /\ Paced /\ Written
    BY <1>1, <1>4 DEF Sound
  <2>5. QED
    BY <2>1, <2>2, <2>3, <2>4, StatementWrites
<1>14. QED
  BY <1>12, <1>13 DEF Sound

(* COMMIT does, and ends the transaction it began. *)
LEMMA CommitSound ==
  ASSUME TypeOK, Owned, Sound, NEW r \in Requests, Commit(r)
  PROVE  Sound'
<1> DEFINE c == holds[r]
<1>1. pc[r] = "commit" /\ pc[r] \in Working \ {"rollback", "reset", "stuck"}
      /\ UNCHANGED <<poolVars, job, spoiled>>
  BY DEF Commit, Elsewhere, Working, Pcs
<1>2. c \in Backends /\ stage[r] = "holding"
  BY <1>1, HoldsType DEF Sound
<1>3. c \notin spoiled => (Kind(r) = "edit" => ~limit[c]) /\ (Kind(r) = "edit" \/ ReadOnly(r))
  BY <1>1, <1>2 DEF Sound, Swept, Proper
<1>4. CASE Fails(r, "aborted")
  <2> HIDE DEF c
  <2>1. \/ c \in spoiled'
        \/ ReadOnly(r) /\ Kind(r) # "edit"
        \/ Kind(r) = "edit" /\ pc[r] # "begin" /\ ~limit[c]
    BY <1>1, <1>3
  <2>2. QED
    BY <1>1, <1>4, <2>1, FailsSound DEF c
<1>5. CASE Commits(r, c) /\ Goto(r, "reset") /\ UNCHANGED <<limit, hit, failed>>
  <2>1. "reset" \in Working /\ pc'[r] = "reset" /\ UNCHANGED <<holds, job>>
    BY <1>1, <1>5 DEF Goto, TypeOK, Working, Pcs, poolVars
  <2>2. tx'[c] = "none" /\ pending'[c] = {}
        /\ \A x \in Backends \ {c} : tx'[x] = tx[x] /\ pending'[x] = pending[x]
    BY <1>2, <1>5 DEF Commits, TypeOK
  <2>3. ASSUME c \notin spoiled' PROVE Proper(r)'
    BY <1>1, <1>3, <1>5, <2>1, <2>2, <2>3 DEF Proper, Kind, ReadOnly, Clean
  <2>4. Paced' /\ Swept'
    BY <1>1, <1>5, <2>1, <2>2, <2>3, StatementSweeps DEF Sound
  <2>5. r \notin failed /\ committed' \subseteq committed \cup pending[c] \cup {r}
    BY <1>1, <1>5 DEF Sound, Commits, Written
  <2>6. Written'
    BY <1>1, <1>5, <2>1, <2>2, <2>5, StatementWrites DEF Sound
  <2>7. QED
    BY <2>4, <2>6 DEF Sound
<1>6. QED
  BY <1>4, <1>5 DEF Commit

(* A script that fails after it has ended its transaction leaves none. *)
LEMMA QueryFailsHalfwaySound ==
  ASSUME TypeOK, Owned, Sound, NEW r \in Requests, QueryFailsHalfway(r)
  PROVE  Sound'
<1> DEFINE c == holds[r]
<1>1. /\ pc[r] = "query" /\ pc[r] \in Working /\ Kind(r) = "end"
      /\ UNCHANGED <<poolVars, job, limit, spoiled>>
      /\ Commits(r, c) /\ failed' = failed \cup {r} /\ Goto(r, "reset")
  BY DEF QueryFailsHalfway, Elsewhere, Working, Pcs
<1>2. c \in Backends /\ stage[r] = "holding"
  BY <1>1, HoldsType DEF Sound
<1>3. "reset" \in Working /\ pc'[r] = "reset" /\ UNCHANGED <<holds, job>>
  BY <1>1 DEF Goto, TypeOK, Working, Pcs, poolVars
<1>4. tx'[c] = "none" /\ pending'[c] = {}
      /\ \A x \in Backends \ {c} : tx'[x] = tx[x] /\ pending'[x] = pending[x]
  BY <1>1, <1>2 DEF Commits, TypeOK
<1>5. Proper(r)'
  BY <1>1, <1>3, <1>4 DEF Proper, Kind
<1>6. Paced' /\ Swept'
  BY <1>1, <1>3, <1>4, <1>5, StatementSweeps DEF Sound
<1>7. committed' \subseteq committed \cup pending[c] \cup {r}
  BY <1>1 DEF Commits
<1>8. Written'
  BY <1>1, <1>3, <1>4, <1>7, StatementWrites DEF Sound
<1>9. QED
  BY <1>6, <1>8 DEF Sound

(* ROLLBACK, and a cursor that times out, end the transaction. *)
LEMMA RollbackSound ==
  ASSUME TypeOK, Owned, Sound, NEW r \in Requests, Rollback(r) \/ CursorTimesOut(r)
  PROVE  Sound'
<1> DEFINE c == holds[r]
<1>1. pc[r] \in {"rollback", "stuck"} /\ pc[r] \in Working /\ Goto(r, "reset")
      /\ UNCHANGED <<poolVars, job, limit, failed, committed>>
      /\ spoiled \subseteq spoiled' /\ spoiled' \subseteq spoiled \cup {c}
  BY DEF Rollback, CursorTimesOut, Elsewhere, Working, Pcs
<1>2. c \in Backends /\ stage[r] = "holding"
  BY <1>1, HoldsType DEF Sound
<1>3. "reset" \in Working /\ pc'[r] = "reset" /\ UNCHANGED <<holds, job>>
  BY <1>1 DEF Goto, TypeOK, Working, Pcs, poolVars
<1>4. (c \notin spoiled' => tx'[c] = "none") /\ pending'[c] = {}
      /\ \A x \in Backends \ {c} : tx'[x] = tx[x] /\ pending'[x] = pending[x]
  BY <1>2 DEF Rollback, CursorTimesOut, TypeOK
<1>5. ASSUME c \notin spoiled' PROVE Proper(r)'
  <2>1. Kind(r) = "edit" => ~limit[c]
    BY <1>1, <1>2, <1>5 DEF Sound, Swept, Proper
  <2>2. QED
    BY <1>1, <1>3, <1>4, <1>5, <2>1 DEF Proper, Kind, ReadOnly, Clean
<1>6. Paced' /\ Swept'
  BY <1>1, <1>3, <1>4, <1>5, StatementSweeps DEF Sound
<1>7. Written'
  BY <1>1, <1>3, <1>4, StatementWrites DEF Sound
<1>8. QED
  BY <1>6, <1>7 DEF Sound

(* RESET, after which the client goes back to its pool or to the next request. *)
LEMMA ResetSession ==
  ASSUME TypeOK, Owned, Sound, NEW r \in Requests, Reset(r)
  PROVE  /\ holds[r] \notin spoiled' => tx'[holds[r]] = "none" /\ ~limit'[holds[r]]
         /\ homes'[holds[r]] = 0 => holds[r] \notin spoiled'
         /\ \A x \in Backends \ {holds[r]} :
              tx'[x] = tx[x] /\ limit'[x] = limit[x] /\ (x \in spoiled' <=> x \in spoiled)
         /\ \A x \in Backends : pending'[x] \subseteq pending[x]
         /\ failed' = failed /\ committed' \subseteq committed /\ pc[r] = "reset"
<1> DEFINE c == holds[r]
<1>1. pc[r] = "reset" /\ pc[r] \in Working
  BY DEF Reset, Working, Pcs
<1>2. c \in Backends /\ stage[r] = "holding"
  BY <1>1, HoldsType DEF Sound
<1>3. c \notin spoiled => tx[c] = "none" /\ (Kind(r) = "edit" => ~limit[c])
  BY <1>1, <1>2 DEF Sound, Swept, Proper
<1>4. \A x \in Backends \ {c} :
        tx'[x] = tx[x] /\ limit'[x] = limit[x] /\ (x \in spoiled' <=> x \in spoiled)
  BY <1>2 DEF Reset, TypeOK
<1>5. \A x \in Backends : pending'[x] \subseteq pending[x]
  BY <1>2 DEF Reset, TypeOK
<1>6. CASE homes'[c] = 0
  <2>1. c \notin spoiled' /\ tx'[c] = "none" /\ ~limit'[c]
    BY <1>2, <1>6 DEF Reset, TypeOK
  <2>2. QED
    BY <1>1, <1>4, <1>5, <2>1 DEF Reset
<1>7. CASE homes'[c] # 0
  <2>1. spoiled' = IF hit[c] /\ Kind(r) # "edit" THEN spoiled \cup {c} ELSE spoiled
    BY <1>7 DEF Reset
  <2>2. ASSUME c \notin spoiled' PROVE tx'[c] = "none" /\ ~limit'[c]
    <3>1. c \notin spoiled /\ ~(hit[c] /\ Kind(r) # "edit")
      BY <2>1, <2>2
    <3>2. tx'[c] = tx[c]
      BY <1>2, <1>7, <3>1 DEF Reset, TypeOK
    <3>3. ~limit'[c]
      BY <1>2, <1>3, <1>7, <3>1 DEF Reset, TypeOK
    <3>4. QED
      BY <1>3, <3>1, <3>2, <3>3
  <2>3. QED
    BY <1>1, <1>4, <1>5, <1>7, <2>2 DEF Reset
<1>8. QED
  BY <1>6, <1>7

(* Giving a connection back resets it or discards it. *)
LEMMA ResetSound ==
  ASSUME TypeOK, Owned, Owned', Sound, NEW r \in Requests, Reset(r)
  PROVE  Sound'
<1> DEFINE c == holds[r]
<1>1. pc[r] = "reset" /\ c \in Backends /\ stage[r] = "holding" /\ Begin
      /\ (GivesBack(r) \/ \E q \in Requests \ {r} : PassesOn(r, q))
  BY ReleaseEffect DEF Reset, TypeOK
<1>2. /\ c \notin spoiled' => tx'[c] = "none" /\ ~limit'[c]
      /\ homes'[c] = 0 => c \notin spoiled'
      /\ \A x \in Backends \ {c} :
           tx'[x] = tx[x] /\ limit'[x] = limit[x] /\ (x \in spoiled' <=> x \in spoiled)
      /\ \A x \in Backends : pending'[x] \subseteq pending[x]
      /\ failed' = failed /\ committed' \subseteq committed
  BY ResetSession
<1>3. \A x \in Requests \ {r} : holds[x] # c
  BY <1>1, PoolsAssumption DEF Owned
<1>4. stage'[r] = "done" /\ holds'[r] = NoBackend /\ pc'[r] = "done"
  BY <1>1 DEF GivesBack, PassesOn, Begin, TypeOK, PoolsTypeOK
<1>5. ASSUME NEW x \in Requests \ {r}, stage[x] # "queued"
      PROVE  /\ UNCHANGED <<stage[x], holds[x], pc[x]>>
             /\ stage[x] # "done" => UNCHANGED job[x]
  <2>1. UNCHANGED <<stage[x], holds[x]>>
    BY <1>1, <1>5 DEF GivesBack, PassesOn, TypeOK, PoolsTypeOK
  <2>2. QED
    BY <1>1, <1>5, <2>1 DEF Begin, Sound, Paced
<1>6. ASSUME NEW x \in Requests \ {r}, stage[x] = "queued"
      PROVE  \/ /\ stage'[x] = "queued" /\ UNCHANGED <<holds[x], pc[x], job[x]>>
             \/ /\ stage'[x] = "holding" /\ holds'[x] = c /\ UNCHANGED job[x]
                /\ pc'[x] = IF Kind(x) = "edit" THEN "begin" ELSE "limit"
  <2>1. \/ stage'[x] = "queued" /\ UNCHANGED holds[x]
        \/ stage'[x] = "holding" /\ holds'[x] = c
    BY <1>1, <1>6 DEF GivesBack, PassesOn, TypeOK, PoolsTypeOK
  <2>2. QED
    BY <1>1, <1>6, <2>1 DEF Begin
<1>7. Paced'
  <2>1. ASSUME NEW x \in Requests
        PROVE  /\ stage'[x] = "holding" <=> pc'[x] \in Working
               /\ stage'[x] = "done" <=> pc'[x] = "done"
    <3>1. CASE x = r
      BY <1>4, <3>1 DEF Working
    <3>2. CASE x # r /\ stage[x] # "queued"
      BY <1>5, <3>2 DEF Sound, Paced
    <3>3. CASE x # r /\ stage[x] = "queued"
      BY <1>6, <3>3 DEF Sound, Paced, Working, Pcs
    <3>4. QED
      BY <3>1, <3>2, <3>3
  <2>2. QED
    BY <2>1 DEF Paced
<1>8. Swept'
  <2>1. ASSUME NEW x \in Backends, homes'[x] = 0 PROVE Clean(x)' /\ x \notin spoiled'
    <3>1. CASE x = c
      BY <1>2, <2>1, <3>1 DEF Clean
    <3>2. CASE x # c
      <4>1. homes[x] = 0
        BY <1>1, <2>1, <3>2 DEF GivesBack, PassesOn
      <4>2. QED
        BY <1>2, <3>2, <4>1 DEF Sound, Swept, Clean
    <3>3. QED
      BY <3>1, <3>2
  <2>2. ASSUME NEW x \in Requests, stage'[x] = "opening"
        PROVE  Clean(holds[x])' /\ holds'[x] \notin spoiled'
    <3>1. x # r /\ stage[x] # "queued"
      BY <1>4, <1>6, <2>2
    <3>2. stage[x] = "opening" /\ holds'[x] = holds[x] /\ holds[x] \in Backends \ {c}
      BY <1>3, <1>5, <2>2, <3>1 DEF Owned, TypeOK, PoolsTypeOK
    <3>3. QED
      BY <1>2, <3>2 DEF Sound, Swept, Clean
  <2>3. ASSUME NEW x \in Requests, stage'[x] = "holding", holds'[x] \notin spoiled'
        PROVE  Proper(x)'
    <3>1. x # r
      BY <1>4, <2>3
    <3>2. CASE stage[x] # "queued"
      <4>1. UNCHANGED <<stage[x], holds[x], pc[x], job[x]>> /\ holds[x] \in Backends \ {c}
        BY <1>3, <1>5, <2>3, <3>1, <3>2 DEF Owned, TypeOK, PoolsTypeOK
      <4>2. Proper(x)
        BY <1>2, <2>3, <4>1 DEF Sound, Swept
      <4>3. QED
        BY <1>2, <4>1, <4>2 DEF Proper, Clean, Kind, ReadOnly
    <3>3. CASE stage[x] = "queued"
      BY <1>2, <1>6, <2>3, <3>1, <3>3 DEF Proper, Clean, Kind, ReadOnly
    <3>4. QED
      BY <3>2, <3>3
  <2>4. ASSUME NEW x \in Requests, ReadOnly(x)' PROVE Kind(x)' \notin {"begin", "end", "edit"}
    <3>1. job'[x] \in {NoJob, job[x]}
      BY <1>1 DEF Begin
    <3>2. QED
      BY <2>4, <3>1 DEF Sound, Swept, Kind, ReadOnly, NoJob
  <2>5. ASSUME NEW x \in Backends \ spoiled', ~Held(x)' PROVE Clean(x)'
    <3>1. CASE x = c
      BY <1>2, <2>5, <3>1 DEF Clean
    <3>2. CASE x # c
      <4>1. x \notin spoiled
        BY <1>2, <2>5, <3>2
      <4>2. ASSUME Held(x) PROVE FALSE
        <5>1. PICK y \in Requests : holds[y] = x
          BY <4>2 DEF Held
        <5>2. y # r /\ stage[y] # "queued"
          BY <3>2, <5>1, PoolsAssumption DEF Owned
        <5>3. holds'[y] = x
          BY <1>5, <5>1, <5>2
        <5>4. QED
          BY <2>5, <5>3 DEF Held
      <4>3. QED
        BY <1>2, <3>2, <4>1, <4>2 DEF Sound, Swept, PoolIsClean, Clean
    <3>3. QED
      BY <3>1, <3>2
  <2>6. PoolIsClean'
    BY <2>5 DEF PoolIsClean, Clean
  <2>7. QED
    BY <2>1, <2>2, <2>3, <2>4, <2>6 DEF Swept
<1>9. ASSUME NEW x \in Requests, stage[x] # "queued", pc[x] # "reset"
      PROVE  UNCHANGED <<pc[x], holds[x]>>
  BY <1>1, <1>5, <1>9
<1>10. Written'
  <2>1. ASSUME NEW q \in Requests, pc[q] = "done" PROVE pc'[q] = "done"
    <3>1. stage[q] = "done"
      BY <2>1 DEF Sound, Paced
    <3>2. QED
      BY <1>9, <2>1, <3>1
  <2>2. ASSUME NEW q \in Requests, pc[q] = "rollback" PROVE pc'[q] = "rollback"
    <3>1. stage[q] = "holding"
      BY <2>2 DEF Sound, Paced, Working, Pcs
    <3>2. QED
      BY <1>9, <2>2, <3>1
  <2>3. ASSUME NEW q \in failed' PROVE pc'[q] \in {"rollback", "reset", "done"}
    <3>1. q \in Requests /\ pc[q] \in {"rollback", "reset", "done"} /\ stage[q] # "queued"
      BY <1>2, <2>3 DEF Sound, Written, TypeOK, Paced, Working, Pcs
    <3>2. QED
      BY <1>4, <1>5, <3>1
  <2>4. ASSUME NEW x \in Backends, NEW q \in pending'[x]
        PROVE  (pc'[q] = "done" \/ holds'[q] = x) /\ (q \in failed' => pc'[q] = "rollback")
    <3>1. q \in pending[x] /\ q \in Requests
      BY <1>2, <2>4 DEF TypeOK
    <3>2. q \in failed' => pc'[q] = "rollback"
      BY <1>2, <2>2, <3>1 DEF Sound, Written
    <3>3. pc'[q] = "done" \/ holds'[q] = x
      <4>1. CASE pc[q] = "done"
        BY <2>1, <3>1, <4>1
      <4>2. CASE q = r
        BY <1>4, <4>2
      <4>3. CASE holds[q] = x /\ q # r
        <5>1. stage[q] # "queued"
          BY <3>1, <4>3, PoolsAssumption DEF Owned
        <5>2. QED
          BY <1>5, <3>1, <4>3, <5>1
      <4>4. QED
        BY <3>1, <4>1, <4>2, <4>3 DEF Sound, Written
    <3>4. QED
      BY <3>2, <3>3
  <2>5. ASSUME NEW q \in committed'
        PROVE  IF q \in failed' THEN Kind(q)' = "end" ELSE pc'[q] \in {"reset", "done"}
    <3>1. q \in committed /\ q \in Requests /\ failed' = failed
      BY <1>2, <2>5 DEF TypeOK
    <3>2. CASE q \in failed
      <4>1. Kind(q) = "end" /\ job'[q] = job[q]
        BY <1>1, <3>1, <3>2 DEF Begin, Sound, Written
      <4>2. QED
        BY <3>1, <3>2, <4>1 DEF Kind
    <3>3. CASE q \notin failed
      <4>1. pc[q] \in {"reset", "done"} /\ stage[q] # "queued"
        BY <3>1, <3>3 DEF Sound, Written, Paced, Working, Pcs
      <4>2. QED
        BY <1>4, <1>5, <3>1, <3>3, <4>1
    <3>4. QED
      BY <3>2, <3>3
  <2>6. QED
    BY <2>3, <2>4, <2>5 DEF Written
<1>11. QED
  BY <1>7, <1>8, <1>10 DEF Sound

(* A request that holds no client yet gets one, waits for one, or is refused. *)
LEMMA NewcomerSound ==
  ASSUME TypeOK, Owned, Owned', Sound, NEW r \in Requests, stage[r] \in {"idle", "opening"},
         UNCHANGED <<session, committed>>,
         \A x \in Requests \ {r} : UNCHANGED <<stage[x], holds[x], pc[x]>>,
         \A x \in Requests \ {r} : job'[x] = job[x] \/ (stage[x] = "done" /\ job'[x] = NoJob),
         \A x \in failed \cap committed : job'[x] = job[x] \/ x = r, failed \subseteq failed',
         failed' \subseteq failed \cup {r}, r \in failed' => stage[r] = "idle" /\ pc'[r] = "done",
         ReadOnly(r)' => Kind(r)' \notin {"begin", "end", "edit"},
         \A c \in Backends : homes'[c] = 0 => homes[c] = 0,
         holds[r] # NoBackend => holds'[r] = holds[r],
         stage'[r] \in {"queued", "opening"} => pc'[r] \notin Working \cup {"done"},
         stage'[r] = "opening" => Clean(holds'[r]) /\ holds'[r] \notin spoiled,
         stage'[r] = "done" => pc'[r] = "done",
         stage'[r] = "holding" => pc'[r] = IF Kind(r)' = "edit" THEN "begin" ELSE "limit",
         stage'[r] = "holding" /\ holds'[r] \notin spoiled => Clean(holds'[r]),
         stage'[r] \in Stages \ {"idle"}
  PROVE  Sound'
<1>1. UNCHANGED <<tx, pending, limit, spoiled>>
  BY DEF session
<1>2. Paced'
  <2>1. \A x \in Requests \ {r} : /\ stage'[x] = "holding" <=> pc'[x] \in Working
                                  /\ stage'[x] = "done" <=> pc'[x] = "done"
    BY DEF Sound, Paced
  <2>2. /\ stage'[r] = "holding" <=> pc'[r] \in Working
        /\ stage'[r] = "done" <=> pc'[r] = "done"
    BY DEF Working, Pcs, Stages
  <2>3. QED
    BY <2>1, <2>2 DEF Paced
<1>3. ASSUME NEW x \in Requests, stage'[x] = "opening"
      PROVE  Clean(holds[x])' /\ holds'[x] \notin spoiled'
  <2>1. Clean(holds'[x]) /\ holds'[x] \notin spoiled
    BY <1>3 DEF Sound, Swept
  <2>2. QED
    BY <1>1, <2>1 DEF Clean
<1>4. ASSUME NEW x \in Requests, stage'[x] = "holding", holds'[x] \notin spoiled'
      PROVE  Proper(x)'
  <2>1. CASE x = r
    BY <1>1, <1>4, <2>1 DEF Proper, Clean
  <2>2. CASE x # r
    <3>1. UNCHANGED <<stage[x], holds[x], pc[x], job[x]>>
      BY <1>4, <2>2
    <3>2. Proper(x)
      BY <1>1, <1>4, <3>1 DEF Sound, Swept
    <3>3. QED
      BY <1>1, <3>1, <3>2 DEF Proper, Clean, Kind, ReadOnly
  <2>3. QED
    BY <2>1, <2>2
<1>5. ASSUME NEW x \in Requests, ReadOnly(x)' PROVE Kind(x)' \notin {"begin", "end", "edit"}
  <2>1. CASE x # r
    BY <1>5, <2>1 DEF Sound, Swept, Kind, ReadOnly, NoJob
  <2>2. QED
    BY <1>5, <2>1
<1>6. ASSUME NEW c \in Backends, Held(c) PROVE Held(c)'
  <2>1. PICK x \in Requests : holds[x] = c
    BY <1>6 DEF Held
  <2>2. holds'[x] = c
    BY <2>1, PoolsAssumption
  <2>3. QED
    BY <2>2 DEF Held
<1>7. Swept'
  BY <1>1, <1>3, <1>4, <1>5, <1>6 DEF Sound, Swept, PoolIsClean, Clean
<1>8. r \notin failed /\ r \notin committed /\ pc[r] # "done"
  BY DEF Sound, Paced, Written, Working, Pcs
<1>9. ASSUME NEW x \in failed' PROVE pc'[x] \in {"rollback", "reset", "done"}
  BY <1>8, <1>9 DEF Sound, Written, TypeOK
<1>10. ASSUME NEW c \in Backends, NEW x \in pending'[c]
       PROVE  (pc'[x] = "done" \/ holds'[x] = c) /\ (x \in failed' => pc'[x] = "rollback")
  <2>1. x \in pending[c] /\ x \in Requests
    BY <1>1, <1>10 DEF TypeOK
  <2>2. CASE x = r
    <3>1. holds[r] = c
      BY <1>8, <2>1, <2>2 DEF Sound, Written
    <3>2. stage[r] # "idle" /\ holds[r] # NoBackend
      BY <3>1, PoolsAssumption DEF Owned
    <3>3. QED
      BY <2>2, <3>1, <3>2
  <2>3. CASE x # r
    BY <2>1, <2>3 DEF Sound, Written
  <2>4. QED
    BY <2>2, <2>3
<1>11. ASSUME NEW x \in committed'
       PROVE  IF x \in failed' THEN Kind(x)' = "end" ELSE pc'[x] \in {"reset", "done"}
  <2>1. x \in committed /\ x \in Requests \ {r} /\ pc'[x] = pc[x]
    BY <1>8, <1>11 DEF TypeOK
  <2>2. x \in failed' <=> x \in failed
    BY <2>1
  <2>3. QED
    BY <2>1, <2>2 DEF Sound, Written, Kind
<1>12. QED
  BY <1>2, <1>7, <1>9, <1>10, <1>11 DEF Sound, Written

(* A new request finds no trace of an earlier one. *)
LEMMA RequestSound ==
  ASSUME TypeOK, Owned, Owned', Sound, NEW r \in Requests, NEW d \in Databases, NEW k \in Kinds,
         NEW b \in BOOLEAN, Request(r, d, k, b)
  PROVE  Sound'
<1>1. /\ stage[r] = "idle" /\ holds[r] = NoBackend
      /\ \/ \E st \in {"done", "queued"} : Moves(r, st)
         \/ \E c \in Backends : Takes(r, c)
         \/ \E c \in Backends, p \in Nat \ {0} : Opens(r, c, p)
  BY GetPoolEffect DEF Request, TypeOK, Owned
<1>2. /\ \A x \in Requests \ {r} : UNCHANGED <<stage[x], holds[x], pc[x], job[x]>>
      /\ stage'[r] \in {"done", "queued", "holding", "opening"}
      /\ stage'[r] # "done" => job'[r] = [kind |-> k, readOnly |-> b]
      /\ stage'[r] = "done" => job'[r] = job[r] /\ pc'[r] = "done"
      /\ stage'[r] = "holding" => pc'[r] = IF k = "edit" THEN "begin" ELSE "limit"
      /\ stage'[r] \in {"queued", "opening"} => pc'[r] = pc[r]
      /\ failed' = IF stage'[r] = "done" THEN failed \cup {r} ELSE failed
      /\ b => k \notin {"begin", "end", "edit"}
      /\ UNCHANGED <<session, committed>>
  <2>1. stage'[r] \in {"done", "queued", "holding", "opening"}
        /\ \A x \in Requests \ {r} : UNCHANGED <<stage[x], holds[x]>>
    BY <1>1 DEF Moves, Takes, Opens, TypeOK, PoolsTypeOK
  <2>2. QED
    BY <2>1 DEF Request, TypeOK
<1>3. pc[r] \notin Working \cup {"done"} /\ r \notin failed
  BY <1>1 DEF Sound, Paced, Written, Working, Pcs
<1>4. ReadOnly(r)' => Kind(r)' \notin {"begin", "end", "edit"}
  BY <1>2 DEF Sound, Swept, ReadOnly, Kind
<1>5. \A c \in Backends : homes'[c] = 0 => homes[c] = 0
  <2>1. ASSUME NEW c \in Backends, NEW p \in Nat \ {0}, Opens(r, c, p)
        PROVE  \A x \in Backends : homes'[x] = 0 => homes[x] = 0
    BY <2>1 DEF Opens, TypeOK, PoolsTypeOK
  <2>2. QED
    BY <1>1, <2>1 DEF Moves, Takes
<1>6. stage'[r] = "opening" => Clean(holds'[r]) /\ holds'[r] \notin spoiled
  BY <1>1 DEF Moves, Takes, Opens, TypeOK, PoolsTypeOK, Sound, Swept
<1>7. stage'[r] = "holding" /\ holds'[r] \notin spoiled => Clean(holds'[r])
  BY <1>1 DEF Moves, Takes, Opens, TypeOK, PoolsTypeOK, Sound, Swept, PoolIsClean, Clean
<1>8. Kind(r)' = k \/ stage'[r] = "done"
  BY <1>2 DEF Kind
<1>9. /\ \A x \in failed \cap committed : job'[x] = job[x] \/ x = r
      /\ failed \subseteq failed' /\ failed' \subseteq failed \cup {r}
      /\ r \in failed' => pc'[r] = "done"
      /\ UNCHANGED <<session, committed>>
  BY <1>2, <1>3 DEF TypeOK
<1>10. /\ stage[r] = "idle"
       /\ holds[r] # NoBackend => holds'[r] = holds[r]
  BY <1>1 DEF Owned
<1>11. /\ stage'[r] \in {"queued", "opening"} => pc'[r] \notin Working \cup {"done"}
       /\ stage'[r] = "holding" => pc'[r] = IF Kind(r)' = "edit" THEN "begin" ELSE "limit"
       /\ stage'[r] = "done" => pc'[r] = "done"
       /\ stage'[r] \in Stages \ {"idle"}
  BY <1>2, <1>3, <1>8 DEF Stages
<1>12. \A x \in Requests \ {r} : job'[x] = job[x] \/ (stage[x] = "done" /\ job'[x] = NoJob)
  BY <1>2
<1>13. QED
  BY <1>2, <1>4, <1>5, <1>6, <1>7, <1>9, <1>10, <1>11, <1>12, NewcomerSound

(* Nor does one whose connection was opened for it. *)
LEMMA ConnectedSound ==
  ASSUME TypeOK, Owned, Owned', Sound, NEW r \in Requests, Connected(r)
  PROVE  Sound'
<1>1. /\ stage[r] = "opening" /\ stage' = [stage EXCEPT ![r] = "holding"]
      /\ UNCHANGED <<homes, holds, failed, session, committed>> /\ Begin
  BY DEF Connected, Opened
<1>2. \A x \in Requests \ {r} : UNCHANGED <<stage[x], holds[x]>>
  BY <1>1 DEF TypeOK, PoolsTypeOK
<1>3. \A x \in Requests \ {r} :
        /\ UNCHANGED pc[x]
        /\ job'[x] = job[x] \/ (stage[x] = "done" /\ job'[x] = NoJob)
  BY <1>1, <1>2 DEF Begin, Sound, Paced
<1>4. /\ stage'[r] = "holding" /\ job'[r] = job[r]
      /\ pc'[r] = IF Kind(r) = "edit" THEN "begin" ELSE "limit"
  BY <1>1 DEF Begin, TypeOK, PoolsTypeOK
<1>5. r \notin failed
  BY <1>1 DEF Sound, Paced, Written, Working, Pcs
<1>6. Clean(holds[r]) /\ holds[r] \notin spoiled
      /\ (ReadOnly(r) => Kind(r) \notin {"begin", "end", "edit"})
  BY <1>1 DEF Sound, Swept
<1>7. Kind(r)' = Kind(r) /\ ReadOnly(r)' = ReadOnly(r)
  BY <1>4 DEF Kind, ReadOnly
<1>8. \A x \in failed \cap committed : job'[x] = job[x] \/ x = r
  BY <1>1 DEF Begin, TypeOK
<1>9. QED
  BY <1>1, <1>2, <1>3, <1>4, <1>5, <1>6, <1>7, <1>8, NewcomerSound DEF Stages

(* Clients are closed that nobody holds but requests that are refused. *)
LEMMA FreshSound ==
  ASSUME TypeOK, Owned, Owned', Sound, Fresh(Closing), UNCHANGED committed,
         NEW gone \in SUBSET Requests,
         \A x \in Requests \ gone : UNCHANGED <<stage[x], holds[x], pc[x]>>,
         \A x \in Requests \ gone : job'[x] = job[x] \/ (stage[x] = "done" /\ job'[x] = NoJob),
         \A x \in gone : /\ stage[x] \in {"queued", "opening"} /\ stage'[x] = "done"
                         /\ pc'[x] = "done" /\ job'[x] = NoJob
                         /\ holds[x] # NoBackend => homes'[holds[x]] = 0,
         \A x \in failed \cap committed : job'[x] = job[x],
         failed \subseteq failed', failed' \subseteq failed \cup gone
  PROVE  Sound'
<1>1. Paced'
  <2>1. \A x \in Requests \ gone : /\ stage'[x] = "holding" <=> pc'[x] \in Working
                                   /\ stage'[x] = "done" <=> pc'[x] = "done"
    BY DEF Sound, Paced
  <2>2. \A x \in gone : /\ stage'[x] = "holding" <=> pc'[x] \in Working
                        /\ stage'[x] = "done" <=> pc'[x] = "done"
    BY DEF Working
  <2>3. QED
    BY <2>1, <2>2 DEF Paced
<1>2. \A c \in Backends : homes'[c] = 0 => tx'[c] = "none" /\ ~limit'[c] /\ c \notin spoiled'
                                          /\ pending'[c] = {}
  BY DEF Fresh, Closing
<1>3. \A c \in Backends : homes'[c] # 0 =>
        UNCHANGED <<tx[c], limit[c], pending[c]>> /\ (c \in spoiled' <=> c \in spoiled)
  BY DEF Fresh, Closing, TypeOK
<1>4. ASSUME NEW x \in Requests, stage'[x] \in {"opening", "holding"}
      PROVE  /\ UNCHANGED <<stage[x], holds[x], pc[x], job[x]>>
             /\ holds[x] \in Backends /\ homes'[holds[x]] # 0
  <2>1. UNCHANGED <<stage[x], holds[x], pc[x], job[x]>>
    BY <1>4
  <2>2. holds[x] \in Backends
    BY <1>4, <2>1 DEF Owned, TypeOK, PoolsTypeOK
  <2>3. homes'[holds[x]] # 0
    BY <2>1, <2>2, PoolsAssumption DEF Owned
  <2>4. QED
    BY <2>1, <2>2, <2>3
<1>5. ASSUME NEW x \in Requests, stage'[x] = "opening"
      PROVE  Clean(holds[x])' /\ holds'[x] \notin spoiled'
  BY <1>3, <1>4, <1>5 DEF Sound, Swept, Clean
<1>6. ASSUME NEW x \in Requests, stage'[x] = "holding", holds'[x] \notin spoiled'
      PROVE  Proper(x)'
  <2>1. Proper(x)
    BY <1>3, <1>4, <1>6 DEF Sound, Swept
  <2>2. QED
    BY <1>3, <1>4, <1>6, <2>1 DEF Proper, Clean, Kind, ReadOnly
<1>7. ASSUME NEW x \in Requests, ReadOnly(x)' PROVE Kind(x)' \notin {"begin", "end", "edit"}
  BY <1>7 DEF Sound, Swept, Kind, ReadOnly, NoJob
<1>8. ASSUME NEW c \in Backends, Held(c), homes'[c] # 0 PROVE Held(c)'
  <2>1. PICK x \in Requests : holds[x] = c
    BY <1>8 DEF Held
  <2>2. holds'[x] = c
    BY <1>8, <2>1, PoolsAssumption
  <2>3. QED
    BY <2>2 DEF Held
<1>9. PoolIsClean'
  BY <1>2, <1>3, <1>8 DEF Sound, Swept, PoolIsClean
<1>10. \A c \in Backends : homes'[c] = 0 => Clean(c)' /\ c \notin spoiled'
  BY <1>2 DEF Clean
<1>11. Swept'
  BY <1>5, <1>6, <1>7, <1>9, <1>10 DEF Swept
<1>12. ASSUME NEW x \in failed' PROVE pc'[x] \in {"rollback", "reset", "done"}
  BY <1>12 DEF Sound, Written, TypeOK
<1>13. ASSUME NEW c \in Backends, NEW x \in pending'[c]
       PROVE  (pc'[x] = "done" \/ holds'[x] = c) /\ (x \in failed' => pc'[x] = "rollback")
  <2>1. x \in pending[c] /\ x \in Requests /\ homes'[c] # 0
    BY <1>2, <1>3, <1>13 DEF TypeOK
  <2>2. pc[x] = "done" => x \notin gone
    BY DEF Sound, Paced
  <2>3. holds[x] = c => x \notin gone
    BY <2>1, PoolsAssumption
  <2>4. x \notin gone
    BY <2>1, <2>2, <2>3 DEF Sound, Written
  <2>5. QED
    BY <2>1, <2>4 DEF Sound, Written
<1>14. ASSUME NEW x \in committed'
       PROVE  IF x \in failed' THEN Kind(x)' = "end" ELSE pc'[x] \in {"reset", "done"}
  <2>1. x \in committed /\ x \in Requests /\ pc[x] \in {"rollback", "reset", "done"}
    BY <1>14 DEF Sound, Written, TypeOK
  <2>2. x \notin gone /\ pc'[x] = pc[x]
    BY <2>1 DEF Sound, Paced, Working, Pcs
  <2>3. x \in failed' <=> x \in failed
    BY <2>2
  <2>4. QED
    BY <2>1, <2>2, <2>3 DEF Sound, Written, Kind
<1>15. QED
  BY <1>1, <1>11, <1>12, <1>13, <1>14 DEF Sound, Written

(* A connection that could not be opened leaves nothing behind. *)
LEMMA NotConnectedSound ==
  ASSUME TypeOK, Owned, Owned', Sound, NEW r \in Requests, NotConnected(r)
  PROVE  Sound'
<1>1. /\ stage[r] \in {"queued", "opening"} /\ stage' = [stage EXCEPT ![r] = "done"]
      /\ holds' = [holds EXCEPT ![r] = NoBackend]
      /\ homes' = [c \in Backends |-> IF c = holds[r] THEN 0 ELSE homes[c]]
      /\ Begin /\ Fresh(Closing) /\ failed' = failed \cup {r} /\ UNCHANGED committed
  BY DEF NotConnected, ConnectFails
<1>2. \A x \in Requests \ {r} : UNCHANGED <<stage[x], holds[x]>>
  BY <1>1 DEF TypeOK, PoolsTypeOK
<1>3. \A x \in Requests \ {r} :
        /\ UNCHANGED pc[x]
        /\ job'[x] = job[x] \/ (stage[x] = "done" /\ job'[x] = NoJob)
  BY <1>1, <1>2 DEF Begin, Sound, Paced
<1>4. stage'[r] = "done" /\ pc'[r] = "done" /\ job'[r] = NoJob
  <2>1. r \notin failed
    BY <1>1 DEF Sound, Paced, Written, Working, Pcs
  <2>2. QED
    BY <1>1, <2>1 DEF Begin, TypeOK, PoolsTypeOK
<1>5. holds[r] # NoBackend => homes'[holds[r]] = 0
  BY <1>1 DEF TypeOK, PoolsTypeOK
<1> DEFINE gone == {r}
<1>6. gone \in SUBSET Requests /\ \A x \in Requests \ gone : x \in Requests \ {r}
  OBVIOUS
<1>7. /\ failed \subseteq failed' /\ failed' \subseteq failed \cup gone
      /\ \A x \in failed \cap committed : job'[x] = job[x]
      /\ \A x \in gone : /\ stage[x] \in {"queued", "opening"} /\ stage'[x] = "done"
                         /\ pc'[x] = "done" /\ job'[x] = NoJob
                         /\ holds[x] # NoBackend => homes'[holds[x]] = 0
  BY <1>1, <1>4, <1>5 DEF Begin, TypeOK
<1> HIDE DEF gone
<1>8. QED
  BY <1>1, <1>2, <1>3, <1>6, <1>7, FreshSound

(* Closing idle connections leaves the sessions sound. *)
LEMMA ManageSound ==
  ASSUME TypeOK, Owned, Owned', Sound, Manage
  PROVE  Sound'
<1>1. Closes /\ Fresh(Closing) /\ UNCHANGED <<job, pc, failed, committed>>
  BY ManageEffect DEF Manage, TypeOK
<1>2. UNCHANGED <<stage, holds>> /\ {} \in SUBSET Requests
  BY <1>1 DEF Closes
<1>3. QED
  BY <1>1, <1>2, FreshSound

(* Every step leaves the sessions sound. *)
LEMMA SoundStep ==
  ASSUME TypeOK, Owned, Owned', Sound, Next
  PROVE  Sound'
<1>1. ASSUME NEW r \in Requests, RequestCancel(r) \/ CancelArrives(r) PROVE Sound'
  <2>1. UNCHANGED <<homes, stage, holds, job, pc, failed, tx, pending, limit, spoiled, committed>>
    BY <1>1 DEF RequestCancel, CancelArrives, poolVars, session
  <2>2. Paced' /\ Written'
    BY <2>1 DEF Sound, Paced, Written, Kind
  <2>3. Swept'
    BY <2>1 DEF Sound, Swept, PoolIsClean, Held, Proper, Clean, Kind, ReadOnly
  <2>4. QED
    BY <2>2, <2>3 DEF Sound
<1>2. QED
  BY <1>1, RequestSound, ConnectedSound, NotConnectedSound, SetLimitSound, BeginSound,
     QuerySound, QueryFailsSound, QueryFailsHalfwaySound, CommitSound, RollbackSound,
     ResetSound, ManageSound
  DEF Next, Statement

-----------------------------------------------------------------------------
(* Pools of earlier settings *)

(* The steps that take pools out of the map and change no walk but that of a. *)
LEMMA FewerPools ==
  ASSUME PoolsTypeOK, Walked, UNCHANGED <<pools, settings>>, mapped' \subseteq mapped,
         \A b \in Admins : admin'[b] = admin[b] \/ (admin[b].step # "walking" /\ admin'[b].step # "walking")
  PROVE  Walked'
  BY DEF Walked, PoolsTypeOK

(* Every step leaves the pools of earlier settings to a walk still to reach them. *)
LEMMA WalkedStep ==
  ASSUME TypeOK, TypeOK', Walked, Next
  PROVE  Walked'
<1>0. PoolsTypeOK /\ PoolsTypeOK' /\ DOMAIN pools = 1..Len(pools) /\ Len(pools) \in Nat
  BY DEF TypeOK, PoolsTypeOK
<1>1. ASSUME NEW r \in Requests, NEW d \in Databases, GetPool(r, d) PROVE Walked'
  <2>1. UNCHANGED <<admin, settings>>
    BY <1>1 DEF GetPool
  <2>2. CASE UNCHANGED <<pools, mapped>>
    BY <1>0, <2>1, <2>2, FewerPools
  <2>3. CASE /\ pools' = Append(pools, [db |-> d, version |-> settings])
             /\ mapped' = mapped \cup {Len(pools) + 1}
    <3>1. /\ Len(pools') = Len(pools) + 1
          /\ \A p \in mapped : pools'[p] = pools[p]
          /\ pools'[Len(pools) + 1].version = settings
      BY <1>0, <2>3 DEF PoolsTypeOK
    <3>2. ASSUME NEW a \in Admins, admin'[a].step = "walking"
          PROVE  admin'[a].at <= Len(pools') /\ \A p \in mapped' : p > admin'[a].at
      <4>1. admin[a].at \in Nat /\ admin[a].at <= Len(pools) /\ \A p \in mapped : p > admin[a].at
        BY <1>0, <2>1, <3>2 DEF Walked, PoolsTypeOK
      <4>2. QED
        BY <1>0, <2>1, <2>3, <3>1, <4>1
    <3>3. ASSUME \A a \in Admins : admin'[a].step # "walking", NEW p \in mapped'
          PROVE  pools'[p].version = settings'
      BY <2>1, <2>3, <3>1, <3>3 DEF Walked
    <3>4. QED
      BY <3>2, <3>3 DEF Walked
  <2>4. QED
    BY <1>1, <2>2, <2>3 DEF GetPool
<1>2. CASE UNCHANGED mapVars
  BY <1>0, <1>2, FewerPools DEF mapVars
<1>3. ASSUME NEW a \in Admins, StartUpdate(a) \/ StartDelete(a) PROVE Walked'
  <2>1. admin'[a].step = "walking" /\ admin'[a].at = 0
        /\ \A b \in Admins \ {a} : admin'[b] = admin[b]
    BY <1>0, <1>3 DEF StartUpdate, StartDelete, PoolsTypeOK
  <2>2. UNCHANGED <<pools, mapped>> /\ \A p \in mapped : p > 0
    BY <1>0, <1>3 DEF StartUpdate, StartDelete, PoolsTypeOK
  <2>3. QED
    BY <1>0, <2>1, <2>2 DEF Walked
<1>4. ASSUME NEW a \in Admins, CloseAll(a) PROVE Walked'
  BY <1>0, <1>4, FewerPools DEF CloseAll, PoolsTypeOK
<1>5. ASSUME NEW a \in Admins, Walk(a) PROVE Walked'
  <2>1. admin[a].step = "walking" /\ UNCHANGED <<pools, settings>>
    BY <1>5 DEF Walk
  <2>2. CASE Ahead(a) = {}
    <3>1. mapped = {} /\ mapped' = mapped
      BY <1>5, <2>1, <2>2 DEF Walk, Ahead, Walked
    <3>2. \A b \in Admins : admin'[b] = admin[b] \/ admin'[b].step # "walking"
      BY <1>0, <1>5, <2>2 DEF Walk, At, PoolsTypeOK
    <3>3. QED
      BY <2>1, <3>1, <3>2 DEF Walked
  <2>3. CASE Ahead(a) # {}
    <3>1. PICK p \in Ahead(a) :
            /\ \A q \in Ahead(a) : p <= q
            /\ mapped' = mapped \ {p}
            /\ admin' = [admin EXCEPT ![a].at = p]
      BY <1>5, <2>3 DEF Walk
    <3>2. p \in 1..Len(pools) /\ \A q \in mapped : q \in 1..Len(pools)
      BY <1>0 DEF Ahead, PoolsTypeOK
    <3>3. \A q \in mapped : p <= q
      BY <2>1, <3>1 DEF Ahead, Walked
    <3>4. admin'[a].at = p /\ admin'[a].step = "walking"
          /\ \A b \in Admins \ {a} : admin'[b] = admin[b]
      BY <1>0, <2>1, <3>1 DEF PoolsTypeOK
    <3>5. \A q \in mapped' : q > p
      BY <3>1, <3>2, <3>3
    <3>6. QED
      BY <1>0, <2>1, <3>1, <3>2, <3>4, <3>5 DEF Walked
  <2>4. QED
    BY <2>2, <2>3
<1>6. ASSUME NEW a \in Admins, DeleteConnection(a) \/ Closed(a) PROVE Walked'
  <2>1. UNCHANGED <<pools, settings>> /\ mapped' \subseteq mapped
    BY <1>6 DEF DeleteConnection, Closed
  <2>2. \A b \in Admins : admin'[b] = admin[b] \/ (admin[b].step # "walking" /\ admin'[b].step # "walking")
    BY <1>0, <1>6 DEF DeleteConnection, Closed, At, PoolsTypeOK
  <2>3. QED
    BY <1>0, <2>1, <2>2, FewerPools
<1>7. ASSUME NEW p \in mapped, Evict(p) PROVE Walked'
  BY <1>0, <1>7, FewerPools DEF Evict
<1>8. QED
  BY <1>1, <1>2, <1>3, <1>4, <1>5, <1>6, <1>7
  DEF Next, Request, Connected, NotConnected, Opened, ConnectFails, Release, Statement, SetLimit,
      BeginTransaction, Query, QueryFails, QueryFailsHalfway, Commit, Rollback, Reset,
      CursorTimesOut, RequestCancel, CancelArrives, Manage, Elsewhere, Administer, IdleOut, poolVars, mapVars

-----------------------------------------------------------------------------
(* Theorems *)

(* The inductive invariant holds at the start. *)
LEMMA IInvInit == Init => IInv
<1> SUFFICES ASSUME Init PROVE IInv
  OBVIOUS
<1> USE PoolsAssumption DEF Init, PoolsInit
<1>1. NoJob \in [kind : Kinds, readOnly : BOOLEAN]
  BY DEF NoJob, Kinds
<1>2. TypeOK
  BY <1>1 DEF TypeOK, PoolsTypeOK, Stages, Ops, Steps, Pcs
<1>3. Owned /\ Paced /\ Written
  BY DEF Owned, Paced, Written, Working, Pcs
<1>4. Swept
  BY DEF Swept, PoolIsClean, Clean, ReadOnly, NoJob
<1>5. Walked
  BY DEF Walked
<1>6. QED
  BY <1>2, <1>3, <1>4, <1>5 DEF IInv

(* Every step keeps it. *)
LEMMA IInvStep == IInv /\ [Next]_vars => IInv'
<1> SUFFICES ASSUME IInv, [Next]_vars PROVE IInv'
  OBVIOUS
<1>1. CASE Next
  <2>1. TypeOK' /\ Owned'
    BY <1>1, PoolsStep, TypeStep DEF IInv
  <2>2. Sound'
    BY <1>1, <2>1, SoundStep DEF IInv, Sound
  <2>3. Walked'
    BY <1>1, <2>1, WalkedStep DEF IInv
  <2>4. QED
    BY <2>1, <2>2, <2>3 DEF IInv, Sound
<1>2. CASE UNCHANGED vars
  <2> USE <1>2 DEF vars, poolVars, cancels, session
  <2>1. TypeOK' /\ Owned' /\ Paced' /\ Written' /\ Walked'
    BY DEF IInv, TypeOK, PoolsTypeOK, Owned, Paced, Written, Kind, Walked
  <2>2. Swept'
    BY DEF IInv, Swept, PoolIsClean, Held, Proper, Clean, Kind, ReadOnly
  <2>3. QED
    BY <2>1, <2>2 DEF IInv
<1>3. QED
  BY <1>1, <1>2

(* Every request that holds a client holds it alone and is at a statement that
   finds the client as it must be (infra/pg.ts, sql.service.ts). *)
THEOREM SqlInvariance == Spec => []IInv
  BY IInvInit, IInvStep, PTL DEF Spec

(* When no walk of the map is under way, every pool a request can get is one of
   the current settings: a pool that is made during a walk is made after the
   settings were saved, and the walk comes to every earlier one (pg.ts:113,
   connections.service.ts:66). *)
THEOREM PoolsFollow == Spec => []PoolsFollowSettings
<1>1. IInv => PoolsFollowSettings
  BY DEF IInv, Walked, PoolsFollowSettings
<1>2. QED
  BY <1>1, SqlInvariance, PTL

(* A client waits in its pool with no transaction and no statement timeout
   (sql.service.ts:83, 86, data.service.ts:187). *)
THEOREM ClientsWaitClean == Spec => []PoolIsClean
<1>1. IInv => PoolIsClean
  BY DEF IInv, Swept
<1>2. QED
  BY <1>1, SqlInvariance, PTL

(* A request that was answered with an error has nothing in the database, whoever
   might have committed it, itself or a later user of its client; only a script that
   ended its transaction by itself may have (data.service.ts:187,
   inspector.service.ts:635, sql.service.ts:148). *)
THEOREM FailedRequestsWriteNothing == Spec => []FailuresWriteNothing
<1>1. IInv => FailuresWriteNothing
  BY DEF IInv, Written, FailuresWriteNothing
<1>2. QED
  BY <1>1, SqlInvariance, PTL
=============================================================================
