------------------------------- MODULE PgPools -------------------------------
(***************************************************************************)
(* The connection pools of one connection record: infra/pg.ts and the      *)
(* updates and the deletion of connections.service.ts.  A pool is made for *)
(* a database when it is first asked for, from the settings of that moment.*)
(***************************************************************************)
EXTENDS Naturals, Sequences, FiniteSets

CONSTANTS
  Requests,    \* calls of withClient()
  Backends,    \* backends of the PostgreSQL server, each with one client
  Databases,
  Admins,      \* calls of update() and delete() of the connection, and closeAll()
  NoBackend,
  PoolMax,     \* POOL_MAX
  MaxPools     \* bound: pools ever made

ASSUME PoolsAssumption ==
  /\ NoBackend \notin Backends
  /\ PoolMax \in Nat \ {0} /\ MaxPools \in Nat

VARIABLES
  settings,    \* number of updates of the record
  exists,      \* the record is there
  pools,       \* pools ever made, as their database and settings, in order
  mapped,      \* those in the map
  ending,      \* those whose end() has been called
  homes,       \* the pool each backend's client belongs to, 0 for none
  stage,       \* what each request is at
  asked,       \* the pool it has asked, 0 before and after
  holds,       \* the client it waits for or holds
  admin        \* what each administrator's call is at

poolVars == <<settings, exists, pools, mapped, ending, homes, stage, asked, holds, admin>>
mapVars  == <<settings, exists, pools, mapped, ending, admin>>

Stages == {"idle", "queued", "opening", "holding", "done"}
Ops    == {"none", "update", "delete", "closeAll"}
Steps  == {"idle", "walking", "closing", "deleting", "done"}

PoolsTypeOK ==
  /\ settings \in Nat /\ exists \in BOOLEAN
  /\ pools \in Seq([db : Databases, version : Nat])
  /\ mapped \subseteq DOMAIN pools /\ ending \subseteq DOMAIN pools
  /\ homes \in [Backends -> {0} \cup DOMAIN pools]
  /\ stage \in [Requests -> Stages]
  /\ asked \in [Requests -> {0} \cup DOMAIN pools]
  /\ holds \in [Requests -> Backends \cup {NoBackend}]
  /\ admin \in [Admins -> [op : Ops, step : Steps, at : Nat]]

PoolsInit ==
  /\ settings = 0 /\ exists = TRUE /\ pools = <<>> /\ mapped = {} /\ ending = {}
  /\ homes = [c \in Backends |-> 0]
  /\ stage = [r \in Requests |-> "idle"] /\ asked = [r \in Requests |-> 0]
  /\ holds = [r \in Requests |-> NoBackend]
  /\ admin = [a \in Admins |-> [op |-> "none", step |-> "idle", at |-> 0]]

Clients(p) == {c \in Backends : homes[c] = p}
Held(c)    == \E r \in Requests : holds[r] = c
Idle(p)    == {c \in Clients(p) : ~Held(c)}
PoolOf(d)  == {p \in mapped : pools[p].db = d}

-----------------------------------------------------------------------------
(* withClient() *)

(* pool.connect(): an idle client, a new one, or the queue; a pool that is
   ending refuses. *)
Ask(r, p) ==
  /\ asked' = [asked EXCEPT ![r] = IF p \in ending THEN 0 ELSE p]
  /\ IF p \in ending THEN stage' = [stage EXCEPT ![r] = "done"] /\ UNCHANGED <<homes, holds>>
     ELSE IF Idle(p) # {} THEN
       /\ \E c \in Idle(p) : holds' = [holds EXCEPT ![r] = c]
       /\ stage' = [stage EXCEPT ![r] = "holding"] /\ UNCHANGED homes
     ELSE IF Cardinality(Clients(p)) < PoolMax THEN
       \E c \in Clients(0) :
         /\ homes' = [homes EXCEPT ![c] = p] /\ holds' = [holds EXCEPT ![r] = c]
         /\ stage' = [stage EXCEPT ![r] = "opening"]
     ELSE stage' = [stage EXCEPT ![r] = "queued"] /\ UNCHANGED <<homes, holds>>

(* getPool(), which reads the record first, and connect(). *)
GetPool(r, d) ==
  /\ stage[r] = "idle" /\ exists
  /\ IF PoolOf(d) # {}
       THEN (\E p \in PoolOf(d) : Ask(r, p)) /\ UNCHANGED <<pools, mapped>>
       ELSE /\ Len(pools) < MaxPools
            /\ pools' = Append(pools, [db |-> d, version |-> settings])
            /\ mapped' = mapped \cup {Len(pools) + 1}
            /\ \E c \in Clients(0) :
                 /\ homes' = [homes EXCEPT ![c] = Len(pools) + 1]
                 /\ holds' = [holds EXCEPT ![r] = c]
            /\ stage' = [stage EXCEPT ![r] = "opening"]
            /\ asked' = [asked EXCEPT ![r] = Len(pools) + 1]
  /\ UNCHANGED <<settings, exists, ending, admin>>

Opened(r) ==
  /\ stage[r] = "opening"
  /\ stage' = [stage EXCEPT ![r] = "holding"]
  /\ UNCHANGED <<mapVars, homes, asked, holds>>

(* Fault: without connectionTimeoutMillis nobody leaves the queue by itself. *)
ConnectFailsPatiently(r) ==
  /\ stage[r] = "opening"
  /\ stage' = [stage EXCEPT ![r] = "done"]
  /\ holds' = [holds EXCEPT ![r] = NoBackend]
  /\ homes' = [homes EXCEPT ![holds[r]] = 0]
  /\ asked' = [asked EXCEPT ![r] = 0]
  /\ UNCHANGED mapVars

(* The server cannot be reached, or the queue takes more than eight seconds. *)
ConnectFails(r) ==
  /\ stage[r] \in {"queued", "opening"}
  /\ stage' = [stage EXCEPT ![r] = "done"]
  /\ holds' = [holds EXCEPT ![r] = NoBackend]
  /\ homes' = [c \in Backends |-> IF c = holds[r] THEN 0 ELSE homes[c]]
  /\ asked' = [asked EXCEPT ![r] = 0]
  /\ UNCHANGED mapVars

(* release(): an ending pool drops the client, another one serves its queue. *)
Release(r) ==
  LET c == holds[r]
      p == homes[c]
      waiting == {q \in Requests : stage[q] = "queued" /\ asked[q] = p}
  IN  /\ stage[r] = "holding"
      /\ IF p \in ending \/ waiting = {} THEN
           /\ stage' = [stage EXCEPT ![r] = "done"]
           /\ holds' = [holds EXCEPT ![r] = NoBackend]
           /\ homes' = [homes EXCEPT ![c] = IF p \in ending THEN 0 ELSE p]
         ELSE \E q \in waiting :
           /\ stage' = [stage EXCEPT ![r] = "done", ![q] = "holding"]
           /\ holds' = [holds EXCEPT ![r] = NoBackend, ![q] = c]
           /\ UNCHANGED homes
      /\ asked' = [asked EXCEPT ![r] = 0]
      /\ UNCHANGED mapVars

(* A client that is idle for thirty seconds is closed. *)
IdleOut(c) ==
  /\ homes[c] # 0 /\ ~Held(c)
  /\ homes' = [homes EXCEPT ![c] = 0]
  /\ UNCHANGED <<mapVars, stage, asked, holds>>

-----------------------------------------------------------------------------
(* The map of pools *)

(* end(): idle clients are closed, the others when they are released. *)
EndPools(ps) ==
  /\ ending' = ending \cup ps
  /\ homes' = [c \in Backends |-> IF homes[c] \in ps /\ ~Held(c) THEN 0 ELSE homes[c]]

(* evictIdle(), ten minutes after the last use: nobody waits for the pool. *)
Evict(p) ==
  /\ p \in mapped /\ Idle(p) = Clients(p)
  /\ \A r \in Requests : asked[r] # p
  /\ mapped' = mapped \ {p} /\ EndPools({p})
  /\ UNCHANGED <<settings, exists, pools, stage, asked, holds, admin>>

At(a, s) == admin' = [admin EXCEPT ![a].step = s]

(* update() saves the record, then walks the map; delete() walks first. *)
StartUpdate(a) ==
  /\ exists /\ admin[a].step = "idle"
  /\ settings' = settings + 1
  /\ admin' = [admin EXCEPT ![a] = [op |-> "update", step |-> "walking", at |-> 0]]
  /\ UNCHANGED <<exists, pools, mapped, ending, homes, stage, asked, holds>>

StartDelete(a) ==
  /\ exists /\ admin[a].step = "idle"
  /\ admin' = [admin EXCEPT ![a] = [op |-> "delete", step |-> "walking", at |-> 0]]
  /\ UNCHANGED <<settings, exists, pools, mapped, ending, homes, stage, asked, holds>>

(* The entries the iterator of the map has yet to come to; a later one counts. *)
Ahead(a) == {p \in mapped : p > admin[a].at}

(* Fault: pools somebody works with are left alone, as in evictIdle(). *)
WalkSparing(a) ==
  LET ahead == {p \in Ahead(a) : Idle(p) = Clients(p)}
  IN  /\ admin[a].step = "walking"
      /\ IF ahead = {}
           THEN /\ At(a, IF admin[a].op = "delete" THEN "deleting" ELSE "done")
                /\ UNCHANGED <<mapped, ending, homes>>
           ELSE \E p \in ahead :
                  /\ mapped' = mapped \ {p} /\ EndPools({p})
                  /\ admin' = [admin EXCEPT ![a].at = p]
      /\ UNCHANGED <<settings, exists, pools, stage, asked, holds>>

(* invalidate(): the next pool is taken out of the map and ended, once the one
   before has no clients any more. *)
Walk(a) ==
  /\ admin[a].step = "walking"
  /\ admin[a].at # 0 => Clients(admin[a].at) = {}
  /\ IF Ahead(a) = {}
       THEN /\ At(a, IF admin[a].op = "delete" THEN "deleting" ELSE "done")
            /\ UNCHANGED <<mapped, ending, homes>>
       ELSE \E p \in Ahead(a) :
              /\ \A q \in Ahead(a) : p <= q
              /\ mapped' = mapped \ {p} /\ EndPools({p})
              /\ admin' = [admin EXCEPT ![a].at = p]
  /\ UNCHANGED <<settings, exists, pools, stage, asked, holds>>

DeleteConnection(a) ==
  /\ admin[a].step = "deleting"
  /\ exists' = FALSE /\ At(a, "done")
  /\ UNCHANGED <<settings, pools, mapped, ending, homes, stage, asked, holds>>

(* closeAll(): every pool is ended at once and stays in the map meanwhile. *)
CloseAll(a) ==
  /\ admin[a].step = "idle"
  /\ admin' = [admin EXCEPT ![a] = [op |-> "closeAll", step |-> "closing", at |-> 0]]
  /\ EndPools(mapped)
  /\ UNCHANGED <<settings, exists, pools, mapped, stage, asked, holds>>

Closed(a) ==
  /\ admin[a].step = "closing"
  /\ \A p \in mapped \cap ending : Clients(p) = {}
  /\ mapped' = {} /\ At(a, "done")
  /\ UNCHANGED <<settings, exists, pools, ending, homes, stage, asked, holds>>

Administer ==
  \/ \E a \in Admins : StartUpdate(a) \/ StartDelete(a) \/ CloseAll(a)
  \/ \E a \in Admins : Walk(a) \/ DeleteConnection(a) \/ Closed(a)
  \/ \E p \in mapped : Evict(p)
=============================================================================
