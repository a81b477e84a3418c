------------------------------ MODULE SqlService ------------------------------
(***************************************************************************)
(* Statements on pooled clients: execute(), explain() and cancel() of      *)
(* sql.service.ts and the transactions of data.service.ts and              *)
(* inspector.service.ts.  A client keeps its transaction and its statement *)
(* timeout when it goes back to the pool.                                  *)
(***************************************************************************)
EXTENDS PgPools

(* What a request asks for: a SELECT, one with more rows than the cap, a script
   that writes, one that writes and leaves its transaction open, one that writes
   and ends its transaction by itself, a transaction of the data grid or of the
   table editor, and EXPLAIN. *)
Kinds == {"select", "long", "script", "begin", "end", "edit", "explain"}

VARIABLES
  job,         \* kind of each request, and whether it is read-only
  pc,          \* the statement it is at
  failed,      \* requests that are answered with an error
  running,     \* the backend execute() has registered it under
  aim,         \* the backend a cancel of it is connecting for
  canceled,    \* requests whose cancel was asked for
  tx,          \* transaction of each backend
  pending,     \* requests whose writes wait in it
  limit,       \* the backend has a statement_timeout set
  hit,         \* the statement it runs is being canceled
  committed,   \* requests, failed or under way, that have writes in the database,
               \* whoever committed them
  \* auxiliary
  spoiled      \* backends a script left in a transaction, or a cancel hit late

session == <<tx, pending, limit, hit, spoiled>>
cancels == <<running, aim, canceled>>
vars == <<poolVars, job, pc, failed, cancels, session, committed>>

Pcs == {"idle", "limit", "begin", "query", "commit", "stuck", "rollback", "reset", "done"}

TypeOK ==
  /\ PoolsTypeOK
  /\ job \in [Requests -> [kind : Kinds, readOnly : BOOLEAN]]
  /\ pc \in [Requests -> Pcs]
  /\ running \in [Requests -> Backends \cup {NoBackend}]
  /\ aim \in [Requests -> Backends \cup {NoBackend}]
  /\ canceled \subseteq Requests /\ failed \subseteq Requests /\ committed \subseteq Requests
  /\ tx \in [Backends -> {"none", "open", "aborted"}]
  /\ pending \in [Backends -> SUBSET Requests]
  /\ limit \in [Backends -> BOOLEAN] /\ hit \in [Backends -> BOOLEAN]
  /\ spoiled \subseteq Backends

NoJob == [kind |-> "select", readOnly |-> FALSE]

Init ==
  /\ PoolsInit
  /\ job = [r \in Requests |-> NoJob]
  /\ pc = [r \in Requests |-> "idle"] /\ failed = {}
  /\ running = [r \in Requests |-> NoBackend] /\ aim = [r \in Requests |-> NoBackend]
  /\ canceled = {} /\ committed = {}
  /\ tx = [c \in Backends |-> "none"] /\ pending = [c \in Backends |-> {}]
  /\ limit = [c \in Backends |-> FALSE] /\ hit = [c \in Backends |-> FALSE]
  /\ spoiled = {}

Kind(r)     == job[r].kind
ReadOnly(r) == job[r].readOnly
Cancelable(r) == Kind(r) \notin {"edit", "explain"}
Writes(r)     == Kind(r) \in {"script", "begin", "end", "edit"} /\ ~ReadOnly(r)

(* A closed client takes its transaction with it. *)
Fresh(closed) ==
  /\ tx' = [c \in Backends |-> IF c \in closed THEN "none" ELSE tx[c]]
  /\ pending' = [c \in Backends |-> IF c \in closed THEN {} ELSE pending[c]]
  /\ limit' = [c \in Backends |-> limit[c] /\ c \notin closed]
  /\ hit' = [c \in Backends |-> hit[c] /\ c \notin closed]
  /\ spoiled' = spoiled \ closed

Closing == {c \in Backends : homes'[c] = 0}

(* The requests that hold a client from this step on begin their work; one that
   is done is forgotten, but for one that failed and has written. *)
Begin ==
  LET new == {r \in Requests : stage'[r] = "holding" /\ stage[r] # "holding"}
  IN  /\ pc' = [r \in Requests |->
                  IF r \in new THEN IF Kind(r) = "edit" THEN "begin" ELSE "limit"
                  ELSE IF stage'[r] = "done" THEN "done" ELSE pc[r]]
      /\ running' = [r \in Requests |->
                       IF r \in new /\ Cancelable(r) THEN holds'[r]
                       ELSE IF stage'[r] = "done" THEN NoBackend ELSE running[r]]
      /\ job' = [r \in Requests |-> IF stage'[r] = "done" /\ r \notin failed \cap committed
                                     THEN NoJob ELSE job[r]]
      /\ canceled' = {r \in canceled : stage'[r] # "done"}

-----------------------------------------------------------------------------
(* Getting a client *)

(* execute(), explain() and the others up to pool.connect(). *)
Request(r, d, k, readOnly) ==
  /\ readOnly => k \notin {"begin", "end", "edit"}
  /\ GetPool(r, d)
  /\ LET refused == stage'[r] = "done"
         has     == stage'[r] = "holding"
     IN  /\ job' = [job EXCEPT ![r] = IF refused THEN @ ELSE [kind |-> k, readOnly |-> readOnly]]
         /\ pc' = [pc EXCEPT ![r] = IF refused THEN "done"
                                    ELSE IF has THEN IF k = "edit" THEN "begin" ELSE "limit" ELSE @]
         /\ running' = [running EXCEPT ![r] = IF has /\ k \notin {"edit", "explain"}
                                                THEN holds'[r] ELSE @]
         /\ failed' = IF refused THEN failed \cup {r} ELSE failed
  /\ UNCHANGED <<aim, canceled, session, committed>>

Connected(r) ==
  /\ Opened(r) /\ Begin
  /\ UNCHANGED <<failed, aim, session, committed>>

NotConnected(r) ==
  /\ ConnectFails(r) /\ Begin /\ Fresh(Closing)
  /\ failed' = failed \cup {r}
  /\ UNCHANGED <<aim, committed>>

-----------------------------------------------------------------------------
(* Statements *)

Goto(r, s) == pc' = [pc EXCEPT ![r] = s]

(* The handler sends a ROLLBACK; the SET of explain() stands outside its try. *)
RollsBack(r) ==
  \/ Kind(r) = "edit" /\ pc[r] # "begin"
  \/ ReadOnly(r) /\ (Kind(r) = "explain" => pc[r] # "limit")

(* A statement of r fails, canceled or not: a transaction is aborted and what it
   wrote is gone, or the transaction stays open with what r has written so far. *)
Fails(r, state) ==
  LET c == holds[r]
  IN  /\ tx' = [tx EXCEPT ![c] = state]
      /\ pending' = [pending EXCEPT ![c] = IF state = "open" THEN @ \cup {r} ELSE {}]
      /\ hit' = [hit EXCEPT ![c] = FALSE]
      /\ failed' = failed \cup {r}
      /\ Goto(r, IF RollsBack(r) THEN "rollback" ELSE "reset")
      /\ UNCHANGED <<limit, committed>>

Aborted(c) == IF tx[c] = "none" THEN "none" ELSE "aborted"

(* Everything a failed statement leaves alone. *)
Elsewhere(r) == UNCHANGED <<poolVars, job, cancels>>

(* SET statement_timeout *)
SetLimit(r) ==
  LET c == holds[r]
  IN  /\ pc[r] = "limit"
      /\ IF hit[c] \/ tx[c] = "aborted" THEN Fails(r, Aborted(c))
         ELSE /\ limit' = [limit EXCEPT ![c] = TRUE]
              /\ Goto(r, IF ReadOnly(r) /\ Kind(r) # "script" THEN "begin" ELSE "query")
              /\ UNCHANGED <<tx, pending, hit, failed, committed>>
      /\ UNCHANGED spoiled /\ Elsewhere(r)

(* BEGIN, inside whatever transaction the client already has. *)
BeginTransaction(r) ==
  LET c == holds[r]
  IN  /\ pc[r] = "begin"
      /\ IF hit[c] \/ tx[c] = "aborted" THEN Fails(r, Aborted(c))
         ELSE /\ tx' = [tx EXCEPT ![c] = "open"] /\ Goto(r, "query")
              /\ UNCHANGED <<pending, limit, hit, failed, committed>>
      /\ UNCHANGED spoiled /\ Elsewhere(r)

(* The statement or the script of r fails: in SQL, or - rows that do not match -
   in the handler of an edit, with its transaction still open. *)
QueryFails(r) ==
  LET c == holds[r]
      inside == tx[c] # "none" \/ Kind(r) = "begin" \/ (Kind(r) = "script" /\ ReadOnly(r))
  IN  /\ pc[r] = "query"
      /\ \/ Fails(r, IF inside THEN "aborted" ELSE "none")
         \/ Kind(r) = "edit" /\ ~hit[c] /\ Fails(r, "open")
      /\ spoiled' = IF Kind(r) = "begin" THEN spoiled \cup {c} ELSE spoiled
      /\ Elsewhere(r)

(* The transaction of c ends well, with what r and others have written in it. *)
Commits(r, c) ==
  /\ tx' = [tx EXCEPT ![c] = "none"] /\ pending' = [pending EXCEPT ![c] = {}]
  /\ committed' = committed \cup pending[c] \cup {q \in {r} : Writes(q)}

Query(r) ==
  LET c == holds[r]
      k == Kind(r)
      writes == pending' = [pending EXCEPT ![c] = @ \cup {r}]
  IN  /\ pc[r] = "query" /\ ~hit[c] /\ tx[c] # "aborted"
      /\ Goto(r, IF k = "edit" \/ (ReadOnly(r) /\ k \in {"select", "explain"}) THEN "commit"
                 ELSE IF ReadOnly(r) /\ k = "long" THEN "stuck" ELSE "reset")
      /\ CASE k \in {"select", "explain", "long"} -> UNCHANGED <<tx, pending, committed>>
           [] k = "script" /\ (ReadOnly(r) \/ tx[c] = "none") -> Commits(r, c)
           [] k = "edit" \/ (k = "script" /\ ~ReadOnly(r) /\ tx[c] = "open") ->
                writes /\ UNCHANGED <<tx, committed>>
           [] k = "begin" -> writes /\ tx' = [tx EXCEPT ![c] = "open"] /\ UNCHANGED committed
           [] k = "end" ->
                \/ Commits(r, c)
                \/ /\ tx' = [tx EXCEPT ![c] = "none"]
                   /\ pending' = [pending EXCEPT ![c] = {}] /\ UNCHANGED committed
      /\ spoiled' = IF k = "begin" THEN spoiled \cup {c} ELSE spoiled
      /\ UNCHANGED <<limit, hit, failed>> /\ Elsewhere(r)

(* Fault: the grid commits row by row. *)
QueryFailsRowByRow(r) ==
  LET c == holds[r]
  IN  /\ pc[r] = "query" /\ Kind(r) \in {"end", "edit"} /\ tx[c] # "aborted"
      /\ Commits(r, c)
      /\ hit' = [hit EXCEPT ![c] = FALSE]
      /\ failed' = failed \cup {r} /\ Goto(r, "reset")
      /\ UNCHANGED <<limit, spoiled>> /\ Elsewhere(r)

(* A script ends its transaction by itself and fails after that: what was written up
   to there stays. *)
QueryFailsHalfway(r) ==
  LET c == holds[r]
  IN  /\ pc[r] = "query" /\ Kind(r) = "end" /\ tx[c] # "aborted"
      /\ Commits(r, c)
      /\ hit' = [hit EXCEPT ![c] = FALSE]
      /\ failed' = failed \cup {r} /\ Goto(r, "reset")
      /\ UNCHANGED <<limit, spoiled>> /\ Elsewhere(r)

(* A read-only SELECT that was cut at the cap has not closed its cursor, behind
   which its COMMIT waits: the statement timeout may end the cursor, and then the
   COMMIT ends an aborted transaction, which is no error. *)
CursorTimesOut(r) ==
  LET c == holds[r]
  IN  /\ pc[r] = "stuck"
      /\ tx' = [tx EXCEPT ![c] = "none"] /\ pending' = [pending EXCEPT ![c] = {}]
      /\ Goto(r, "reset")
      /\ UNCHANGED <<limit, hit, failed, committed, spoiled>> /\ Elsewhere(r)

(* COMMIT *)
Commit(r) ==
  LET c == holds[r]
  IN  /\ pc[r] = "commit"
      /\ IF hit[c] THEN Fails(r, "aborted")
         ELSE Commits(r, c) /\ Goto(r, "reset") /\ UNCHANGED <<limit, hit, failed>>
      /\ UNCHANGED spoiled /\ Elsewhere(r)

(* Fault: an error of the handler leaves the transaction as it is. *)
RollbackSkipped(r) ==
  /\ pc[r] = "rollback"
  /\ Goto(r, "reset")
  /\ UNCHANGED <<tx, pending, hit, spoiled, limit, failed, committed>> /\ Elsewhere(r)

(* ROLLBACK, whose own failure is ignored. *)
Rollback(r) ==
  LET c == holds[r]
  IN  /\ pc[r] = "rollback"
      /\ IF hit[c]
           THEN /\ tx' = [tx EXCEPT ![c] = Aborted(c)] /\ spoiled' = spoiled \cup {c}
           ELSE /\ tx' = [tx EXCEPT ![c] = "none"] /\ UNCHANGED spoiled
      /\ pending' = [pending EXCEPT ![c] = {}]
      /\ hit' = [hit EXCEPT ![c] = FALSE]
      /\ Goto(r, "reset")
      /\ UNCHANGED <<limit, failed, committed>> /\ Elsewhere(r)

(* RESET statement_timeout, whose failure is ignored; the request is no longer
   registered and its client goes back to the pool. *)
Reset(r) ==
  LET c == holds[r]
      late == hit[c] /\ Kind(r) # "edit"
      kept == limit[c] /\ (Kind(r) = "edit" \/ late \/ tx[c] = "aborted")
      gone == IF homes'[c] = 0 THEN {c} ELSE {}
  IN  /\ pc[r] = "reset" /\ Release(r) /\ Begin
      /\ tx' = [tx EXCEPT ![c] = IF gone # {} THEN "none"
                                 ELSE IF late /\ @ # "none" THEN "aborted" ELSE @]
      /\ pending' = [pending EXCEPT ![c] = IF gone # {} \/ late THEN {} ELSE @]
      /\ limit' = [limit EXCEPT ![c] = kept /\ gone = {}]
      /\ hit' = [hit EXCEPT ![c] = FALSE]
      /\ spoiled' = IF gone # {} THEN spoiled \ {c}
                    ELSE IF late THEN spoiled \cup {c} ELSE spoiled
      /\ committed' = {q \in committed : q \in failed \/ pc'[q] # "done"}
      /\ UNCHANGED <<failed, aim>>

-----------------------------------------------------------------------------
(* cancel() *)

(* The backend is read from the map, then a client is connected. *)
RequestCancel(r) ==
  /\ running[r] # NoBackend /\ r \notin canceled
  /\ canceled' = canceled \cup {r} /\ aim' = [aim EXCEPT ![r] = running[r]]
  /\ UNCHANGED <<poolVars, job, pc, failed, running, session, committed>>

(* pg_cancel_backend() reaches whatever statement the backend runs by then. *)
CancelArrives(r) ==
  LET c == aim[r]
      busy == \E q \in Requests :
                holds[q] = c /\ pc[q] \in {"limit", "begin", "query", "commit", "rollback", "reset"}
  IN  /\ c # NoBackend
      /\ aim' = [aim EXCEPT ![r] = NoBackend]
      /\ hit' = [hit EXCEPT ![c] = @ \/ busy]
      /\ UNCHANGED <<poolVars, job, pc, failed, running, canceled, tx, pending, limit, spoiled,
                     committed>>

(* The map of pools, whose clients may be closed. *)
Manage ==
  /\ Administer \/ \E c \in Backends : IdleOut(c)
  /\ Fresh(Closing)
  /\ UNCHANGED <<job, pc, failed, cancels, committed>>

-----------------------------------------------------------------------------
Statement(r) ==
  \/ SetLimit(r) \/ BeginTransaction(r) \/ Query(r) \/ QueryFails(r)
  \/ QueryFailsHalfway(r) \/ Commit(r) \/ Rollback(r) \/ Reset(r)

Next ==
  \/ \E r \in Requests, d \in Databases, k \in Kinds, b \in BOOLEAN : Request(r, d, k, b)
  \/ \E r \in Requests : Connected(r) \/ NotConnected(r)
  \/ \E r \in Requests : Statement(r) \/ CursorTimesOut(r)
  \/ \E r \in Requests : RequestCancel(r) \/ CancelArrives(r)
  \/ Manage

Spec == Init /\ [][Next]_vars

(* A transaction of the grid or of the table editor has no timeout: its statements,
   and the deferred constraints of its COMMIT, wait for locks as long as they must. *)
Unlimited(r) == Kind(r) = "edit" /\ pc[r] \in {"query", "commit"}

(* Nothing but the server ends what it is at. *)
Kept(r) == pc[r] = "stuck" \/ Unlimited(r)

(* Connections are made or refused, the statements under a statement_timeout and
   those that take no lock end, and the walks of the map go on.  Nothing is assumed
   of a statement without a timeout and of a COMMIT behind an open cursor; a script
   that sets its own timeout to 0 is left out. *)
FairSpec ==
  /\ Spec
  /\ \A r \in Requests : /\ WF_vars(Connected(r) \/ NotConnected(r))
                         /\ WF_vars(~Kept(r) /\ Statement(r))
  /\ \A a \in Admins : WF_vars((Walk(a) \/ DeleteConnection(a) \/ Closed(a)) /\ Fresh(Closing)
                               /\ UNCHANGED <<job, pc, failed, cancels, committed>>)

-----------------------------------------------------------------------------
(* Properties *)

(* Once no update and no deletion is under way, every pool a request can get is
   one of the current settings (pg.ts:113, connections.service.ts:66). *)
PoolsFollowSettings ==
  (\A a \in Admins : admin[a].step \in {"idle", "done", "closing"}) =>
    \A p \in mapped : pools[p].version = settings

(* A client waits in its pool with no transaction and no timeout of an earlier
   request, unless a script left a transaction open or a cancel came so late
   that it hit the cleaning up (sql.service.ts:83, 86). *)
PoolIsClean ==
  \A c \in Backends \ spoiled : ~Held(c) => tx[c] = "none" /\ ~limit[c]

(* A request that was answered with an error has nothing in the database, neither by
   its own COMMIT nor by that of a later user of its client; only a script that ended
   its transaction by itself may have written before it failed (data.service.ts:187,
   inspector.service.ts:635, sql.service.ts:148). *)
FailuresWriteNothing == \A r \in failed \cap committed : Kind(r) = "end"

(* Every request comes to an end, and every update or deletion of the connection,
   which waits for the clients of its pools: only an edit that waits for a lock and
   a read-only SELECT that was cut at the cap may go on for ever, and only they keep
   an update or a deletion from its end, not the requests behind them (pg.ts:77, 95,
   118, sql.service.ts:73, 132). *)
EverythingEnds ==
  <>[] /\ \A r \in Requests : stage[r] \in {"idle", "done"} \/ Kept(r)
       /\ (\E r \in Requests : Kept(r)) \/ \A a \in Admins : admin[a].step \in {"idle", "done"}
=============================================================================
