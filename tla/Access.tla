------------------------------- MODULE Access -------------------------------
(***************************************************************************)
(* The way of a request through the server's routes: the access token is   *)
(* verified when the request arrives (plugins/auth.ts), the role that the  *)
(* token carries is checked before the handler runs, the handler asks      *)
(* whether the connection may be written to, awaits its service, and       *)
(* enters what was done in the audit log.  Between any two of these steps  *)
(* other requests run: one of them may take the caller's role away, or     *)
(* mark the connection as read-only.                                       *)
(*                                                                         *)
(* A route is the record of what its file says of it.  One connection      *)
(* stands for all; a request body that is refused (zod, a confirmation     *)
(* that does not match, a row that does not exist) is a request that       *)
(* fails.  Revoking tokens by a factory reset is in Accounts.              *)
(***************************************************************************)
EXTENDS Naturals, Functions

CONSTANTS Users, Root,
          Requests,
          Turning,       \* the requests tried with the routes that other requests notice
          MaxChanges,    \* how often roles and the read-only mark change
          MaxEvents      \* how often tokens expire or are renewed, or the process ends

Roles   == {"viewer", "editor", "admin"}
Level   == [viewer |-> 0, editor |-> 1, admin |-> 2]
Deleted == "deleted"

(* roles.ts *)
HasRole(actual, required) == Level[actual] >= Level[required]

-----------------------------------------------------------------------------
(* The routes *)

(* needs:  the role asked for; "viewer" is everybody who is signed in.
   gate:   what else is asked: assertWritable, READ ONLY transactions for those
           who may not write, or that the snippet is the caller's own.
   does:   whose business it is: reading, the caller's own lists, writing,
           managing users, connections and settings.
   where:  whose data changes, the managed server's, a scratch database that
           PgForge has made there, or PgForge's own.
   log:    the entry in the audit log: after the work, after work that had
           something to do, of any outcome, none, or one without the name of the
           caller. *)
Editing  == [needs |-> "editor", gate |-> "assert", does |-> "write", where |-> "server",
             steps |-> 1, log |-> "after", turns |-> "nothing"]

For(needs, route)    == [route EXCEPT !.needs = needs]
Gated(gate, route)   == [route EXCEPT !.gate = gate]
Logged(log, route)   == [route EXCEPT !.log = log]
InTwoSteps(route)    == [route EXCEPT !.steps = 2]
Turns(what, route)   == [route EXCEPT !.turns = what]
Doing(what, route)   == [route EXCEPT !.does = what]
Changing(place, route) == [route EXCEPT !.where = place]

Granting == For("admin", Editing)
Keeping  == Changing("home", Gated("none", Editing))
Dropping == Changing("scratch", Keeping)
Managing == For("admin", Doing("manage", Keeping))
Personal == For("viewer", Doing("own", Keeping))
Reading  == Logged("none", Doing("read", Personal))

(* inspector.routes.ts, up to truncate *)
CatalogRoutes ==
  [listDatabases |-> Reading,  createDatabase |-> Editing, dropDatabase |-> Granting,
   listSchemas   |-> Reading,  createSchema   |-> Editing, listTables   |-> Reading,
   listRoutines  |-> Reading,  listSequences  |-> Reading, getStructure |-> Reading,
   autocomplete  |-> Reading,  drop           |-> Editing, truncate     |-> Editing]

(* The rest of inspector.routes.ts.  alterTable is a batch in one transaction. *)
DefinitionRoutes ==
  [createTable    |-> Editing, alterTable      |-> Editing, createIndex    |-> Editing,
   maintenance    |-> Editing, createSequence  |-> Editing, restartSequence |-> Editing,
   refreshMatview |-> Editing]

DataRoutes ==
  [queryRows  |-> Reading, insertRow |-> Editing, updateRow |-> Editing,
   deleteRows |-> Editing, importCsv |-> Editing,
   export     |-> Logged("after", Reading)]

(* An execution is logged whether it succeeds or not, a viewer's too. *)
SqlRoutes ==
  [execute |-> Logged("always", Gated("transaction", For("viewer", Editing))),
   explain |-> Logged("none", Gated("transaction", For("viewer", Editing))),
   cancel       |-> Reading, history    |-> Reading, listSaved  |-> Reading,
   clearHistory |-> Logged("none", Personal),
   createSaved  |-> Personal,
   updateSaved  |-> Gated("author", Personal),
   deleteSaved  |-> Gated("author", Personal)]

(* Fault: the grants do not ask whether the connection may be written to. *)
RoleRoutesUnasked ==
  [applyGrant |-> Gated("none", Granting), revoke |-> Gated("none", Granting)]

(* A role and its memberships are several statements, in no transaction. *)
RoleRoutes ==
  [list       |-> Reading,  create |-> InTwoSteps(Granting),
   update     |-> InTwoSteps(Granting),
   dropRole   |-> Granting, tableGrants |-> Reading,
   applyGrant |-> Granting, revoke |-> Granting]

(* Signals to other sessions change no data and are not held back.  They are logged
   as sent, whether or not the backend was still there. *)
MonitorRoutes ==
  [sessions |-> Reading, cancelBackend |-> Keeping,
   terminateBackend |-> For("admin", Keeping),
   locks |-> Reading, dbStats |-> Reading, tableStats |-> Reading,
   slowQueries |-> Reading, advise |-> Reading]

(* A restore into a new database and an inspection first create it.  Closing an
   inspection drops its database on the server, and so does the deletion of a
   backup that has one: neither asks the connection, and a DROP that fails is
   ignored. *)
BackupRoutes ==
  [list     |-> Reading, create |-> Keeping, byId |-> Reading,
   download |-> Logged("after", Reading),
   delete   |-> Dropping,
   restore  |-> InTwoSteps(Editing),
   getInspection   |-> Reading,
   startInspection |-> InTwoSteps(Editing),
   closeInspection |-> Dropping]

(* The rest of backup.routes.ts; only creating a schedule asks the connection.  A
   cancel is logged when there was a job to cancel. *)
JobRoutes ==
  [restoreUpload |-> Editing, migrate |-> InTwoSteps(Editing),
   job |-> Reading, cancelJob |-> Logged("effect", Keeping),
   listSchedules  |-> Reading, preview |-> Reading,
   createSchedule |-> Gated("assert", Keeping),
   updateSchedule |-> Keeping, deleteSchedule |-> Keeping,
   runSchedule    |-> Logged("anonymous", Keeping)]

(* Restoring a bundle asks no connection whether it may be written to. *)
ClusterRoutes ==
  [list |-> Reading, databases |-> Reading, create |-> Keeping, byId |-> Reading,
   contents |-> Reading, download |-> Logged("after", Reading),
   restore  |-> Gated("none", Editing),
   delete   |-> Keeping]

ConnectionRoutes ==
  [list |-> Reading, get |-> Reading, test |-> Reading, overview |-> Reading,
   create |-> Managing, delete |-> Managing,
   update |-> Turns("readOnly", Managing)]

UserRoutes ==
  [me |-> Reading, listUsers |-> For("admin", Reading),
   createUser |-> Managing,
   updateUser |-> Turns("role", Managing),
   deleteUser |-> Turns("role", Managing)]

(* The letter may fail; the invitation is there, and is logged, all the same. *)
InvitationRoutes ==
  [list |-> For("admin", Reading), create |-> Managing, revoke |-> Managing]

DeliveryRoutes ==
  [getSettings  |-> For("admin", Reading), channels |-> Reading,
   telegramInfo |-> For("admin", Reading),
   saveSettings |-> Managing, test |-> Logged("always", Managing),
   send |-> Keeping]

(* Trying a target may create its database, and is not logged. *)
SystemRoutes ==
  [status |-> For("admin", Reading),
   test   |-> Logged("none", Managing), save |-> Managing, disable |-> Managing,
   flush  |-> Logged("none", Managing),
   reveal |-> Logged("after", For("admin", Reading))]

AuditRoutes ==
  [query |-> For("admin", Reading),
   distinctActions |-> For("admin", Reading)]

SearchRoutes  == [search |-> Reading]
DiagramRoutes == [graph |-> Reading]

(* app.ts: what is behind authenticate *)
Routes ==
  UNION {Range(CatalogRoutes), Range(DefinitionRoutes), Range(DataRoutes), Range(SqlRoutes),
         Range(RoleRoutes), Range(MonitorRoutes), Range(BackupRoutes), Range(JobRoutes),
         Range(ClusterRoutes), Range(ConnectionRoutes), Range(UserRoutes),
         Range(InvitationRoutes), Range(DeliveryRoutes), Range(SystemRoutes),
         Range(AuditRoutes), Range(SearchRoutes), Range(DiagramRoutes)}

-----------------------------------------------------------------------------
VARIABLES
  role,       \* the stored role of an account
  token,      \* its access token: the role signed into it, and whether it is still good
  lately,     \* every role the account has had since the token was issued
  readOnly,   \* the mark of the connection
  req,
  changes, events   \* what has been used of the bounds

vars == <<role, token, lately, readOnly, req, changes, events>>

Nothing == [at |-> "idle"]
Ended   == {"answered", "refused", "failed", "cut"}
Running == {"accepted", "working", "done"}

Init ==
  /\ role \in {r \in [Users -> Roles] : r[Root] = "admin"}
  /\ token  = [u \in Users |-> [role |-> role[u], live |-> TRUE]]
  /\ lately = [u \in Users |-> {role[u]}]
  /\ readOnly \in BOOLEAN
  /\ req = [r \in Requests |-> Nothing]
  /\ changes = 0 /\ events = 0

Happens == events < MaxEvents /\ events' = events + 1

(* Fifteen minutes after it was issued a token is no longer accepted. *)
Expire(u) ==
  /\ Happens
  /\ token[u].live
  /\ token'  = [token EXCEPT ![u].live = FALSE]
  /\ lately' = [lately EXCEPT ![u] = {role[u]} \ {Deleted}]
  /\ UNCHANGED <<role, readOnly, req, changes>>

(* A login or a refresh signs the role the account has now. *)
SignAccessToken(u) ==
  /\ Happens
  /\ role[u] # Deleted
  /\ token'    = [token EXCEPT ![u] = [role |-> role[u], live |-> TRUE]]
  /\ lately'   = [lately EXCEPT ![u] = {role[u]}]
  /\ UNCHANGED <<role, readOnly, req, changes>>

(* The hook of the protected routes: from here on the caller is who the token
   says.  might is what the caller has been allowed to do. *)
Authenticate(r, u, route, mine) ==
  /\ req[r] = Nothing
  /\ r \in Turning <=> route.turns # "nothing"
  /\ route.gate # "author" => mine
  /\ token[u].live
  /\ req' = [req EXCEPT ![r] =
       [at |-> "accepted", by |-> token[u].role, route |-> route, mine |-> mine,
        might |-> lately[u], marked |-> FALSE, did |-> 0, entry |-> "none"]]
  /\ UNCHANGED <<role, token, lately, readOnly, changes, events>>

(* Fault: nothing but the mark of the connection is asked for. *)
AdmittedEverywhere(q) == q.route.gate \in {"assert", "transaction"} => ~readOnly

(* assertWritable, assertCanWrite, and the transaction of the SQL service, which
   refuses what is no query *)
Admitted(q) ==
  CASE q.route.gate = "assert"      -> ~readOnly
    [] q.route.gate = "transaction" -> ~readOnly /\ q.by # "viewer"
    [] q.route.gate = "author"      -> q.mine \/ q.by = "admin"
    [] OTHER                        -> TRUE

(* requireRole, and the handler up to its service *)
Handle(r) ==
  /\ req[r].at = "accepted"
  /\ req' = [req EXCEPT
       ![r].at     = IF HasRole(req[r].by, req[r].route.needs) /\ Admitted(req[r])
                     THEN "working" ELSE "refused",
       ![r].marked = readOnly]
  /\ UNCHANGED <<role, token, lately, readOnly, changes, events>>

Turn(kind) ==
  CASE kind = "role" ->
         /\ changes < MaxChanges /\ changes' = changes + 1
         /\ \E u \in Users \ {Root}, new \in Roles \cup {Deleted} :
              /\ role[u] # Deleted
              /\ role'   = [role EXCEPT ![u] = new]
              /\ lately' = [lately EXCEPT ![u] = @ \cup ({new} \ {Deleted})]
         /\ UNCHANGED readOnly
    [] kind = "readOnly" ->
         /\ changes < MaxChanges /\ changes' = changes + 1
         /\ readOnly' = ~readOnly
         /\ UNCHANGED <<role, lately>>
    [] OTHER -> UNCHANGED <<role, lately, readOnly, changes>>

(* One step of the service takes effect. *)
Work(r) ==
  /\ req[r].at = "working"
  /\ Turn(req[r].route.turns)
  /\ LET did == req[r].did + 1 IN
       req' = [req EXCEPT ![r].did = did,
                          ![r].at  = IF did = req[r].route.steps THEN "done" ELSE "working"]
  /\ UNCHANGED <<token, events>>

(* There is nothing to do: the job is unknown here, or has ended.  The answer says
   so. *)
Miss(r) ==
  /\ req[r].at = "working" /\ req[r].did = 0
  /\ req[r].route.log = "effect"
  /\ req' = [req EXCEPT ![r].at = "done"]
  /\ UNCHANGED <<role, token, lately, readOnly, changes, events>>

(* Fault: whatever happened is logged. *)
FailLogged(r) ==
  /\ req[r].at = "working"
  /\ req' = [req EXCEPT ![r].at = "failed", ![r].entry = "named"]
  /\ UNCHANGED <<role, token, lately, readOnly, changes, events>>

(* The service throws: before its work, between two steps of it, or when the
   answer of the managed server is lost.  Only an execution is logged then. *)
Fail(r) ==
  /\ req[r].at \in {"working", "done"}
  /\ req[r].at = "done" => req[r].route.where = "server"
  /\ req' = [req EXCEPT ![r].at = "failed",
                        ![r].entry = IF req[r].route.log = "always" THEN "named" ELSE "none"]
  /\ UNCHANGED <<role, token, lately, readOnly, changes, events>>

(* Fault: a cancel is logged whatever it found. *)
EntryAnyway(q) ==
  CASE q.route.log = "none"      -> "none"
    [] q.route.log = "anonymous" -> "anonymous"
    [] OTHER                     -> "named"

(* What is entered of a request that is answered. *)
Entry(q) ==
  CASE q.route.log = "none" \/ (q.route.log = "effect" /\ q.did = 0) -> "none"
    [] q.route.log = "anonymous" -> "anonymous"
    [] OTHER                     -> "named"

(* audit.log, and the reply *)
Log(r) ==
  /\ req[r].at = "done"
  /\ req' = [req EXCEPT ![r].at = "answered", ![r].entry = Entry(req[r])]
  /\ UNCHANGED <<role, token, lately, readOnly, changes, events>>

(* The process ends.  Tokens are signed with a key that is kept. *)
Restart ==
  /\ Happens
  /\ req' = [r \in Requests |-> IF req[r].at \in Running
                                THEN [req[r] EXCEPT !.at = "cut"] ELSE req[r]]
  /\ UNCHANGED <<role, token, lately, readOnly, changes>>

Next ==
  \/ \E u \in Users : Expire(u) \/ SignAccessToken(u)
  \/ \E r \in Requests, u \in Users, route \in Routes, mine \in BOOLEAN :
       Authenticate(r, u, route, mine)
  \/ \E r \in Requests : Handle(r) \/ Work(r) \/ Miss(r) \/ Fail(r) \/ Log(r)
  \/ Restart

Spec == Init /\ [][Next]_vars

-----------------------------------------------------------------------------
(* What the roles promise (web/src/i18n/en.ts:464): viewers only read, editors
   write, administrators manage users and connections. *)
Promised == [read |-> "viewer", own |-> "viewer", write |-> "editor", manage |-> "admin"]

Effective == {r \in Requests : req[r] # Nothing /\ req[r].did > 0}

(* Whatever happens was asked for by somebody who has been allowed to do it at
   some time since the token was issued: a role that was taken away is good for
   one token's life, and for the requests that began in it.  Snippets of others
   are changed by administrators only (plugins/auth.ts:43, routes). *)
RolesAreKept ==
  \A r \in Effective :
    /\ \E had \in req[r].might : HasRole(had, Promised[req[r].route.does])
    /\ req[r].route.gate = "author" => req[r].mine \/ "admin" \in req[r].might

(* Nothing is written through a connection that was marked read-only when the
   handler began, as the form promises (en.ts:100). *)
ReadOnlyBlocksWrites ==
  \A r \in Effective : ~(req[r].marked /\ req[r].route.where # "home")

(* The routes that change the server and do not ask: the restore of a whole server
   (cluster.routes.ts:94), and the two that drop the scratch database of an
   inspection (backup.routes.ts:110, 163). *)
Unasked == {ClusterRoutes.restore, BackupRoutes.delete, BackupRoutes.closeInspection}

(* The same, but for the routes that do not ask. *)
ReadOnlyIsKept ==
  \A r \in Effective :
    req[r].marked /\ req[r].route.where # "home" => req[r].route \in Unasked

(* What was done and answered is in the log under the caller's name, but for the
   routes that log nothing and the scheduled run; and what the log names was done
   to the end, but for the attempts that are logged as such: a cancel that found no
   job to cancel is not there (README.md:23, backup.routes.ts:228). *)
LogIsTrue ==
  \A r \in Requests : req[r] # Nothing =>
    /\ /\ req[r].at = "answered" /\ req[r].did > 0 /\ req[r].route.does # "read"
       /\ req[r].route \notin {SystemRoutes.flush, SqlRoutes.explain, SqlRoutes.clearHistory}
       => req[r].entry = "named" \/ req[r].route = JobRoutes.runSchedule
    /\ req[r].entry # "none" /\ req[r].route.log # "always" => req[r].did = req[r].route.steps

RequestsAreSound == RolesAreKept /\ ReadOnlyIsKept /\ LogIsTrue
=============================================================================
