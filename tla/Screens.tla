------------------------------- MODULE Screens -------------------------------
(***************************************************************************)
(* The pages of the browser and the query cache behind them.  A page       *)
(* mounts its queries; a change made on a page ends with a list of queries *)
(* to invalidate.  Which pages show what, and which changes invalidate     *)
(* what, are tables, one per file of web/src/features; a behaviour takes   *)
(* one query and one change and follows them through the cache of          *)
(* @tanstack/react-query, with the user turning pages, requests read and   *)
(* answered in any order, and answers that are lost.                       *)
(*                                                                         *)
(* All queries are of one connection, database, schema and table, but      *)
(* "structure of another" table, which the first refers to or is referred  *)
(* to by.  Sizes and estimates, the audit log, and what a script typed     *)
(* into the SQL page does are left out, and so are the queries that poll   *)
(* for ever (monitor) or that no page changes (meta, advice).              *)
(***************************************************************************)
EXTENDS Naturals

CONSTANT MaxVisits   \* pages opened

-----------------------------------------------------------------------------
(* Several tables as one; no row is in two of them. *)
Together(tables) ==
  [row \in UNION {DOMAIN t : t \in tables} |-> (CHOOSE t \in tables : row \in DOMAIN t)[row]]

(* What the answers tell (server/src/modules) *)

(* inspector.service.ts: listDatabases to listTables *)
CatalogReads ==
  [databases |-> {"databases"}, schemas |-> {"schemas", "relations"}, tables |-> {"relations", "names", "comments"}]

(* getColumns, getPrimaryKey, getStructure and foreignKeys *)
StructureReads ==
  [structure |-> {"names", "comments", "columns", "constraints", "indexes", "triggers", "incoming"},
   elsewhere |-> {"incoming"},      \* the structure of another table
   rows      |-> {"rows", "columns"}]

(* listRoutines, listSequences, autocomplete *)
ObjectReads ==
  [routines |-> {"routines"}, sequences |-> {"sequences"},
   autocomplete |-> {"relations", "names", "columns"}]

(* search.service.ts and erd.service.ts *)
SearchReads == [search |-> {"databases", "schemas", "relations", "names", "columns", "routines"}]
DiagramReads == [erd |-> {"relations", "names", "columns", "constraints"}]

(* connections.service.ts: overview counts the databases *)
OverviewReads == [overview |-> {"databases"}]

(* The queries that answer rows of the metadata, and roles and grants. *)
ListReads ==
  [connections |-> {"connections"}, history |-> {"history"}, saved |-> {"saved"},
   pgRoles |-> {"roles"}, grants |-> {"grants"},
   backups |-> {"backups"}, schedules |-> {"schedules"}, bundles |-> {"bundles"},
   clusterDatabases |-> {"databases"}, backup |-> {"backup"}, inspection |-> {"inspections"},
   users |-> {"users"}, invitations |-> {"invitations"}, deliverySettings |-> {"delivery"},
   deliveryChannels |-> {"delivery"}, telegramInfo |-> {"delivery"}, target |-> {"target"}]

Reads ==
  Together({CatalogReads, StructureReads, ObjectReads, SearchReads, DiagramReads,
            OverviewReads, ListReads})
Queries == DOMAIN Reads

-----------------------------------------------------------------------------
(* What the pages show *)

Workspace == {"connections", "databases", "search"}   \* header, switcher and palette
Tree      == Workspace \cup {"schemas", "tables"}

(* ExplorerPage.tsx; its Structure tab opens the form of foreign keys, which
   reads another table. *)
ExplorerShows ==
  [data      |-> Tree \cup {"rows", "structure"},
   structure |-> Tree \cup {"structure", "grants", "pgRoles", "elsewhere"},
   tableSql  |-> Tree \cup {"autocomplete"},
   routines  |-> Tree \cup {"routines"},
   sequences |-> Tree \cup {"sequences"},
   nothing   |-> Tree,
   another   |-> Tree \cup {"elsewhere"}]

(* App.tsx and the pages it routes to *)
PageShows ==
  [home     |-> {"connections"},
   overview |-> {"connections", "overview", "databases", "search"},
   sql      |-> Workspace \cup {"autocomplete", "history", "saved"},
   erd      |-> Workspace \cup {"schemas", "erd"},
   roles    |-> Workspace \cup {"pgRoles"},
   audit    |-> {"connections"}]

(* BackupsPage.tsx, its tabs, its dialogs, and the page of an inspection *)
BackupShows ==
  [backups   |-> Workspace \cup {"backups", "deliveryChannels"},
   schedules |-> Workspace \cup {"backups", "schedules"},
   bundles   |-> Workspace \cup {"backups", "bundles", "clusterDatabases"},
   inspect   |-> {"connections", "search", "backup", "inspection"}]

(* SettingsPage.tsx shows its panels below one another. *)
SettingsShows ==
  [settings |-> {"users", "invitations", "deliverySettings", "telegramInfo", "target"}]

Shows == Together({ExplorerShows, PageShows, BackupShows, SettingsShows})
Views == DOMAIN Shows

(* A branch of the tree may be folded, the palette, a form or a side pane closed. *)
Folds == {"schemas", "tables", "search", "grants", "elsewhere", "pgRoles", "history", "saved",
          "deliveryChannels", "clusterDatabases", "telegramInfo"}

-----------------------------------------------------------------------------
(* What the pages change.  on: the views that offer it; writes: what it changes on
   the server; drops: what its success invalidates; sets: what it fills in; opens:
   where it takes the user. *)

Change(on, writes, drops) ==
  [on |-> on, writes |-> writes, drops |-> drops, sets |-> {}, opens |-> "stay"]
Leading(change, v) == [change EXCEPT !.opens = v]

TreeViews  == DOMAIN ExplorerShows
TableViews == {"data", "structure"}
OfTable    == {"relations", "columns", "constraints", "indexes", "triggers", "rows", "incoming"}

(* Fault: the rows of a table that was altered are taken for fresh. *)
DdlInvalidatesTree(onTable) ==
  {"tables", "autocomplete", "sequences"} \cup (IF onTable THEN {"structure"} ELSE {})

(* useDdlMutation of ddl-dialogs.tsx: onTable is false when it is given no table *)
DdlInvalidates(onTable) ==
  {"tables", "autocomplete", "sequences"} \cup (IF onTable THEN {"structure", "rows"} ELSE {})

(* The forms *)
CreateTableForm ==
  [createTable |-> Leading(Change(TreeViews, {"relations", "sequences"}, DdlInvalidates(FALSE)),
                           "another")]
ColumnForm ==
  [editColumn |-> Change(TableViews, {"columns", "constraints", "incoming"}, DdlInvalidates(TRUE))]
RenameForm ==
  [renameTable |-> Leading(Change({"structure"}, {"names", "incoming"}, DdlInvalidates(TRUE)),
                           "another")]
IndexForm    == [createIndex |-> Change({"structure"}, {"indexes"}, DdlInvalidates(TRUE))]
SequenceForm == [createSequence |-> Change(TreeViews, {"sequences"}, DdlInvalidates(FALSE))]
ReferenceForm ==
  [addForeignKey |-> Change({"structure"}, {"constraints", "incoming"}, DdlInvalidates(TRUE))]
CheckForm    == [addCheck |-> Change({"structure"}, {"constraints"}, DdlInvalidates(TRUE))]
CommentForm  == [editComment |-> Change({"structure"}, {"comments"}, DdlInvalidates(TRUE))]
RestartForm  ==
  [restartSequence |-> Change({"sequences"}, {"sequences"}, DdlInvalidates(FALSE))]
DdlForms ==
  Together({CreateTableForm, ColumnForm, RenameForm, IndexForm, SequenceForm,
            ReferenceForm, CheckForm, CommentForm, RestartForm})

(* StructureView.tsx: a dropped relation leaves the page, all else calls
   invalidateAll. *)
InvalidateAll == {"structure", "tables", "rows"}
StructureChanges ==
  [dropTable      |-> Leading(Change({"structure"}, OfTable \cup {"sequences", "grants"}, {"tables"}),
                             "nothing"),
   dropIndex      |-> Change({"structure"}, {"indexes", "constraints"}, InvalidateAll),
   dropTrigger    |-> Change({"structure"}, {"triggers"}, InvalidateAll),
   truncate       |-> Change({"structure"}, {"rows", "sequences"}, InvalidateAll),
   refreshMatview |-> Change({"structure"}, {"rows"}, InvalidateAll),
   dropColumn     |-> Change({"structure"}, {"columns", "constraints", "indexes", "incoming", "rows"},
                             InvalidateAll),
   dropConstraint |-> Change({"structure"}, {"constraints", "indexes", "incoming"}, InvalidateAll)]

(* DataGrid.tsx and RowEditor.tsx *)
GridChanges ==
  [changeRows     |-> Change({"data"}, {"rows"}, {"rows"}),
   dropGridColumn |-> Change({"data"}, {"columns", "constraints", "indexes", "incoming", "rows"},
                             {"rows", "structure"})]

(* SchemaTree.tsx and its two forms *)
TreeChanges ==
  [dropDatabase |-> Change(TreeViews, {"databases"}, {"databases", "overview"}),
   dropSchema   |-> Change(TreeViews, OfTable \cup {"schemas", "routines", "sequences", "grants"},
                           {"schemas"})]
TreeForms ==
  [createSchema   |-> Change(TreeViews, {"schemas"}, {"schemas"}),
   createDatabase |-> Change(TreeViews, {"databases"}, {"databases", "overview"})]

(* RoutinesPanel.tsx *)
RoutineChanges  == [dropRoutine  |-> Change({"routines"}, {"routines"}, {"routines"})]
SequenceChanges == [dropSequence |-> Change({"sequences"}, {"sequences"}, {"sequences"})]

GrantChanges == [revokeGrant |-> Change({"structure"}, {"grants"}, {"grants"})]
GrantForm    == [applyGrant  |-> Change({"structure"}, {"grants"}, {"grants"})]
RoleChanges  == [dropRole    |-> Change({"roles"}, {"roles"}, {"pgRoles"})]
RoleForm     == [saveRole    |-> Change({"roles"}, {"roles"}, {"pgRoles"})]

OverviewChanges == [loseDatabase |-> Change({"overview"}, {"databases"}, {"databases"})]
OverviewForm    == [makeDatabase |-> Change({"overview"}, {"databases"}, {"databases"})]

(* SqlPage.tsx, its panes, and InlineSqlPane.tsx *)
SqlChanges     == [execute      |-> Change({"sql"}, {"history"}, {"history"})]
HistoryChanges == [clearHistory |-> Change({"sql"}, {"history"}, {"history"})]
SavedChanges   == [removeQuery  |-> Change({"sql"}, {"saved"}, {"saved"})]
SaveForm       == [saveQuery    |-> Change({"sql"}, {"saved"}, {"saved"})]
InlineChanges  == [executeInline |-> Change({"tableSql"}, {"history"}, {})]

(* BackupsPage.tsx and the forms it opens: a run of a schedule also enters the
   time it ran. *)
BackupChanges ==
  [deleteBackup   |-> Change({"backups"}, {"backups", "backup", "inspections"}, {"backups"}),
   deleteSchedule |-> Change({"schedules"}, {"schedules"}, {"schedules"}),
   runSchedule    |-> Change({"schedules"}, {"backups", "schedules"}, {"backups"})]
BackupForm   == [createBackup |-> Change({"backups"}, {"backups"}, {"backups"})]
ScheduleForm == [saveSchedule |-> Change({"schedules"}, {"schedules"}, {"schedules"})]

ClusterChanges == [removeBundle |-> Change({"bundles"}, {"bundles"}, {"bundles"})]
ClusterForm    == [createBundle |-> Change({"bundles"}, {"bundles"}, {"bundles"})]
InspectChanges ==
  [startInspection |-> Change({"inspect"}, {"inspections"}, {"inspection"}),
   closeInspection |-> Leading(Change({"inspect"}, {"inspections"}, {"inspection"}), "backups")]

ConnectionChanges == [saveConnection   |-> Change({"home"}, {"connections"}, {"connections"})]
HomeChanges       == [removeConnection |-> Change({"home"}, {"connections"}, {"connections"})]
UserChanges       == [removeUser |-> Change({"settings"}, {"users"}, {"users"})]
UserForm          == [saveUser |-> Change({"settings"}, {"users"}, {"users"})]
InviteChanges     == [invite |-> Change({"settings"}, {"invitations"}, {"invitations"})]
TargetChanges     == [moveMetadata |-> Change({"settings"}, {"target"}, {"target"})]

(* DeliveryPanel.tsx fills in the settings it is answered. *)
DeliveryChanges ==
  [saveDelivery |-> [on |-> {"settings"}, writes |-> {"delivery"},
                     drops |-> {"deliveryChannels", "telegramInfo"}, sets |-> {"deliverySettings"},
                     opens |-> "stay"]]

Changes ==
  Together({DdlForms, StructureChanges, GridChanges, TreeChanges, TreeForms,
            RoutineChanges, SequenceChanges, GrantChanges, GrantForm, RoleChanges,
            RoleForm, OverviewChanges, OverviewForm, SqlChanges, HistoryChanges,
            SavedChanges, SaveForm, InlineChanges, BackupChanges, BackupForm,
            ScheduleForm, ClusterChanges, ClusterForm, InspectChanges,
            ConnectionChanges, HomeChanges, UserChanges, UserForm, InviteChanges,
            TargetChanges, DeliveryChanges})

-----------------------------------------------------------------------------
VARIABLES
  query, change,   \* what this behaviour follows
  view, mounted,   \* the page, and whether it mounts the query
  cache, dirty,    \* "none", or data from before or after the change; isInvalidated
  fetch,           \* "none", "asked", or the answer that is on its way
  call,            \* the change: "idle", "sent", "made", "done", "lost" or "refused"
  \* auxiliary
  overtaken,       \* an answer older than the change was left on its way when it ended
  failed,          \* the last fetch failed
  visits

cached == <<cache, dirty, fetch>>
vars   == <<query, change, view, mounted, cached, call, overtaken, failed, visits>>

Affected(q, c) == Reads[q] \cap Changes[c].writes # {}
Mountings(v)   == {b \in BOOLEAN : IF b THEN query \in Shows[v]
                                   ELSE query \notin Shows[v] \/ query \in Folds}

Init ==
  /\ query \in Queries /\ change \in {c \in DOMAIN Changes : Affected(query, c)}
  /\ view \in Views /\ mounted \in Mountings(view)
  /\ fetch = IF mounted THEN "asked" ELSE "none"
  /\ cache = "none" /\ dirty = FALSE /\ call = "idle"
  /\ overtaken = FALSE /\ failed = FALSE /\ visits = 0

(* Fault: only the age of the data counts. *)
MountByAge(under, has, marked, stale) ==
  IF under = "none" /\ (has = "none" \/ stale) THEN "asked" ELSE under

(* The fetch that begins when the query is mounted: if it has no data, is
   invalidated, or is older than its staleTime. *)
Mount(under, has, marked, stale) ==
  IF under = "none" /\ (has = "none" \/ marked \/ stale) THEN "asked" ELSE under

(* A page is opened, or a part of it unfolded. *)
Open(v) ==
  /\ visits < MaxVisits /\ visits' = visits + 1
  /\ view' = v
  /\ \E shown \in Mountings(v), stale \in BOOLEAN :
       /\ mounted' = shown
       /\ fetch' = IF shown /\ ~mounted THEN Mount(fetch, cache, dirty, stale) ELSE fetch
       /\ failed' = (failed /\ fetch' = "none")
  /\ UNCHANGED <<query, change, cache, dirty, call, overtaken>>

Made == call \in {"made", "done", "lost"}

(* The server answers a fetch with what it holds then. *)
Read ==
  /\ fetch = "asked"
  /\ fetch' = IF Made THEN "after" ELSE "before"
  /\ UNCHANGED <<query, change, view, mounted, cache, dirty, call, overtaken, failed, visits>>

Arrive ==
  /\ fetch \in {"before", "after"}
  /\ cache' = fetch /\ dirty' = FALSE /\ fetch' = "none" /\ failed' = FALSE
  /\ UNCHANGED <<query, change, view, mounted, call, overtaken, visits>>

(* A fetch fails, its retries too. *)
FetchFails ==
  /\ fetch # "none" /\ fetch' = "none" /\ failed' = TRUE
  /\ UNCHANGED <<query, change, view, mounted, cache, dirty, call, overtaken, visits>>

Submit ==
  /\ call = "idle" /\ view \in Changes[change].on
  /\ call' = "sent"
  /\ UNCHANGED <<query, change, view, mounted, cached, overtaken, failed, visits>>

(* The server makes the change, or refuses it. *)
Serve ==
  /\ call = "sent" /\ call' \in {"made", "refused"}
  /\ UNCHANGED <<query, change, view, mounted, cached, overtaken, failed, visits>>

LoseReply ==
  /\ call = "made" /\ call' = "lost"
  /\ UNCHANGED <<query, change, view, mounted, cached, overtaken, failed, visits>>

(* invalidateQueries fetches a marked query anew if it is mounted; its fetch under
   way is given up only if there are data to go back to. *)
Refetch == IF mounted /\ (cache # "none" \/ fetch = "none") THEN "asked" ELSE fetch

(* onSuccess, wherever the user is by now.  The page it opens is mounted after
   its callback has run. *)
Reply ==
  /\ call = "made" /\ call' = "done"
  /\ LET c      == Changes[change]
         marked == query \in c.drops
         filled == query \in c.sets
         under  == IF marked THEN Refetch ELSE fetch
         v      == IF c.opens = "stay" THEN view ELSE c.opens
     IN  /\ cache' = IF filled THEN "after" ELSE cache
         /\ dirty' = (marked \/ (dirty /\ ~filled))
         /\ view'  = v
         /\ \E shown \in IF v = view THEN {mounted} ELSE Mountings(v), stale \in BOOLEAN :
              /\ mounted' = shown
              /\ fetch' = IF shown /\ ~mounted THEN Mount(under, cache', dirty', stale) ELSE under
         /\ failed' = (failed /\ fetch' = "none")
  /\ overtaken' = (fetch' = "before")
  /\ UNCHANGED <<query, change, visits>>

Next ==
  \/ \E v \in Views : Open(v)
  \/ Read \/ Arrive \/ FetchFails
  \/ Submit \/ Serve \/ LoseReply \/ Reply

Spec == Init /\ [][Next]_vars

-----------------------------------------------------------------------------
(* What the tables leave out: the answers that a change makes old and does not
   invalidate, until they are older than their staleTime and a page mounts them. *)
KnownGaps ==
  LET dropped == {"dropTable", "dropSchema"} IN
  UNION {{"erd", "search", "elsewhere"} \X DOMAIN Changes,
         {"schemas"} \X {"createTable", "dropTable"},
         {"tables", "routines"} \X {"dropSchema"},
         {"structure", "rows", "grants", "sequences"} \X dropped,
         {"autocomplete"} \X (dropped \cup {"dropColumn", "dropGridColumn"}),
         {"sequences"} \X {"truncate"},
         {"overview"} \X {"makeDatabase", "loseDatabase"},
         {"clusterDatabases"} \X
           {"makeDatabase", "loseDatabase", "createDatabase", "dropDatabase"},
         {"history"} \X {"executeInline"},
         {"schedules"} \X {"runSchedule"},
         {"backup", "inspection"} \X {"deleteBackup"}}

(* After a change has been acknowledged no page goes on showing what it replaced:
   the query is marked or on its way, wherever the user went meanwhile; and what is
   marked is not left on a page, unless its fetch failed.  The exceptions are the gaps
   above, and an answer that was on its way when the query had no data or no page. *)
ShowsOwnChanges ==
  /\ call = "done" /\ cache = "before" /\ ~overtaken /\ <<query, change>> \notin KnownGaps
     => dirty \/ fetch \in {"asked", "after"}
  /\ mounted /\ dirty /\ fetch = "none" => failed
=============================================================================
