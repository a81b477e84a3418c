------------------------------- MODULE SqlPage -------------------------------
(***************************************************************************)
(* The SQL page of one window and the SQL pane of its explorer: tabs that  *)
(* are kept per connection in the browser, drafts kept per table, one      *)
(* statement under way at a time, whose answer may come when the user has  *)
(* gone elsewhere, and the question asked before EXPLAIN ANALYZE runs a    *)
(* statement that writes.  The address of the page names the connection    *)
(* and the database; it changes under the page and its dialogs.  Another   *)
(* window of the browser has the same lists of tabs.                       *)
(*                                                                         *)
(* A database has one table.  Texts are numbered in the order they are     *)
(* typed; 0 is an empty one.  A behaviour runs statements or asks the      *)
(* question.  The server's side is in SqlService.                          *)
(***************************************************************************)
EXTENDS Naturals, Sequences, SequencesExt, FiniteSets, Functions

CONSTANTS Connections, Databases,
          MaxTabs,      \* tabs that are ever made
          MaxTexts, MaxRuns, MaxMoves

None == [is |-> "none"]

VARIABLES
  page, conn, db,      \* "away", "sql" or "inline", and the address
  lists,               \* localStorage: the tabs of each connection
  state,               \* the tabs of the page
  drafts,              \* texts of the pane, by connection and database
  response, running, pending,   \* what the page shows of its statements, by number
  asking,              \* the question before EXPLAIN ANALYZE
  stash,               \* sessionStorage: a text on its way to the page
  execs,               \* statements sent, with where they were sent from
  mount,               \* how often a page has been mounted
  \* auxiliary
  typed,               \* the last text of every tab that was not closed, and where
  analyzed,            \* the questions that were confirmed
  strayed,             \* the answer that is shown came late, or what it belongs to has gone
  moved,               \* the address has changed under the question
  foreign,             \* a list was written by another window, or for another connection
  ids, texts, moves

places   == <<page, conn, db>>
shown    == <<response, running, pending, strayed>>
question == <<asking, analyzed, moved>>
vars     == <<places, lists, state, drafts, shown, question, stash, execs, mount, typed, foreign,
              ids, texts, moves>>

NoTabs  == [tabs |-> <<>>, active |-> 0]
Key     == <<conn, db>>
Showing == CASE page = "sql" -> state.active [] page = "inline" -> Key [] OTHER -> 0
TextOf(tabs, id) == (CHOOSE t \in Range(tabs) : t.id = id).text
Text    == CASE page = "sql" -> TextOf(state.tabs, state.active)
             [] page = "inline" -> drafts[Key]
             [] OTHER -> 0

Init ==
  /\ page = "away" /\ conn = (CHOOSE c \in Connections : TRUE) /\ db = (CHOOSE d \in Databases : TRUE)
  /\ lists = [c \in Connections |-> NoTabs] /\ state = NoTabs
  /\ drafts = [k \in Connections \X Databases |-> 0]
  /\ response = 0 /\ running = 0 /\ pending = 0 /\ strayed = FALSE
  /\ asking = None /\ analyzed = {} /\ moved = FALSE
  /\ stash = None /\ execs = <<>> /\ mount = 0
  /\ typed = <<>> /\ foreign = FALSE /\ ids = 0 /\ texts = 0 /\ moves = 0

Moves == moves < MaxMoves /\ moves' = moves + 1

(* The state of a page that is mounted anew; what was asked of the server goes on. *)
Fresh ==
  /\ mount' = mount + 1
  /\ response' = 0 /\ running' = 0 /\ pending' = 0 /\ strayed' = FALSE
  /\ asking' = None /\ moved' = FALSE

(* Every change of the tabs, or of the connection, is written to the list of the
   connection. *)
Keep(tabs, c) == state' = tabs /\ lists' = [lists EXCEPT ![c] = tabs]

-----------------------------------------------------------------------------
(* Where the user goes *)

(* The list that was stored, or one empty tab. *)
loadTabs(c) ==
  IF lists[c] # NoTabs THEN lists[c]
  ELSE [tabs |-> <<[id |-> ids + 1, text |-> 0]>>, active |-> ids + 1]

(* The page opens, and takes the text that was left for it. *)
Mount(c, d, left) ==
  LET loaded == loadTabs(c)
      next   == IF loaded = lists[c] THEN ids + 1 ELSE ids + 2
  IN  /\ page' = "sql" /\ conn' = c /\ db' = d
      /\ next <= MaxTabs
      /\ Fresh
      /\ stash' = None
      /\ IF left = None
         THEN /\ Keep(loaded, c) /\ ids' = next - 1
              /\ UNCHANGED typed
         ELSE /\ Keep([tabs |-> Append(loaded.tabs, [id |-> next, text |-> left.text]),
                       active |-> next], c)
              /\ ids' = next
              /\ typed' = [i \in DOMAIN typed \cup {next} |->
                             IF i = next THEN [conn |-> c, text |-> left.text] ELSE typed[i]]
      /\ UNCHANGED <<drafts, execs, analyzed, foreign>>

OpenPage(c, d) ==
  /\ page # "sql" /\ Moves
  /\ Mount(c, d, stash)
  /\ UNCHANGED texts

(* A definition, a template or a slow query is taken to the page. *)
HandOff ==
  /\ page # "sql" /\ Moves /\ texts < MaxTexts /\ texts' = texts + 1
  /\ Mount(conn, db, [is |-> "text", text |-> texts + 1])

(* The same, but the page does not open: the session has ended. *)
HandOffDiverted ==
  /\ page # "sql" /\ Moves /\ texts < MaxTexts /\ texts' = texts + 1
  /\ stash' = [is |-> "text", text |-> texts + 1]
  /\ page' = "away" /\ Fresh
  /\ UNCHANGED <<conn, db, lists, state, drafts, execs, analyzed, typed, foreign, ids>>

(* The pane beside a table of the explorer. *)
OpenPane(c, d) ==
  /\ page # "inline" /\ Moves
  /\ page' = "inline" /\ conn' = c /\ db' = d
  /\ Fresh /\ state' = NoTabs
  /\ UNCHANGED <<lists, drafts, stash, execs, analyzed, typed, foreign, ids, texts>>

Leave ==
  /\ page # "away" /\ Moves
  /\ page' = "away" /\ Fresh /\ state' = NoTabs
  /\ UNCHANGED <<conn, db, lists, drafts, stash, execs, analyzed, typed, foreign, ids, texts>>

(* Another database: the switcher, or the back button.  The pane is another. *)
SetDb(d) ==
  /\ page # "away" /\ d # db /\ Moves
  /\ db' = d
  /\ IF page = "inline" THEN Fresh
     ELSE moved' = (asking # None) /\ UNCHANGED <<mount, response, running, pending, strayed, asking>>
  /\ UNCHANGED <<page, conn, lists, state, drafts, stash, execs, analyzed, typed, foreign, ids,
                 texts>>

(* The history of the browser is jumped through to the same page of another
   connection, which is not mounted anew. *)
Jump(c) ==
  /\ page # "away" /\ c # conn /\ Moves
  /\ conn' = c
  /\ IF page = "sql" THEN Keep(state, c) /\ foreign' = TRUE
                     ELSE UNCHANGED <<state, lists, foreign>>
  /\ moved' = (asking # None) /\ strayed' = (response # 0)
  /\ UNCHANGED <<page, db, drafts, response, running, pending, asking, stash, execs, mount, analyzed,
                 typed, ids, texts>>

(* Another window writes its own list. *)
OtherWindow(c) ==
  /\ Moves /\ foreign' = TRUE /\ ids < MaxTabs /\ ids' = ids + 1
  /\ lists' = [lists EXCEPT ![c] = [tabs |-> <<[id |-> ids + 1, text |-> 0]>>, active |-> ids + 1]]
  /\ UNCHANGED <<places, state, drafts, shown, question, stash, execs, mount, typed, texts>>

-----------------------------------------------------------------------------
(* The tabs *)

(* What is typed, or taken from the history or the saved queries, goes to the
   active tab. *)
updateTabSql ==
  /\ page = "sql" /\ asking = None /\ texts < MaxTexts /\ texts' = texts + 1
  /\ Keep([state EXCEPT !.tabs =
             [i \in DOMAIN @ |-> IF @[i].id = state.active THEN [@[i] EXCEPT !.text = texts + 1]
                                 ELSE @[i]]], conn)
  /\ typed' = [i \in DOMAIN typed \cup {state.active} |->
                 IF i = state.active THEN [conn |-> conn, text |-> texts + 1] ELSE typed[i]]
  /\ UNCHANGED <<places, drafts, shown, question, stash, execs, mount, foreign, ids, moves>>

addTab ==
  /\ page = "sql" /\ asking = None /\ ids < MaxTabs /\ ids' = ids + 1
  /\ Keep([tabs |-> Append(state.tabs, [id |-> ids + 1, text |-> 0]), active |-> ids + 1], conn)
  /\ response' = 0 /\ strayed' = FALSE
  /\ UNCHANGED <<places, drafts, running, pending, question, stash, execs, mount, typed, foreign,
                 texts, moves>>

(* The last tab has no button to close it. *)
closeTab(id) ==
  /\ page = "sql" /\ asking = None /\ Len(state.tabs) > 1
  /\ LET rest == RemoveAt(state.tabs, CHOOSE i \in DOMAIN state.tabs : state.tabs[i].id = id)
     IN  Keep([tabs |-> rest, active |-> IF state.active = id THEN rest[Len(rest)].id
                                         ELSE state.active], conn)
  /\ strayed' = (strayed \/ (response # 0 /\ state.active = id))
  /\ typed' = [i \in DOMAIN typed \ {id} |-> typed[i]]
  /\ UNCHANGED <<places, drafts, response, running, pending, question, stash, execs, mount, foreign,
                 ids, texts, moves>>

(* Fault: the answer of the tab that was left stays. *)
switchTabOnly(id) ==
  /\ page = "sql" /\ asking = None /\ id # state.active
  /\ Keep([state EXCEPT !.active = id], conn)
  /\ UNCHANGED <<places, drafts, shown, question, stash, execs, mount, typed, foreign, ids, texts,
                 moves>>

switchTab(id) ==
  /\ page = "sql" /\ asking = None /\ id # state.active
  /\ Keep([state EXCEPT !.active = id], conn)
  /\ response' = 0 /\ strayed' = FALSE
  /\ UNCHANGED <<places, drafts, running, pending, question, stash, execs, mount, typed, foreign,
                 ids, texts, moves>>

(* The pane's text is kept for its table. *)
Draft ==
  /\ page = "inline" /\ texts < MaxTexts /\ texts' = texts + 1
  /\ drafts' = [drafts EXCEPT ![Key] = texts + 1]
  /\ UNCHANGED <<places, lists, state, shown, question, stash, execs, mount, typed, foreign, ids,
                 moves>>

-----------------------------------------------------------------------------
(* Statements *)

(* Fault: a second statement is sent beside the first. *)
Idle == TRUE

(* run() while nothing is pending *)
Unoccupied == pending = 0

(* The page, and the pane, send their text to where they are. *)
run ==
  /\ page # "away" /\ asking = None /\ Unoccupied /\ Text # 0
  /\ Len(execs) < MaxRuns /\ analyzed = {}
  /\ execs' = Append(execs, [conn |-> conn, db |-> db, text |-> Text, from |-> Showing,
                             mount |-> mount, at |-> "sent"])
  /\ running' = Len(execs) + 1 /\ pending' = Len(execs) + 1
  /\ UNCHANGED <<places, lists, state, drafts, response, strayed, question, stash, mount, typed,
                 foreign, ids, texts, moves>>

(* The answer comes to the page that asked, if it is still there, whatever it shows
   by then.  An error is shown beside what was there. *)
Answer(n, ok) ==
  /\ execs[n].at # "answered"
  /\ execs' = [execs EXCEPT ![n].at = "answered"]
  /\ IF execs[n].mount = mount
     THEN /\ running' = 0 /\ pending' = IF pending = n THEN 0 ELSE pending
          /\ response' = IF ok THEN n ELSE response
          /\ strayed'  = IF ok THEN execs[n].from # Showing \/ execs[n].conn # conn ELSE strayed
     ELSE UNCHANGED <<running, pending, response, strayed>>
  /\ UNCHANGED <<places, lists, state, drafts, question, stash, mount, typed, foreign, ids, texts,
                 moves>>

(* The server looks for the statement among those of the connection that is named. *)
cancel ==
  /\ running # 0 /\ asking = None
  /\ execs[running].at = "sent" /\ execs[running].conn = conn
  /\ execs' = [execs EXCEPT ![running].at = "canceled"]
  /\ UNCHANGED <<places, lists, state, drafts, shown, question, stash, mount, typed, foreign, ids,
                 texts, moves>>

(* EXPLAIN ANALYZE of a statement that may write asks first. *)
runExplain ==
  /\ page = "sql" /\ asking = None /\ Text # 0 /\ execs = <<>> /\ analyzed = {}
  /\ asking' = [is |-> "asked", text |-> Text, conn |-> conn, db |-> db] /\ moved' = FALSE
  /\ UNCHANGED <<places, lists, state, drafts, shown, analyzed, stash, execs, mount, typed, foreign,
                 ids, texts, moves>>

confirmAnalyze ==
  /\ asking # None
  /\ analyzed' = analyzed \cup {[asked |-> asking, text |-> asking.text, conn |-> conn, db |-> db,
                                 moved |-> moved]}
  /\ asking' = None
  /\ UNCHANGED <<places, lists, state, drafts, shown, moved, stash, execs, mount, typed, foreign,
                 ids, texts, moves>>

-----------------------------------------------------------------------------
Next ==
  \/ \E c \in Connections, d \in Databases : OpenPage(c, d) \/ OpenPane(c, d)
  \/ HandOff \/ HandOffDiverted \/ Leave
  \/ \E d \in Databases : SetDb(d)
  \/ \E c \in Connections : Jump(c) \/ OtherWindow(c)
  \/ updateTabSql \/ addTab \/ Draft
  \/ \E t \in Range(state.tabs) : closeTab(t.id) \/ switchTab(t.id)
  \/ run \/ cancel \/ runExplain \/ confirmAnalyze
  \/ \E n \in DOMAIN execs, ok \in BOOLEAN : Answer(n, ok)

Spec == Init /\ [][Next]_vars

-----------------------------------------------------------------------------
(* Every tab is in the list of its connection with what was last typed into it,
   until it is closed, wherever the user goes; but two windows, or a jump to the
   page of another connection, write over each other's lists (SqlPage.tsx:59). *)
TypedIsKept ==
  ~foreign => \A id \in DOMAIN typed :
    LET kept == [id |-> id, text |-> typed[id].text] IN
      /\ kept \in Range(lists[typed[id].conn].tabs)
      /\ page = "sql" /\ conn = typed[id].conn => kept \in Range(state.tabs)

(* What is shown is the answer to the text above it, unless it came after the user
   had gone to another tab, its tab was closed, or the connection changed under the
   page (SqlPage.tsx:89, 153). *)
ShowsOwnAnswer ==
  page # "away" /\ response # 0 /\ ~strayed =>
    execs[response].from = Showing /\ execs[response].conn = conn

(* A page has at most one statement under way, and its button to cancel names it
   (SqlPage.tsx:134). *)
CancelNamesWhatRuns ==
  /\ running = pending
  /\ pending # 0 => \A n \in DOMAIN execs :
       execs[n].mount = mount /\ execs[n].at # "answered" => n = running

(* A statement is analyzed in the database for which the question was asked, unless
   the address has changed under the dialog (SqlPage.tsx:311). *)
AnalyzesWhatWasAsked ==
  \A a \in analyzed : a.moved \/ (a.conn = a.asked.conn /\ a.db = a.asked.db)

PagesAreSound ==
  TypedIsKept /\ ShowsOwnAnswer /\ CancelNamesWhatRuns /\ AnalyzesWhatWasAsked
=============================================================================
