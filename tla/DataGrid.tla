------------------------------- MODULE DataGrid -------------------------------
(***************************************************************************)
(* The rows of one table on the screen and what is done to them:           *)
(* features/explorer/DataGrid.tsx, its requests to                         *)
(* modules/data/data.service.ts, and everybody else who writes the table.  *)
(*                                                                         *)
(* The grid ticks and edits rows by their position on the page, and names  *)
(* them by their key only when it sends the request.  Pages come from the  *)
(* query cache, which shows the page before while the next is loading.     *)
(* A row is its key; its values are left out.  Rows in an order are a      *)
(* function from the rows to their places, which are 1, 2, and so on.      *)
(***************************************************************************)
EXTENDS Naturals, FiniteSets

CONSTANTS
  Rows,         \* keys
  Narrow,       \* the rows that pass the filter or the search
  PageSize,
  Pages,        \* 0 .. the last page that can be asked for
  Arrangements, \* subset of {"none", "sorted", "filtered"}
  Calls,        \* requests that change rows, each made once
  MaxOthers,    \* bound: changes by other sessions
  Careful       \* the user waits for pages and replies, see below

ASSUME GridAssumption ==
  /\ PageSize \in Nat \ {0} /\ MaxOthers \in Nat /\ Careful \in BOOLEAN
  /\ Pages \subseteq Nat /\ 0 \in Pages
  /\ "none" \in Arrangements /\ Arrangements \subseteq {"none", "sorted", "filtered"}
  /\ Rows \subseteq Nat \ {0} /\ IsFiniteSet(Rows) /\ Narrow \subseteq Rows

VARIABLES
  heap,      \* the rows of the table, with their places in a scan
  view,      \* page and arrangement that are chosen
  data,      \* the rows on the screen, with their positions
  cache,     \* the query cache: what is known of a view, and whether it is valid
  fetch,     \* the query that is under way for a view
  selected,  \* positions that are ticked
  picked,    \* auxiliary: the positions that were ticked, each with the row it had
  editing,   \* position of the cell that is edited, and the row it was opened on
  dialog,    \* the confirmation of a delete is open
  call,      \* the requests that change rows
  others,    \* changes made by other sessions
  excuses    \* auxiliary: what the properties make an exception for

screen == <<view, data, cache, fetch>>
choice == <<selected, picked, editing, dialog>>
vars   == <<heap, screen, choice, call, others, excuses>>

Views  == [page : Pages, by : Arrangements]
NoEdit == [pos |-> 0, row |-> 0]

(* Rows in the order of their keys. *)
Places(S, key) == [r \in S |-> Cardinality({s \in S : key[s] <= key[r]})]
Positions(rows) == {rows[r] : r \in DOMAIN rows}
RowAt(rows, i)  == CHOOSE r \in DOMAIN rows : rows[r] = i

Operations == {"delete", "update", "insert"}
Stages     == {"none", "working", "done", "refused", "over"}
NoCall     == [stage |-> "none", op |-> "delete", rows |-> {}, meant |-> {},
               todo |-> {}, done |-> {}]
Over       == [NoCall EXCEPT !.stage = "over"]

Layouts == UNION {[S -> 1..Cardinality(Rows)] : S \in SUBSET Rows}

TypeOK ==
  /\ heap \in Layouts /\ data \in Layouts
  /\ view \in Views
  /\ cache \in [Views -> [known : BOOLEAN, valid : BOOLEAN, rows : Layouts]]
  /\ fetch \in [Views -> [stage : {"none", "sent", "served"}, rows : Layouts]]
  /\ selected \subseteq Nat /\ picked \subseteq Nat \X Rows
  /\ editing = NoEdit \/ editing \in [pos : Nat, row : Rows]
  /\ dialog \in BOOLEAN
  /\ call \in [Calls -> [stage : Stages, op : Operations, rows : SUBSET Rows,
                         meant : SUBSET Rows, todo : SUBSET Rows, done : SUBSET Rows]]
  /\ others \in Nat
  /\ excuses \subseteq {"raced", "lost"}

ByKey == [r \in Rows |-> r]
First == [page |-> 0, by |-> "none"]

(* The table is there, and its first page has been asked for. *)
Init ==
  /\ \E S \in SUBSET Rows : heap = Places(S, ByKey)
  /\ view = First /\ data = <<>>
  /\ cache = [v \in Views |-> [known |-> FALSE, valid |-> FALSE, rows |-> <<>>]]
  /\ fetch = [v \in Views |-> [stage |-> IF v = First THEN "sent" ELSE "none", rows |-> <<>>]]
  /\ selected = {} /\ picked = {} /\ editing = NoEdit /\ dialog = FALSE
  /\ call = [c \in Calls |-> NoCall]
  /\ others = 0 /\ excuses = {}

-----------------------------------------------------------------------------
(* queryRows() and the query cache *)

Arranged(by) ==
  CASE by = "none"     -> heap
    [] by = "sorted"   -> Places(DOMAIN heap, ByKey)
    [] by = "filtered" -> Places(DOMAIN heap \cap Narrow, heap)

(* LIMIT and OFFSET.  The number of pages is left out: it is counted by a
   statement of its own, and estimated for large tables. *)
PageOf(v) ==
  LET place  == Arranged(v.by)
      offset == v.page * PageSize
  IN  [r \in {r \in DOMAIN place : offset < place[r] /\ place[r] <= offset + PageSize} |->
         place[r] - offset]

Sent == [stage |-> "sent", rows |-> <<>>]
Idle == [stage |-> "none", rows |-> <<>>]

(* A view that is neither known nor asked for is one whose query failed: the
   grid shows the error and no rows. *)
Visible == cache[view].known \/ fetch[view].stage # "none"

Serve(v) ==
  /\ fetch[v].stage = "sent"
  /\ fetch' = [fetch EXCEPT ![v] = [stage |-> "served", rows |-> PageOf(v)]]
  /\ UNCHANGED <<heap, view, data, cache, choice, call, others, excuses>>

(* The rows arrive, wherever the user has gone meanwhile, and count as valid
   even if they were read before the last change. *)
Arrive(v) ==
  /\ fetch[v].stage = "served"
  /\ fetch' = [fetch EXCEPT ![v] = Idle]
  /\ cache' = [cache EXCEPT ![v] = [known |-> TRUE, valid |-> TRUE, rows |-> fetch[v].rows]]
  /\ data' = IF v = view THEN fetch[v].rows ELSE data
  /\ UNCHANGED <<heap, view, choice, call, others, excuses>>

FetchFails(v) ==
  /\ fetch[v].stage # "none"
  /\ fetch' = [fetch EXCEPT ![v] = Idle]
  /\ UNCHANGED <<heap, view, data, cache, choice, call, others, excuses>>

(* A careful user neither ticks nor edits while rows are loading, edits no cell
   while a request is pending, and turns no page with rows ticked. *)
Loading == fetch[view].stage # "none"
NothingTicked == Careful => selected = {}

(* Another page, sort, filter or search: what the cache knows is shown at once
   and asked for again when it is invalid or older than staleTime; otherwise
   the rows before it stay (keepPreviousData).  The ticks stay, too. *)
Show(v) ==
  /\ ~dialog /\ v # view /\ NothingTicked
  /\ v.by # view.by => v.page = 0
  /\ view' = v
  /\ data' = IF cache[v].known THEN cache[v].rows ELSE data
  /\ \E aged \in BOOLEAN :
       fetch' = IF fetch[v].stage = "none" /\ (aged \/ ~cache[v].known \/ ~cache[v].valid)
                  THEN [fetch EXCEPT ![v] = Sent] ELSE fetch
  /\ editing' = NoEdit
  /\ UNCHANGED <<heap, cache, selected, picked, dialog, call, others, excuses>>

(* The refresh and retry buttons: a query under way is dropped. *)
Refresh ==
  /\ ~dialog /\ NothingTicked
  /\ fetch' = [fetch EXCEPT ![view] = Sent]
  /\ editing' = NoEdit
  /\ UNCHANGED <<heap, view, data, cache, selected, picked, dialog, call, others, excuses>>

-----------------------------------------------------------------------------
(* Ticking, editing and confirming *)

Tick(i) ==
  /\ ~dialog /\ Visible /\ i \in Positions(data)
  /\ Careful => ~Loading
  /\ IF i \in selected
       THEN selected' = selected \ {i} /\ picked' = {p \in picked : p[1] # i}
       ELSE selected' = selected \cup {i} /\ picked' = picked \cup {<<i, RowAt(data, i)>>}
  /\ editing' = NoEdit
  /\ UNCHANGED <<heap, screen, dialog, call, others, excuses>>

Pending == {c \in Calls : call[c].stage \in {"working", "done", "refused"}}

(* A double click.  Clicks elsewhere end it (onBlur), replies may end it. *)
Edit(i) ==
  /\ ~dialog /\ Visible /\ i \in Positions(data)
  /\ Careful => ~Loading /\ Pending = {}
  /\ editing' = [pos |-> i, row |-> RowAt(data, i)]
  /\ UNCHANGED <<heap, screen, selected, picked, dialog, call, others, excuses>>

OpenDialog ==
  /\ ~dialog /\ Visible /\ selected # {}
  /\ dialog' = TRUE /\ editing' = NoEdit
  /\ UNCHANGED <<heap, screen, selected, picked, call, others, excuses>>

CloseDialog ==
  /\ dialog /\ dialog' = FALSE
  /\ UNCHANGED <<heap, screen, selected, picked, editing, call, others, excuses>>

(* A request for `rows', where `meant' are the rows the user chose. *)
Send(c, op, rows, meant) ==
  /\ call[c].stage = "none"
  /\ call' = [call EXCEPT ![c] = [stage |-> "working", op |-> op, rows |-> rows,
                                  meant |-> meant, done |-> {},
                                  todo |-> IF op = "delete" THEN rows ELSE {}]]

(* The button waits for the delete before.  A tick beyond the last row makes
   the handler throw, and nothing is sent. *)
Confirm(c) ==
  /\ dialog /\ Visible
  /\ \A d \in Pending : call[d].op # "delete"
  /\ selected \subseteq Positions(data)
  /\ Send(c, "delete", {RowAt(data, i) : i \in selected}, {p[2] : p \in picked})
  /\ UNCHANGED <<heap, screen, choice, others, excuses>>

(* Enter, in the cell that is edited, which stays open until the reply. *)
CommitEdit(c) ==
  /\ Visible /\ editing.pos \in Positions(data)
  /\ Send(c, "update", {RowAt(data, editing.pos)}, {editing.row})
  /\ UNCHANGED <<heap, screen, choice, others, excuses>>

(* The row editor inserts one row, the import those of a file. *)
Insert(c, rows) ==
  /\ ~dialog
  /\ Send(c, "insert", rows, rows)
  /\ editing' = NoEdit
  /\ UNCHANGED <<heap, screen, selected, picked, dialog, others, excuses>>

-----------------------------------------------------------------------------
(* The transactions of DataService, and other sessions *)

Working(c, op) == call[c].stage = "working" /\ call[c].op = op

(* Rows disappear, or are found after all the others from now on. *)
Without(rows) == Places(DOMAIN heap \ rows, heap)
AtTheEnd(rows) ==
  Places(DOMAIN heap \cup rows,
         [r \in DOMAIN heap \cup rows |-> IF r \in rows THEN Cardinality(DOMAIN heap) + r
                                                        ELSE heap[r]])

(* Rows an open transaction has deleted: whoever wants one waits. *)
Locked == UNION {call[c].done : c \in {d \in Calls : call[d].stage = "working"}}

(* One statement of deleteRows(): the row may be gone by now. *)
DeleteOne(c, r) ==
  /\ Working(c, "delete") /\ r \in call[c].todo \ Locked
  /\ call' = [call EXCEPT ![c].todo = @ \ {r},
                          ![c].done = @ \cup ({r} \cap DOMAIN heap)]
  /\ UNCHANGED <<heap, screen, choice, others, excuses>>

(* Fault: deleteRows() commits whatever it has matched. *)
EndDeleteAnyhow(c) ==
  /\ Working(c, "delete") /\ call[c].todo = {}
  /\ heap' = Without(call[c].done)
  /\ call' = [call EXCEPT ![c].stage = "done"]
  /\ UNCHANGED <<screen, choice, others, excuses>>

(* All of them were matched, or nothing happens; a request without rows is
   rejected. *)
EndDelete(c) ==
  /\ Working(c, "delete") /\ call[c].todo = {}
  /\ \/ /\ call[c].rows # {} /\ call[c].done = call[c].rows
        /\ heap' = Without(call[c].done)
        /\ call' = [call EXCEPT ![c].stage = "done"]
     \/ /\ call[c].rows = {} \/ call[c].done # call[c].rows
        /\ call' = [call EXCEPT ![c].stage = "refused", ![c].done = {}]
        /\ UNCHANGED heap
  /\ UNCHANGED <<screen, choice, others, excuses>>

(* insertRow(), and importCsv() of several: the transaction inserts batch after
   batch, unseen by others, and a key that is taken rolls all of it back. *)
DoInsert(c) ==
  /\ Working(c, "insert") /\ call[c].rows \cap Locked = {}
  /\ IF call[c].rows \cap DOMAIN heap = {}
       THEN /\ heap' = AtTheEnd(call[c].rows)
            /\ call' = [call EXCEPT ![c].stage = "done", ![c].done = @ \cup call[c].rows]
       ELSE /\ call' = [call EXCEPT ![c].stage = "refused"]
            /\ UNCHANGED heap
  /\ UNCHANGED <<screen, choice, others, excuses>>

(* updateRow(): one statement, which has to match one row.  The new version of
   a row is found where it was, or after all the others. *)
DoUpdate(c) ==
  /\ Working(c, "update") /\ call[c].rows \cap Locked = {}
  /\ \/ /\ call[c].rows \subseteq DOMAIN heap
        /\ \/ heap' = heap
           \/ heap' = AtTheEnd(call[c].rows)
        /\ call' = [call EXCEPT ![c].stage = "done", ![c].done = call[c].rows]
     \/ /\ ~ (call[c].rows \subseteq DOMAIN heap)
        /\ call' = [call EXCEPT ![c].stage = "refused"]
        /\ UNCHANGED heap
  /\ UNCHANGED <<screen, choice, others, excuses>>

(* Another session deletes, inserts or updates a row. *)
OtherSession ==
  /\ others < MaxOthers /\ others' = others + 1
  /\ \E r \in Rows \ Locked :
       \/ heap' = Without({r})
       \/ heap' = AtTheEnd({r})
  /\ UNCHANGED <<screen, choice, call, excuses>>

-----------------------------------------------------------------------------
(* Replies *)

(* The view on the screen is asked for again, its query under way dropped; one
   that was answered for another view goes on. *)
Refetch ==
  /\ fetch' = [fetch EXCEPT ![view] = Sent]
  /\ excuses' = IF \E v \in Views \ {view} : fetch[v].stage = "served"
                  THEN excuses \cup {"raced"} ELSE excuses

(* Fault: the ticks survive the rows they were put on. *)
InvalidateKeepsTicks ==
  /\ cache' = [v \in Views |-> [cache[v] EXCEPT !.valid = FALSE]]
  /\ Refetch
  /\ UNCHANGED <<selected, picked>>

(* Fault: only the page on the screen is out of date. *)
InvalidatePage ==
  /\ cache' = [cache EXCEPT ![view].valid = FALSE]
  /\ Refetch
  /\ selected' = {} /\ picked' = {}

(* invalidate(): every view of the table is out of date, and nothing ticked. *)
Invalidate ==
  /\ cache' = [v \in Views |-> [cache[v] EXCEPT !.valid = FALSE]]
  /\ Refetch
  /\ selected' = {} /\ picked' = {}

(* onSuccess: an update closes the cell that is edited, whichever it is; a
   delete closes its dialog. *)
Succeed(c) ==
  /\ call[c].stage = "done"
  /\ call' = [call EXCEPT ![c] = Over]
  /\ Invalidate
  /\ editing' = IF call[c].op = "update" THEN NoEdit ELSE editing
  /\ dialog' = (dialog /\ call[c].op # "delete")
  /\ UNCHANGED <<heap, view, data, others>>

(* onError: a message, and everything stays. *)
Fail(c) ==
  /\ call[c].stage = "refused"
  /\ call' = [call EXCEPT ![c] = Over]
  /\ UNCHANGED <<heap, screen, choice, others, excuses>>

(* The reply is lost; the grid reports an error, whatever was done. *)
LoseReply(c) ==
  /\ call[c].stage = "done"
  /\ call' = [call EXCEPT ![c] = Over]
  /\ excuses' = excuses \cup {"lost"}
  /\ UNCHANGED <<heap, screen, choice, others>>

-----------------------------------------------------------------------------
Next ==
  \/ \E v \in Views : Serve(v) \/ Arrive(v) \/ FetchFails(v) \/ Show(v)
  \/ \E i \in 1..PageSize : Tick(i) \/ Edit(i)
  \/ Refresh \/ OpenDialog \/ CloseDialog \/ OtherSession
  \/ \E c \in Calls :
       \/ Confirm(c) \/ CommitEdit(c)
       \/ \E rows \in (SUBSET Rows) \ {{}} : Insert(c, rows)
       \/ \E r \in Rows : DeleteOne(c, r)
       \/ EndDelete(c) \/ DoInsert(c) \/ DoUpdate(c)
       \/ Succeed(c) \/ Fail(c) \/ LoseReply(c)

Spec == Init /\ [][Next]_vars

-----------------------------------------------------------------------------
(* Properties *)

(* A request names the rows the user chose - as long as nothing is ticked or
   edited while rows are loading, no cell is edited while a request is pending,
   and no page is turned or refreshed with rows ticked (DataGrid.tsx:258, 534). *)
HitsWhatWasPicked ==
  Careful => \A c \in Calls : call[c].rows = call[c].meant

(* Whatever other sessions do between its statements, a request is carried out
   for all of its rows or for none (data.service.ts:180). *)
NothingByHalves ==
  \A c \in Calls :
    /\ call[c].stage = "done" => call[c].done = call[c].rows /\ call[c].rows # {}
    /\ call[c].stage = "working" => call[c].done \subseteq DOMAIN heap

(* A request does what was asked for: to the rows that were picked, and to all of
   them or none. *)
DoesWhatWasPicked == HitsWhatWasPicked /\ NothingByHalves

(* With nothing under way, and nobody else at work, the screen shows the table:
   a page read before a change is asked for again, and no answer that a change
   has overtaken is kept - unless it was for a page the user has left, or the
   reply to the change was lost (DataGrid.tsx:147). *)
ShowsTheTable ==
  Pending = {} /\ others = 0 /\ excuses = {} /\ ~Loading /\ cache[view].valid
    => data = PageOf(view)
=============================================================================
