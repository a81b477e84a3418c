------------------------------- MODULE Dialogs -------------------------------
(***************************************************************************)
(* The dialogs of the explorer that drop, empty and alter objects          *)
(* (StructureView, SchemaTree, RoutinesPanel, ConfirmDialog and the form   *)
(* of a foreign key).  Several dialogs share one CASCADE box and one slot  *)
(* for what is open; a request goes on when its dialog is closed, and its  *)
(* answer then closes whatever is open in that slot, clears the box, and   *)
(* may take the user to another page.  The back button works while a       *)
(* dialog is open.                                                         *)
(*                                                                         *)
(* A schema has one table and one list of routines, and the tree is always *)
(* there.  A form stands for every form that has no box of its own.        *)
(***************************************************************************)
EXTENDS Naturals, FiniteSets

CONSTANTS Schemas, Names, Tables,
          MaxConfirms, MaxMoves

Nothing == [kind |-> "none"]

(* host: the component that keeps the dialog; slot: the state that says it is
   open; hook: the mutation its button starts; types: the name must be typed;
   box: the flag it shows; leads: its success opens another page. *)
StructureDialogs ==
  LET D(slot, hook, types, leads) ==
        [host |-> "structure", slot |-> slot, hook |-> hook, types |-> types, box |-> "cascade",
         leads |-> leads]
  IN [dropRelation   |-> D("dropping", "drop", TRUE, "nothing"),
      dropPart       |-> D("dropping", "drop", TRUE, "stay"),      \* an index or a trigger
      truncate       |-> D("truncating", "truncate", TRUE, "stay"),
      dropColumn     |-> D("ddlDialog", "dropColumn", FALSE, "stay"),
      dropConstraint |-> D("ddlDialog", "dropConstraint", FALSE, "stay"),
      rename         |-> [D("ddlDialog", "form", FALSE, "structure") EXCEPT !.box = "none"],
      form           |-> [D("ddlDialog", "form", FALSE, "stay") EXCEPT !.box = "none"]]

TreeDialogs ==
  LET D(hook, types, box, leads) ==
        [host |-> "tree", slot |-> "dialog", hook |-> hook, types |-> types, box |-> box,
         leads |-> leads]
  IN [dropSchema   |-> D("dropSchema", TRUE, "treeCascade", "stay"),
      dropDatabase |-> D("dropDatabase", TRUE, "force", "stay"),
      createTable  |-> D("treeForm", FALSE, "none", "structure"),
      createSchema |-> D("treeForm", FALSE, "none", "stay")]

RoutineDialogs ==
  [dropRoutine |-> [host |-> "routines", slot |-> "dropping", hook |-> "dropRoutine",
                    types |-> TRUE, box |-> "none", leads |-> "stay"]]

Kind(k) == CASE k \in DOMAIN StructureDialogs -> StructureDialogs[k]
             [] k \in DOMAIN TreeDialogs      -> TreeDialogs[k]
             [] OTHER                         -> RoutineDialogs[k]
Kinds   == DOMAIN StructureDialogs \cup DOMAIN TreeDialogs \cup DOMAIN RoutineDialogs
Boxes   == {"cascade", "treeCascade", "force", "none"}
Panels  == {"structure", "routines", "nothing"}

VARIABLES
  panel, schema,   \* what the address of the page selects
  mount,           \* how often the structure view has been mounted
  dialog,          \* what is open
  box,             \* the boxes; "none" is never ticked
  pending,         \* requests that are not answered
  sent,            \* every request, with what its dialog showed
  reference,       \* the form of a foreign key: the table, and whose columns are ticked
  loaded,          \* tables whose structure has been read
  asked,           \* what that form has sent
  slipped,         \* the answer of a form has shut a dialog and left its box ticked
  moves

dialogs == <<panel, schema, mount, dialog, box, pending, sent, slipped>>
forms   == <<reference, loaded, asked>>
vars    == <<dialogs, forms, moves>>

NoReference == [table |-> "", of |-> {}, seen |-> FALSE]

Init ==
  /\ panel \in Panels /\ schema \in Schemas /\ mount = 0
  /\ dialog = Nothing /\ box = [b \in Boxes |-> FALSE]
  /\ pending = {} /\ sent = {} /\ slipped = FALSE
  /\ reference = NoReference /\ loaded = {} /\ asked = {}
  /\ moves = 0

(* The form of a foreign key shares nothing with the dialogs: a behaviour is about
   one or the other. *)
Unreferred == reference = NoReference /\ loaded = {} /\ asked = {}

Mounted(host) == host \in {"tree", panel}

-----------------------------------------------------------------------------
(* The user *)

(* A button or a menu entry.  shown is the schema of the object, ticked whether
   its user has ticked the box. *)
OpenDialog(k, name) ==
  /\ dialog = Nothing /\ Unreferred
  /\ Mounted(Kind(k).host) /\ Cardinality(sent) < MaxConfirms
  /\ dialog' = [kind |-> k, name |-> name, shown |-> schema, ticked |-> FALSE, typed |-> FALSE]
  /\ UNCHANGED <<panel, schema, mount, box, pending, sent, slipped, forms, moves>>

Type ==
  /\ dialog # Nothing /\ Kind(dialog.kind).types
  /\ dialog' = [dialog EXCEPT !.typed = TRUE]
  /\ UNCHANGED <<panel, schema, mount, box, pending, sent, slipped, forms, moves>>

Tick ==
  /\ dialog # Nothing /\ Kind(dialog.kind).box # "none"
  /\ box'    = [box EXCEPT ![Kind(dialog.kind).box] = ~@]
  /\ dialog' = [dialog EXCEPT !.ticked = ~box[Kind(dialog.kind).box]]
  /\ UNCHANGED <<panel, schema, mount, pending, sent, slipped, forms, moves>>

(* Fault: only the buttons of the dialog clear its box. *)
CloseOnly ==
  /\ dialog # Nothing
  /\ dialog' = Nothing
  /\ UNCHANGED <<panel, schema, mount, box, pending, sent, slipped, forms, moves>>

(* The button, Escape or a click beside the dialog; forms leave the boxes. *)
Close ==
  /\ dialog # Nothing
  /\ dialog' = Nothing
  /\ box' = CASE Kind(dialog.kind).host = "tree" ->
                   [box EXCEPT !["treeCascade"] = FALSE, !["force"] = FALSE]
              [] OTHER -> [box EXCEPT ![Kind(dialog.kind).box] = FALSE]
  /\ UNCHANGED <<panel, schema, mount, pending, sent, slipped, forms, moves>>

(* The request names what the dialog has been given, in the schema that the
   component stands for now. *)
Confirm ==
  /\ dialog # Nothing
  /\ LET k == Kind(dialog.kind)
         r == [id |-> Cardinality(sent), kind |-> dialog.kind, name |-> dialog.name,
               schema |-> IF k.host = "tree" THEN dialog.shown ELSE schema,
               box |-> box[k.box], mount |-> IF k.host = "structure" THEN mount ELSE 0,
               shown |-> dialog.shown, ticked |-> dialog.ticked]
     IN  /\ k.types => dialog.typed
         /\ Cardinality(sent) < MaxConfirms
         /\ \A p \in pending : Kind(p.kind).hook = k.hook => p.mount # r.mount
         /\ pending' = pending \cup {r} /\ sent' = sent \cup {r}
  /\ UNCHANGED <<panel, schema, mount, dialog, box, slipped, forms, moves>>

(* The page changes.  The structure view is mounted anew for every table, the
   list of routines stays while the schema changes under it. *)
Arrive(p, s, another, open, boxes) ==
  LET anew == panel = "structure" /\ (p # panel \/ s # schema \/ another)
      gone == open # Nothing /\ \/ anew /\ Kind(open.kind).host = "structure"
                                \/ p # panel /\ Kind(open.kind).host = panel
  IN  /\ panel' = p /\ schema' = s
      /\ mount'  = IF anew THEN mount + 1 ELSE mount
      /\ dialog' = IF gone THEN Nothing ELSE open
      /\ box'    = IF anew THEN [boxes EXCEPT !["cascade"] = FALSE] ELSE boxes

(* A link, or the back button. *)
Move(p, s) ==
  /\ moves < MaxMoves /\ moves' = moves + 1
  /\ <<p, s>> # <<panel, schema>>
  /\ Arrive(p, s, FALSE, dialog, box)
  /\ reference' = IF panel = "structure" THEN NoReference ELSE reference
  /\ UNCHANGED <<pending, sent, slipped, loaded, asked>>

-----------------------------------------------------------------------------
(* The answers *)

(* onSuccess runs wherever the user is; what it sets is the state of the
   component that sent the request, if it is still there. *)
Succeed(r) ==
  /\ r \in pending /\ pending' = pending \ {r}
  /\ LET k     == Kind(r.kind)
         there == Mounted(k.host) /\ (k.host = "structure" => r.mount = mount)
         shut  == there /\ dialog # Nothing /\ Kind(dialog.kind).host = k.host
                    /\ Kind(dialog.kind).slot = k.slot
         reset == IF k.host = "tree" THEN [box EXCEPT !["treeCascade"] = FALSE, !["force"] = FALSE]
                  ELSE [box EXCEPT ![k.box] = FALSE]
         boxes == IF there /\ (k.hook = "treeForm" => shut) THEN reset ELSE box
         open  == IF shut THEN Nothing ELSE dialog
     IN  /\ slipped' = (slipped \/ (k.hook = "form" /\ shut /\ \E b \in Boxes : boxes[b]))
         /\ IF k.leads = "stay"
            THEN /\ dialog' = open /\ box' = boxes
                 /\ UNCHANGED <<panel, schema, mount, reference>>
            ELSE /\ Arrive(k.leads, r.schema, TRUE, open, boxes)
                 /\ reference' = IF mount' # mount THEN NoReference ELSE reference
  /\ UNCHANGED <<sent, loaded, asked, moves>>

(* A message is shown, and the dialog stays. *)
Fail(r) ==
  /\ r \in pending /\ pending' = pending \ {r}
  /\ UNCHANGED <<panel, schema, mount, dialog, box, sent, slipped, forms, moves>>

-----------------------------------------------------------------------------
(* The form of a foreign key.  of: the tables whose columns are ticked. *)

ChooseTable(t) ==
  /\ dialog = Nothing /\ sent = {} /\ panel = "structure" /\ asked = {}
  /\ reference' = [table |-> t, of |-> IF t \in loaded THEN {t} ELSE reference.of,
                   seen |-> t \in loaded]
  /\ UNCHANGED <<dialogs, loaded, asked, moves>>

(* Fault: columns that are ticked stay ticked. *)
LoadKeepsTicks ==
  /\ reference.table \notin loaded \cup {""}
  /\ loaded'    = loaded \cup {reference.table}
  /\ reference' = [reference EXCEPT !.of = IF @ = {} THEN {reference.table} ELSE @, !.seen = TRUE]
  /\ UNCHANGED <<dialogs, asked, moves>>

(* The structure arrives, and its primary key is ticked. *)
Load ==
  /\ reference.table \notin loaded \cup {""}
  /\ loaded'    = loaded \cup {reference.table}
  /\ reference' = [reference EXCEPT !.of = {reference.table}, !.seen = TRUE]
  /\ UNCHANGED <<dialogs, asked, moves>>

(* Another schema is chosen. *)
ChooseSchema ==
  /\ reference.table # ""
  /\ reference' = NoReference
  /\ UNCHANGED <<dialogs, loaded, asked, moves>>

Create ==
  /\ reference.table # "" /\ reference.of # {}
  /\ asked' = asked \cup {reference}
  /\ reference' = NoReference
  /\ UNCHANGED <<dialogs, loaded, moves>>

Next ==
  \/ \E k \in Kinds, name \in Names : OpenDialog(k, name)
  \/ Type \/ Tick \/ Close \/ Confirm
  \/ \E p \in Panels, s \in Schemas : Move(p, s)
  \/ \E r \in pending : Succeed(r) \/ Fail(r)
  \/ \E t \in Tables : ChooseTable(t)
  \/ Load \/ ChooseSchema \/ Create

Spec == Init /\ [][Next]_vars

-----------------------------------------------------------------------------
(* CASCADE and FORCE are asked for only by who ticked them in the dialog that
   asks: the boxes are shared, and requests answered late clear them but never
   leave them ticked (StructureView.tsx:46, SchemaTree.tsx:96).  Only the answer of
   a form does, when it shuts the dialog that was opened after it (:542-604). *)
BoxesAreTicked ==
  slipped \/
  /\ \A r \in sent : r.box => r.ticked
  /\ dialog # Nothing => (box[Kind(dialog.kind).box] => dialog.ticked)
  /\ dialog = Nothing => \A b \in Boxes : ~box[b]

(* What is dropped is in the schema its dialog was opened for; but a list of
   routines goes with the address while its dialog is open (RoutinesPanel.tsx:34). *)
DropsWhatWasShown ==
  /\ \A r \in sent : r.schema = r.shown \/ (r.kind = "dropRoutine" /\ moves > 0)
  /\ dialog # Nothing /\ Kind(dialog.kind).host = "structure" => dialog.shown = schema

(* A foreign key names columns of the table it refers to, as the form shows them;
   but until their table has been read, those of the one chosen before are sent
   (ddl-dialogs.tsx:606). *)
ReferencesAreShown == \A f \in asked : f.seen => f.of = {f.table}

DialogsAreSound == BoxesAreTicked /\ DropsWhatWasShown /\ ReferencesAreShown
=============================================================================
