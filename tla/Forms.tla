-------------------------------- MODULE Forms --------------------------------
(***************************************************************************)
(* The forms that edit one object: a column, a role, a connection, a       *)
(* schedule, a user, a saved query.  A form is filled in from the page's   *)
(* copy of the object and never again; the user changes some attributes;   *)
(* the request carries all of them or those that differ; the server writes *)
(* them as one row, in one transaction, or in several statements.          *)
(* Meanwhile others change the object, or remove it, and answers are lost, *)
(* after which the form is still open and may be sent again.               *)
(*                                                                         *)
(* A behaviour follows one form and two attributes of its object.          *)
(***************************************************************************)
EXTENDS Naturals, FiniteSets

CONSTANTS MaxOthers, MaxSaves

-----------------------------------------------------------------------------
(* The forms.  shows: attributes the user may change; secret: fields that start
   empty; sealed: sent as they were copied; hidden: kept by the server.  Attributes
   that are treated alike are represented by one or two of them. *)

WholeRow(shows) == [shows |-> shows, secret |-> {}, sealed |-> {}, hidden |-> {},
                    sends |-> "all", applies |-> "row"]

ColumnDialog == [WholeRow({"name", "type", "nullable", "default", "comment"}) EXCEPT
                   !.sends = "changes", !.applies = "batch"]
RoleDialog   == [WholeRow({"login", "connLimit", "readers", "writers"}) EXCEPT
                   !.secret = {"password"}, !.hidden = {"validUntil"}, !.applies = "statements"]
ConnectionDialog == [WholeRow({"name", "readOnly", "color"}) EXCEPT
                       !.secret = {"password"}, !.hidden = {"lastUsedAt"}]
ScheduleDialog   == [WholeRow({"name", "cron"}) EXCEPT
                       !.sealed = {"connectionId"}, !.hidden = {"lastRunAt"}]
UserDialog       == [WholeRow({"name", "email", "role"}) EXCEPT !.secret = {"password"}]
SaveQueryDialog  == [WholeRow({"name", "shared"}) EXCEPT
                       !.sealed = {"sql"}, !.hidden = {"ownerId"}]

Dialogs == [column |-> ColumnDialog, role |-> RoleDialog, connection |-> ConnectionDialog,
            schedule |-> ScheduleDialog, user |-> UserDialog, query |-> SaveQueryDialog]

Groups     == {"readers", "writers"}   \* the roles a role is a member of
Attributes(f) == f.shows \cup f.secret \cup f.sealed \cup f.hidden

(* What an attribute is at first; "old" in other letters is "OLD"; "none" is an
   empty field, and a connection that was not made by the form has no colour. *)
Firsts(a) == CASE a \in Groups -> {"in", "out"} [] a = "color" -> {"old", "none"} [] OTHER -> {"old"}
Typeable(a) == CASE a \in Groups -> {"in", "out"} [] a = "email" -> {"mine", "OLD"} [] OTHER -> {"mine"}
Fold(v) == IF v = "OLD" THEN "old" ELSE v

-----------------------------------------------------------------------------
VARIABLES
  form, follow, creating,   \* what this behaviour follows
  stored, exists,           \* the object
  opened, draft,            \* the page's copy when the form was opened; the fields
  at,                       \* "open", "sent", "working", "stored" or "done"
  body,                     \* the attributes of the request
  todo, work,               \* statements to come; the transaction's own version
  answer,                   \* to the last request
  \* auxiliary
  did,                      \* attributes of the request that are stored
  asked,                    \* attributes of some request that the user had changed
  left,                     \* an earlier request had effects and no good answer
  theirs, since, over,      \* others: what they wrote last, what they have changed
  others, saves             \*   since the form was opened, since it was sent

server == <<stored, exists, todo, work>>
aux    == <<asked, left, theirs, since, over, others, saves>>
vars   == <<form, follow, creating, server, opened, draft, at, body, answer, did, aux>>

(* The object the form makes has nothing yet. *)
Empty(a)     == CASE a \in Groups -> "out" [] OTHER -> "none"
Shown(a)     == CASE a \in form.secret -> "none"
                  [] a = "color" /\ opened[a] = "none" -> "default"
                  [] OTHER -> opened[a]
Typed(a)     == draft[a] # Shown(a)

Init ==
  /\ \E name \in DOMAIN Dialogs : form = Dialogs[name]
  /\ follow \in {s \in SUBSET Attributes(form) : Cardinality(s) = 2}
  /\ creating \in BOOLEAN /\ exists = ~creating
  /\ stored \in {s \in [follow -> UNION {Firsts(a) : a \in follow}] :
                   \A a \in follow : s[a] \in IF creating THEN {Empty(a)} ELSE Firsts(a)}
  /\ opened = stored /\ draft = [a \in follow |-> Shown(a)]
  /\ at = "open" /\ body = <<>> /\ todo = {} /\ work = stored /\ answer = "none"
  /\ did = {} /\ asked = {} /\ left = FALSE /\ theirs = stored /\ since = {} /\ over = {}
  /\ others = 0 /\ saves = 0

-----------------------------------------------------------------------------
(* The form *)

Edit(a, v) ==
  /\ at = "open" /\ a \in form.shows \cup form.secret
  /\ v \in Typeable(a) \cup {Shown(a)} /\ v # draft[a]
  /\ draft' = [draft EXCEPT ![a] = v]
  /\ UNCHANGED <<form, follow, creating, server, opened, at, body, answer, did, aux>>

(* Fault: what was left alone is sent too. *)
buildActionsForAll == {a \in follow : a \in form.shows}

(* A column's form sends what differs from its copy. *)
buildActions == {a \in follow : a \in form.shows /\ draft[a] # opened[a]}

(* Fault: an empty field is a value. *)
SentWithSecrets == follow \ form.hidden

(* The others send everything, and a secret if one was typed. *)
SentWhole == {a \in follow \ form.hidden : a \in form.secret => draft[a] # "none"}

Sent == IF form.sends = "changes" THEN buildActions ELSE SentWhole

Save ==
  /\ at = "open" /\ saves < MaxSaves /\ Sent # {}
  /\ at' = "sent" /\ answer' = "none" /\ body' = [a \in Sent |-> draft[a]]
  /\ left' = (left \/ did # {} \/ (creating /\ exists))
  /\ asked' = asked \cup {a \in Sent : Typed(a)}
  /\ did' = {} /\ over' = {} /\ saves' = saves + 1
  /\ UNCHANGED <<form, follow, creating, server, opened, draft, theirs, since, others>>

(* The form closes, or shows the message and stays open. *)
Reply ==
  /\ at = "stored" /\ at' = "done" /\ answer' = "ok"
  /\ UNCHANGED <<form, follow, creating, server, opened, draft, body, did, aux>>

LoseReply ==
  /\ at \in {"sent", "stored"} /\ at' = "open" /\ answer' = "lost"
  /\ UNCHANGED <<form, follow, creating, server, opened, draft, body, did, aux>>

(* Somebody else's change, or removal. *)
Another(a, v) ==
  /\ exists /\ others < MaxOthers /\ others' = others + 1
  /\ ~(at = "working" /\ form.applies = "batch")
  /\ v # stored[a]
  /\ stored' = [stored EXCEPT ![a] = v] /\ theirs' = [theirs EXCEPT ![a] = v]
  /\ since' = since \cup {a} /\ over' = over \cup {a}
  /\ UNCHANGED <<form, follow, creating, exists, todo, work, opened, draft, at, body, answer, did,
                 asked, left, saves>>

RemovedByAnother ==
  /\ exists /\ others < MaxOthers /\ others' = others + 1
  /\ ~(at = "working" /\ form.applies = "batch")
  /\ exists' = FALSE
  /\ UNCHANGED <<form, follow, creating, stored, todo, work, opened, draft, at, body, answer, did,
                 asked, left, theirs, since, over, saves>>

-----------------------------------------------------------------------------
(* The server *)

Answer(why) == at' = "open" /\ answer' = why

(* A body that is not valid, a name that is taken, a server that is away. *)
Refuse ==
  /\ at \in {"sent", "working"}
  /\ Answer("refused") /\ todo' = {}
  /\ UNCHANGED <<form, follow, creating, stored, exists, work, opened, draft, body, did, aux>>

(* An address that differs in its letters only is not changed. *)
Merge(row, b) ==
  [a \in DOMAIN row |->
     IF a \notin DOMAIN b \/ (a = "email" /\ Fold(b[a]) = Fold(row[a])) THEN row[a] ELSE b[a]]

(* What is made has nothing but what was sent. *)
Made == [a \in follow |-> IF a \in DOMAIN body THEN body[a] ELSE Empty(a)]

(* One row, read and written in one turn. *)
StoreRow ==
  /\ at = "sent" /\ form.applies = "row"
  /\ IF exists \/ creating
     THEN /\ at' = "stored" /\ did' = DOMAIN body
          /\ stored' = (IF creating THEN Made ELSE Merge(stored, body)) /\ exists' = TRUE
          /\ UNCHANGED answer
     ELSE Answer("gone") /\ UNCHANGED <<stored, exists, did>>
  /\ UNCHANGED <<form, follow, creating, todo, work, opened, draft, body, aux>>

(* Fault: a column is renamed before the rest addresses it. *)
RenameFirst == [name |-> 1, type |-> 2, nullable |-> 3, default |-> 4, comment |-> 5]

(* The order of a column's actions. *)
ActionOrder == [type |-> 1, nullable |-> 2, default |-> 3, comment |-> 4, name |-> 5]

(* BEGIN, and the lock that the first statement takes. *)
BeginAlter ==
  /\ at = "sent" /\ form.applies = "batch" /\ at' = "working"
  /\ work' = stored /\ todo' = IF creating THEN {"add"} ELSE DOMAIN body
  /\ UNCHANGED <<form, follow, creating, stored, exists, opened, draft, body, answer, did, aux>>

AddColumn ==
  /\ at = "working" /\ todo = {"add"} /\ todo' = {}
  /\ IF exists THEN Answer("taken") /\ UNCHANGED work
               ELSE work' = Made /\ UNCHANGED <<at, answer>>
  /\ UNCHANGED <<form, follow, creating, stored, exists, opened, draft, body, did, aux>>

(* Each statement names the column as the form has opened it. *)
Alter(a) ==
  /\ at = "working" /\ form.applies = "batch" /\ a \in todo \ {"add"}
  /\ \A b \in todo : ActionOrder[a] <= ActionOrder[b]
  /\ IF exists /\ ("name" \in follow => work["name"] = opened["name"])
     THEN /\ work' = [work EXCEPT ![a] = body[a]]
          /\ todo' = todo \ {a} /\ UNCHANGED <<at, answer>>
     ELSE Answer("unknown") /\ todo' = {} /\ UNCHANGED work
  /\ UNCHANGED <<form, follow, creating, stored, exists, opened, draft, body, did, aux>>

Commit ==
  /\ at = "working" /\ form.applies = "batch" /\ todo = {}
  /\ stored' = work /\ exists' = TRUE /\ did' = DOMAIN body /\ at' = "stored"
  /\ UNCHANGED <<form, follow, creating, todo, work, opened, draft, body, answer, aux>>

(* CREATE ROLE or ALTER ROLE, with every attribute but the memberships. *)
StoreRole ==
  /\ at = "sent" /\ form.applies = "statements"
  /\ IF exists # creating
     THEN /\ at' = "working" /\ todo' = {"members"}
          /\ stored' = [a \in follow |-> IF a \in DOMAIN body \ Groups THEN body[a]
                                         ELSE IF creating THEN Empty(a) ELSE stored[a]]
          /\ exists' = TRUE /\ did' = DOMAIN body \ Groups
          /\ UNCHANGED answer
     ELSE /\ Answer(IF creating THEN "taken" ELSE "gone")
          /\ UNCHANGED <<stored, exists, todo, did>>
  /\ UNCHANGED <<form, follow, creating, work, opened, draft, body, aux>>

(* The memberships are read, to GRANT each that is missing and REVOKE each that is
   too many.  A role that is made has none, and they are not read. *)
ReadMembers ==
  /\ at = "working" /\ todo = {"members"}
  /\ LET named == Groups \cap DOMAIN body
     IN  /\ todo' = {g \in named : IF creating THEN body[g] = "in" ELSE stored[g] # body[g]}
         /\ did' = did \cup (named \ todo')
  /\ UNCHANGED <<form, follow, creating, stored, exists, work, opened, draft, at, body, answer, aux>>

(* The GRANTs come first. *)
GrantMember(g) ==
  /\ at = "working" /\ form.applies = "statements" /\ g \in todo \ {"members"}
  /\ body[g] = "out" => \A h \in todo : body[h] = "out"
  /\ IF exists
     THEN /\ stored' = [stored EXCEPT ![g] = body[g]]
          /\ did' = did \cup {g} /\ todo' = todo \ {g} /\ UNCHANGED <<at, answer>>
     ELSE Answer("gone") /\ todo' = {} /\ UNCHANGED <<stored, did>>
  /\ UNCHANGED <<form, follow, creating, exists, work, opened, draft, body, aux>>

RoleStored ==
  /\ at = "working" /\ form.applies = "statements" /\ todo = {} /\ at' = "stored"
  /\ UNCHANGED <<form, follow, creating, server, opened, draft, body, answer, did, aux>>

Next ==
  \/ \E a \in follow : \E v \in Typeable(a) \cup {Shown(a)} : Edit(a, v)
  \/ Save \/ Reply \/ LoseReply
  \/ \E a \in follow, v \in {"theirs", "in", "out"} :
       (a \in Groups <=> v # "theirs") /\ Another(a, v)
  \/ RemovedByAnother
  \/ Refuse \/ StoreRow
  \/ BeginAlter \/ AddColumn \/ (\E a \in follow : Alter(a)) \/ Commit
  \/ StoreRole \/ ReadMembers \/ (\E g \in follow : GrantMember(g)) \/ RoleStored

Spec == Init /\ [][Next]_vars

-----------------------------------------------------------------------------
(* What a form that closes with a success was given is stored, unless somebody
   changed it since; but the letters of an address are not (auth.service.ts:130). *)
TypedIsStored ==
  at = "done" /\ exists => \A a \in follow :
    Typed(a) /\ a \notin over => stored[a] = draft[a] \/ (a = "email" /\ Fold(draft[a]) = stored[a])

(* Attributes the user left alone are not changed: secrets that were not typed and
   what the form does not show never are, and a column's form does not undo what
   others did since it was opened (ddl-dialogs.tsx:228).  The forms that send
   everything do, and a connection without a colour gets one. *)
UntouchedKept ==
  ~creating /\ exists => \A a \in follow :
    \/ stored[a] = theirs[a]
    \/ a \in asked
    \/ a \in since \cap (form.shows \cup form.sealed) /\ form.sends = "all"
    \/ a = "color" /\ theirs[a] = "none"

(* A request is carried out in whole or not at all, as its answer says; but a role
   and its memberships are separate statements (pgroles.service.ts:57, 82). *)
AllOrNothing ==
  /\ answer = "ok" => did = DOMAIN body
  /\ at = "open" /\ form.applies # "statements" =>
       /\ answer \in {"refused", "unknown", "gone", "taken"} => did = {}
       /\ did \in {{}, DOMAIN body}

(* A form is not refused for an object that is not there or no longer has its name,
   unless others removed or renamed it, or an earlier request of the form did more
   than its answer said. *)
RefusedForACause ==
  /\ answer = "gone" => ~exists
  /\ answer \in {"unknown", "taken"} => left \/ "name" \in since \/ ~exists

FormsAreSound == TypedIsStored /\ UntouchedKept /\ AllOrNothing /\ RefusedForACause
=============================================================================
