-------------------------------- MODULE MCWeb --------------------------------
(***************************************************************************)
(* Instances for TLC of the parts of the web application: what the browser *)
(* does with its tokens, the pages that show the answers, the forms that   *)
(* change one object, the dialogs of the explorer and the SQL page.  They  *)
(* share no state; a behaviour is about one of them.                       *)
(***************************************************************************)
EXTENDS Naturals

CONSTANTS Tabs, Users, ApiCalls, Nobody, Closed, MaxSignIns, MaxFaults,
          MaxVisits, MaxStrangers, MaxSaves,
          Schemas, Names, Tables, MaxConfirms, MaxMoves,
          Connections, Databases, MaxTabs, MaxTexts, MaxRuns, MaxJumps

(* A page is not mistaken for one that is gone, nor a user for nobody. *)
ASSUME TabsAssumption ==
  /\ Tabs # {} /\ Nobody \notin Users \cup Tabs \cup {Closed} /\ Closed \notin Tabs
  /\ MaxSignIns \in Nat /\ MaxFaults \in Nat

(* There is something to look at. *)
ASSUME PlacesAssumption ==
  /\ Schemas # {} /\ Names # {} /\ Tables # {}
  /\ Connections # {} /\ Databases # {}

VARIABLES topic,
          live, owner, jar, user, ready, requests, replies, calls, spender, raced, signIns,
          reloads, lost, revoked,
          query, change, place, mounted, copy, dirty, fetching, mutation, overtaken, failed, visits,
          form, follow, creating, stored, exists, todo, work, opened, draft, at, body, answer,
          did, carried, left, theirs, since, over, strangers, saves,
          panel, schema, mount, open, box, pending, sent, reference, loaded, asked, slipped,
          moves,
          page, conn, db, lists, state, drafts, response, running, waiting, asking, stash, execs,
          mounts, typed, analyzed, strayed, moved, foreign, ids, texts, jumps

B == INSTANCE Browser WITH Calls <- ApiCalls
S == INSTANCE Screens WITH view <- place, cache <- copy, fetch <- fetching, call <- mutation
F == INSTANCE Forms WITH asked <- carried, others <- strangers, MaxOthers <- MaxStrangers
D == INSTANCE Dialogs WITH dialog <- open
P == INSTANCE SqlPage WITH pending <- waiting, mount <- mounts, moves <- jumps,
                           MaxMoves <- MaxJumps

sessionVars == <<live, owner, jar, user, ready, requests, replies, calls, spender, raced, signIns,
                 reloads, lost, revoked>>
screenVars  == <<query, change, place, mounted, copy, dirty, fetching, mutation, overtaken, failed,
                 visits>>
formVars    == <<form, follow, creating, stored, exists, todo, work, opened, draft, at, body,
                 answer, did, carried, left, theirs, since, over, strangers, saves>>
dialogVars  == <<panel, schema, mount, open, box, pending, sent, reference, loaded, asked, slipped,
                 moves>>
pageVars    == <<page, conn, db, lists, state, drafts, response, running, waiting, asking, stash,
                 execs, mounts, typed, analyzed, strayed, moved, foreign, ids, texts, jumps>>

WebInit ==
  /\ topic \in {"sessions", "screens", "forms", "dialogs", "pages"}
  /\ B!Init
  /\ S!Init /\ (topic # "screens" => query = "rows" /\ change = "changeRows" /\ place = "home")
  /\ F!Init
  /\ topic # "forms" => form = F!ColumnDialog /\ follow = {"name", "type"} /\ ~creating
  /\ D!Init
  /\ topic # "dialogs" => panel = "structure" /\ schema = CHOOSE s \in Schemas : TRUE
  /\ P!Init

WebNext ==
  /\ \/ topic = "sessions" /\ B!Next
        /\ UNCHANGED <<screenVars, formVars, dialogVars, pageVars>>
     \/ topic = "screens" /\ S!Next
        /\ UNCHANGED <<sessionVars, formVars, dialogVars, pageVars>>
     \/ topic = "forms" /\ F!Next
        /\ UNCHANGED <<sessionVars, screenVars, dialogVars, pageVars>>
     \/ topic = "dialogs" /\ D!Next
        /\ UNCHANGED <<sessionVars, screenVars, formVars, pageVars>>
     \/ topic = "pages" /\ P!Next
        /\ UNCHANGED <<sessionVars, screenVars, formVars, dialogVars>>
  /\ UNCHANGED topic

(* The network of the browser: what was sent arrives, or is lost. *)
WebSpec ==
  /\ WebInit
  /\ [][WebNext]_<<topic, sessionVars, screenVars, formVars, dialogVars, pageVars>>
  /\ WF_sessionVars(topic = "sessions" /\ B!Network)

(* The browser keeps the session it has, and leaves none behind, however refreshes,
   sign-ins and logouts of several tabs overlap (api.ts:36, auth.service.ts:107). *)
SessionsAreSound == B!SessionsAreSound

(* After a change has been acknowledged no page goes on showing what it replaced,
   but for a list of gaps (invalidateQueries in web/src/features). *)
ShowsOwnChanges == S!ShowsOwnChanges

(* What a form saves is what the user typed, it leaves alone what was not touched,
   and a refusal or a failure has a cause the user can see, whatever others do to the
   object while the form is open (ddl-dialogs.tsx:228, RolesPage.tsx:177,
   pgroles.service.ts:44). *)
FormsAreSound == F!FormsAreSound

(* What is dropped, and whether with CASCADE, is what the dialog showed, whatever
   was answered or opened meanwhile (StructureView.tsx:46, 542-604,
   SchemaTree.tsx:96). *)
DialogsAreSound == D!DialogsAreSound

(* The SQL page keeps what is typed, shows the answer that belongs to the text above
   it, cancels what runs, and analyzes the statement in the database it asked about,
   but for a list of gaps (SqlPage.tsx:59-167, 305). *)
PagesAreSound == P!PagesAreSound

(* Once nobody reloads any more every page is ready and no call waits for the
   shared refresh, whatever was lost (api.ts:44, 107). *)
SessionsSettle == topic = "sessions" => B!PagesSettle
=============================================================================
