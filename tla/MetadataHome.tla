----------------------------- MODULE MetadataHome -----------------------------
(***************************************************************************)
(* Where the server keeps its own data: the SQLite file with its           *)
(* write-ahead log, the row in PostgreSQL that replaces it at boot         *)
(* (index.ts), and the setting in the .env files that says which row       *)
(* (metadata.service.ts, env-file.ts).  Replication is one step here, see  *)
(* MetadataSync.  A content is the set of the writes it holds.             *)
(***************************************************************************)
EXTENDS Naturals, FiniteSets

CONSTANTS
  Writes,      \* statements that change the store, each made once
  Targets,     \* databases that may hold the row
  None,        \* no target: SQLite only
  Foreign,     \* what another deployment has written
  Locked,      \* .env files that cannot be written
  MaxBoots, MaxSaves, MaxEdits   \* bounds: starts, settings saved, files edited

(* The .env files in the order startup looks for them. *)
Files == {"near", "far"}

ASSUME HomeAssumption ==
  /\ None \notin Targets /\ "absent" \notin Targets \cup {None} /\ Foreign \notin Writes
  /\ Locked \subseteq Files
  /\ MaxBoots \in Nat /\ MaxSaves \in Nat /\ MaxEdits \in Nat

VARIABLES
  file,        \* "absent", "whole" or "torn": the main file
  main,        \* what it holds
  wal,         \* what only its write-ahead log holds
  stale,       \* the log was written for another image
  baks,        \* what the .bak copies hold
  held,        \* targets that have a row
  row,         \* what the row holds
  env,         \* setting of each .env file; "absent" when there is no file
  phase,       \* what the process is at
  active,      \* metadataUrl of the process
  image,       \* the snapshot that it restores
  saving,      \* the call of save() in progress
  \* auxiliary
  written,     \* writes made
  dropped,     \* writes that were only in a log a restore removed, or on a lost volume
  setting,     \* the setting last saved
  edited,      \* the operator changed a setting by hand
  seed,        \* writes the store held when the save that seeded a target was asked for
  boots, saves, edits

disk     == <<file, main, wal, stale, baks>>
rows     == <<held, row>>
process  == <<phase, active, image, saving>>
aux      == <<dropped, setting, edited, seed, boots, saves, edits>>
vars     == <<disk, rows, env, process, written, aux>>

Contents == SUBSET (Writes \cup {Foreign})
Settings == Targets \cup {None}
Store    == main \cup wal
Present  == {f \in Files : env[f] # "absent"}
Phases   == {"down", "loading", "copying", "clearing", "writing", "opening", "up"}
NoSave   == [step |-> "idle", to |-> None, asked |-> {}, image |-> {}]

TypeOK ==
  /\ file \in {"absent", "whole", "torn"}
  /\ main \in Contents /\ wal \in Contents /\ baks \in Contents /\ stale \in BOOLEAN
  /\ held \subseteq Targets /\ row \in [Targets -> Contents]
  /\ env \in [Files -> Settings \cup {"absent"}]
  /\ phase \in Phases /\ active \in Settings /\ image \in Contents
  /\ saving \in [step : {"idle", "testing", "init", "seeding", "landed"}, to : Settings,
                 asked : Contents, image : Contents]
  /\ written \subseteq Writes /\ dropped \subseteq Writes
  /\ setting \in Settings /\ edited \in BOOLEAN /\ seed \in [Targets -> Contents]

(* A server that never ran; some targets hold the row of another deployment. *)
Init ==
  /\ file = "absent" /\ main = {} /\ wal = {} /\ stale = FALSE /\ baks = {}
  /\ held \in SUBSET Targets
  /\ row = [t \in Targets |-> IF t \in held THEN {Foreign} ELSE {}]
  /\ env \in [Files -> {None, "absent"}]
  /\ phase = "down" /\ active = None /\ image = {} /\ saving = NoSave
  /\ written = {} /\ dropped = {} /\ setting = None /\ edited = FALSE
  /\ seed = [t \in Targets |-> {}]
  /\ boots = 0 /\ saves = 0 /\ edits = 0

-----------------------------------------------------------------------------
(* Boot *)

(* loadEnvFile(): the first file that exists. *)
Loaded == IF env["near"] # "absent" THEN env["near"]
          ELSE IF env["far"] # "absent" THEN env["far"] ELSE None

Boot ==
  /\ phase = "down" /\ boots < MaxBoots
  /\ boots' = boots + 1
  /\ active' = Loaded
  /\ phase' = IF Loaded = None THEN "opening" ELSE "loading"
  /\ UNCHANGED <<disk, rows, env, image, saving, written, dropped, setting, edited, seed, saves,
                 edits>>

(* init() and load(). *)
Load ==
  /\ phase = "loading"
  /\ image' = row[active]
  /\ phase' = IF active \in held THEN "copying" ELSE "opening"
  /\ UNCHANGED <<disk, rows, env, active, saving, written, aux>>

(* Fault: the local file is replaced without a copy. *)
CopyNothing ==
  /\ phase = "copying" /\ phase' = "clearing"
  /\ UNCHANGED <<disk, rows, env, active, image, saving, written, aux>>

(* copyFileSync() of the main file, and of nothing beside it. *)
Copy ==
  /\ phase = "copying" /\ phase' = "clearing"
  /\ baks' = IF file = "whole" THEN baks \cup main ELSE baks
  /\ UNCHANGED <<file, main, wal, stale, rows, env, active, image, saving, written, aux>>

(* Fault: the log is removed after the image is written. *)
ClearLater ==
  /\ phase = "clearing" /\ phase' = "writing"
  /\ UNCHANGED <<disk, rows, env, active, image, saving, written, aux>>

(* rmSync() of the log and its index. *)
Clear ==
  /\ phase = "clearing" /\ phase' = "writing"
  /\ dropped' = dropped \cup ((wal \ (main \cup baks)) \ {Foreign})
  /\ wal' = {} /\ stale' = FALSE
  /\ UNCHANGED <<file, main, baks, rows, env, active, image, saving, written, setting, edited,
                 seed, boots, saves, edits>>

(* writeFileSync() *)
WriteImage ==
  /\ phase = "writing" /\ phase' = "opening"
  /\ file' = "whole" /\ main' = image
  /\ stale' = (wal # {})
  /\ UNCHANGED <<wal, baks, rows, env, active, image, saving, written, aux>>

(* The store is opened; half a file is not a database. *)
Open ==
  /\ phase = "opening"
  /\ IF file = "torn" THEN phase' = "down" /\ UNCHANGED file
                      ELSE phase' = "up" /\ file' = "whole"
  /\ image' = {}
  /\ UNCHANGED <<main, wal, stale, baks, rows, env, active, saving, written, aux>>

-----------------------------------------------------------------------------
(* The server runs *)

(* wal_checkpoint: by SQLite when the log is long, by snapshot(), by close(). *)
Checkpointed == main' = Store /\ wal' = {} /\ UNCHANGED <<file, stale, baks>>

Write(w) ==
  /\ phase = "up" /\ w \notin written
  /\ written' = written \cup {w}
  /\ \/ wal' = wal \cup {w} /\ UNCHANGED main
     \/ main' = Store \cup {w} /\ wal' = {}
  /\ UNCHANGED <<file, stale, baks, rows, env, process, aux>>

(* The replication to the active target; see MetadataSync. *)
Upload ==
  /\ phase = "up" /\ active # None
  /\ Checkpointed
  /\ held' = held \cup {active} /\ row' = [row EXCEPT ![active] = Store]
  /\ UNCHANGED <<env, process, written, aux>>

(* save(): the target is tested. *)
Save(t) ==
  /\ phase = "up" /\ saving.step = "idle" /\ saves < MaxSaves
  /\ saves' = saves + 1
  /\ saving' = [step |-> "testing", to |-> t, asked |-> Store, image |-> {}]
  /\ UNCHANGED <<disk, rows, env, phase, active, image, written, dropped, setting, edited, seed,
                 boots, edits>>

(* The files that startup could load; ".env" when there are none. *)
EnvFiles == IF Present = {} THEN {"near"} ELSE Present

(* Fault: only the file that startup loads is written. *)
WriteFirst(value) ==
  LET first == IF "near" \in EnvFiles THEN "near" ELSE "far"
  IN  /\ env' = [env EXCEPT ![first] = IF first \in Locked THEN @ ELSE value]
      /\ setting' = value /\ edited' = FALSE

(* writeAll(): every file that can be written; removing a setting makes none. *)
WriteAll(value) ==
  /\ env' = [f \in Files |->
               IF f \in EnvFiles \ Locked /\ (value = None => env[f] # "absent")
                 THEN value ELSE env[f]]
  /\ setting' = value /\ edited' = FALSE

(* A target that holds a snapshot is left untouched. *)
Tested ==
  /\ saving.step = "testing"
  /\ IF saving.to \in held
       THEN WriteAll(saving.to) /\ saving' = NoSave
       ELSE saving' = [saving EXCEPT !.step = "init"] /\ UNCHANGED <<env, setting, edited>>
  /\ UNCHANGED <<disk, rows, phase, active, image, written, dropped, seed, boots, saves, edits>>

(* Fault: the log is not folded into the main file before it is read. *)
SnapshotUnfolded ==
  /\ saving.step = "init"
  /\ saving' = [saving EXCEPT !.step = "seeding", !.image = main]
  /\ UNCHANGED <<disk, rows, env, phase, active, image, written, aux>>

(* init() of the target is done: snapshot(), and its upload is sent. *)
Snapshot ==
  /\ saving.step = "init"
  /\ Checkpointed
  /\ saving' = [saving EXCEPT !.step = "seeding", !.image = Store]
  /\ UNCHANGED <<rows, env, phase, active, image, written, aux>>

Land ==
  /\ saving.step = "seeding"
  /\ held' = held \cup {saving.to} /\ row' = [row EXCEPT ![saving.to] = saving.image]
  /\ seed' = [seed EXCEPT ![saving.to] = saving.asked]
  /\ saving' = [saving EXCEPT !.step = "landed"]
  /\ UNCHANGED <<disk, env, phase, active, image, written, dropped, setting, edited, boots,
                 saves, edits>>

Saved ==
  /\ saving.step = "landed"
  /\ WriteAll(saving.to) /\ saving' = NoSave
  /\ UNCHANGED <<disk, rows, phase, active, image, written, dropped, seed, boots, saves, edits>>

(* A connection that fails, before or after its upload landed. *)
SaveFails ==
  /\ saving.step # "idle" /\ saving' = NoSave
  /\ UNCHANGED <<disk, rows, env, phase, active, image, written, aux>>

Disable ==
  /\ phase = "up" /\ saves < MaxSaves /\ saves' = saves + 1
  /\ WriteAll(None)
  /\ UNCHANGED <<disk, rows, process, written, dropped, seed, boots, edits>>

(* SIGTERM: the last flush lands or fails, the store is closed. *)
Stop ==
  /\ phase = "up" /\ phase' = "down" /\ saving' = NoSave
  /\ Checkpointed
  /\ \/ UNCHANGED rows
     \/ /\ active # None
        /\ held' = held \cup {active} /\ row' = [row EXCEPT ![active] = Store]
  /\ UNCHANGED <<env, active, image, written, aux>>

-----------------------------------------------------------------------------
(* The process is killed at any time, in the middle of writing the image too. *)
Crash ==
  /\ phase # "down" /\ phase' = "down" /\ saving' = NoSave /\ image' = {}
  /\ \/ UNCHANGED <<file, main, stale>>
     \/ phase = "writing" /\ file' = "torn" /\ main' = {} /\ stale' = (wal # {})
  /\ UNCHANGED <<wal, baks, rows, env, active, written, aux>>

(* A container that comes back without its volume. *)
VolumeLost ==
  /\ phase = "down" /\ file # "absent"
  /\ dropped' = dropped \cup ((Store \cup baks) \ {Foreign})
  /\ file' = "absent" /\ main' = {} /\ wal' = {} /\ stale' = FALSE /\ baks' = {}
  /\ UNCHANGED <<rows, env, process, written, setting, edited, seed, boots, saves, edits>>

(* The operator removes one .env file of two, or changes a setting by hand. *)
RemoveFile(f) ==
  /\ edits < MaxEdits /\ edits' = edits + 1
  /\ Present = Files
  /\ env' = [env EXCEPT ![f] = "absent"]
  /\ UNCHANGED <<disk, rows, process, written, dropped, setting, edited, seed, boots, saves>>

Edit(f, value) ==
  /\ edits < MaxEdits /\ edits' = edits + 1
  /\ env[f] # value /\ env' = [env EXCEPT ![f] = value] /\ edited' = TRUE
  /\ UNCHANGED <<disk, rows, process, written, dropped, setting, seed, boots, saves>>

-----------------------------------------------------------------------------
Starting == Boot \/ Load \/ Copy \/ Clear \/ WriteImage \/ Open
Saving   == (\E t \in Targets : Save(t)) \/ Tested \/ Snapshot \/ Land \/ Saved \/ SaveFails
Operator == \/ \E f \in Files : RemoveFile(f)
            \/ \E f \in Files, value \in Settings : Edit(f, value)

Next ==
  \/ Starting \/ Saving \/ Disable
  \/ (\E w \in Writes : Write(w)) \/ Upload
  \/ Stop \/ Crash \/ VolumeLost
  \/ Operator

Spec == Init /\ [][Next]_vars

-----------------------------------------------------------------------------
(* Properties *)

Kept == Store \cup baks \cup UNION {row[t] : t \in Targets}

(* Whatever row replaces the local file at boot, each write is still in the
   file, in a .bak copy or in a row, unless it was only in a log that a restore
   removed or on a volume that was lost (index.ts:60-68). *)
NothingDiscarded == written \subseteq Kept \cup dropped

(* The store is never opened with the log of another image, wherever a restore
   was interrupted (index.ts:65). *)
LogMatchesImage == phase = "up" => ~stale

(* A server starts with the setting that was saved last, although one of the
   files has been removed since - as long as every file can be written and no
   one edits them (metadata.service.ts:48-52). *)
SettingTakesEffect ==
  [][Boot /\ Locked = {} /\ ~edited => active' = setting]_vars

(* "the users and connections you have right now become the first snapshot"
   (metadata.service.ts:121): a server that starts from a target that was
   seeded has what the store held when the save was asked for. *)
SwitchLossless == phase = "up" /\ active # None => seed[active] \subseteq Store

(* No write is lost by a boot or by a change of the home: it is somewhere, a server
   that was moved starts with it, and no image is opened with the log of another
   (index.ts:60-68, metadata.service.ts:121). *)
StoreSurvives == NothingDiscarded /\ SwitchLossless /\ LogMatchesImage
=============================================================================
