-------------------------- MODULE MetadataHome_proofs --------------------------
(***************************************************************************)
(* No write is lost by a boot or a change of the home of the metadata, the *)
(* setting saved last takes effect; the report of a delivery is true and   *)
(* no secret is lost: for any number of writes, targets, starts,           *)
(* deliveries, chats and saves.                                            *)
(***************************************************************************)
EXTENDS MCMetadataHome, Sequences, TLAPS

-----------------------------------------------------------------------------
(* The home of the metadata *)

(* While a restore is under way what it replaces has been copied, and the log is
   gone before the image is written; the store is open only over a whole file. *)
RestoresInOrder ==
  /\ ~stale
  /\ file # "whole" => main = {} /\ phase # "up"
  /\ phase \in {"clearing", "writing"} => main \subseteq baks
  /\ phase = "writing" => wal = {}
  /\ phase \in {"loading", "copying", "clearing", "writing"} => active # None
  /\ phase \in {"copying", "clearing", "writing"} => image = row[active]

(* A target without a row holds nothing; the row of the active target holds nothing
   that the open store lacks; what was asked to be kept in a seeded row is in it. *)
RowsFollowStore ==
  /\ \A t \in Targets \ held : row[t] = {}
  /\ phase \in {"opening", "up"} /\ active # None => row[active] \subseteq Store
  /\ \A t \in Targets : seed[t] \subseteq row[t]

(* A save in progress: only a running server has one, and the target it seeds has no
   row but the one the replication writes. *)
SavesInOrder ==
  /\ saving.step # "idle" => phase = "up" /\ saving.to \in Targets /\ saving.asked \subseteq Store
  /\ saving.step \in {"init", "seeding"} => saving.to \notin held \/ saving.to = active
  /\ saving.step = "seeding" => saving.asked \subseteq saving.image /\ saving.image \subseteq Store

(* Every .env file that is there says what was saved last. *)
FilesAgree ==
  Locked = {} /\ ~edited =>
    /\ \A f \in Present : env[f] = setting
    /\ Present = {} => setting = None

HomeInv == TypeOK /\ NothingDiscarded /\ RestoresInOrder /\ RowsFollowStore /\ SavesInOrder /\ FilesAgree

(* Where a write may be. *)
Somewhere(w) ==
  \/ w \in main \cup wal \cup baks \cup dropped
  \/ \E t \in Targets : w \in row[t]

(* NothingDiscarded, write by write. *)
LEMMA DiscardedNowhere ==
  /\ NothingDiscarded <=> \A w \in written : Somewhere(w)
  /\ NothingDiscarded' <=> (\A w \in written : Somewhere(w))'
BY DEF NothingDiscarded, Kept, Store, Somewhere

(* A server that never ran. *)
LEMMA HomeInit == Init => HomeInv
<1> SUFFICES ASSUME Init PROVE HomeInv
    OBVIOUS
<1> USE HomeAssumption DEF Init, Contents, Settings, Store
<1>1. TypeOK
  BY DEF TypeOK, NoSave, Phases
<1>2. NothingDiscarded /\ RestoresInOrder /\ SavesInOrder
  BY DEF NothingDiscarded, RestoresInOrder, SavesInOrder, NoSave
<1>3. RowsFollowStore /\ FilesAgree
  BY DEF RowsFollowStore, FilesAgree, Present
<1> QED
  BY <1>1, <1>2, <1>3 DEF HomeInv

(* The parts that a step which leaves the .env files and what is known of them alone
   has no part in. *)
LEMMA FilesUntouched ==
  ASSUME FilesAgree, UNCHANGED <<env, setting, edited>>
  PROVE  FilesAgree'
BY DEF FilesAgree, Present

(* The boot (index.ts:56-70): each write the image does not hold is in a .bak copy, in
   the row or among the dropped. *)
LEMMA StartStep ==
  ASSUME HomeInv, Starting
  PROVE  HomeInv'
<1> USE HomeAssumption
    DEF HomeInv, TypeOK, Contents, Settings, Store, disk, rows, process, aux
<1>1. CASE Boot
  <2> USE <1>1 DEF Boot
  <2>1. Loaded \in Settings
    BY DEF Loaded, Files
  <2>2. TypeOK'
    BY <2>1 DEF Phases
  <2>3. NothingDiscarded'
    BY DiscardedNowhere DEF Somewhere
  <2>4. RestoresInOrder' /\ RowsFollowStore' /\ SavesInOrder'
    BY <2>1 DEF RestoresInOrder, RowsFollowStore, SavesInOrder
  <2> QED
    BY <2>2, <2>3, <2>4, FilesUntouched
<1>2. CASE Load
  <2> USE <1>2 DEF Load
  <2>1. active \in Targets
    BY DEF RestoresInOrder
  <2>2. TypeOK'
    BY <2>1 DEF Phases
  <2>3. NothingDiscarded'
    BY DiscardedNowhere DEF Somewhere
  <2>4. RestoresInOrder' /\ RowsFollowStore' /\ SavesInOrder'
    BY <2>1 DEF RestoresInOrder, RowsFollowStore, SavesInOrder
  <2> QED
    BY <2>2, <2>3, <2>4, FilesUntouched
<1>3. CASE Copy
  <2> USE <1>3 DEF Copy
  <2>2. TypeOK'
    BY DEF Phases
  <2>3. NothingDiscarded'
    BY DiscardedNowhere DEF Somewhere
  <2>4. RestoresInOrder' /\ RowsFollowStore' /\ SavesInOrder'
    BY DEF RestoresInOrder, RowsFollowStore, SavesInOrder
  <2> QED
    BY <2>2, <2>3, <2>4, FilesUntouched
<1>4. CASE Clear
  <2> USE <1>4 DEF Clear
  <2>2. TypeOK'
    BY DEF Phases
  <2>3. NothingDiscarded'
    BY DiscardedNowhere DEF Somewhere
  <2>4. RestoresInOrder' /\ RowsFollowStore' /\ SavesInOrder'
    BY DEF RestoresInOrder, RowsFollowStore, SavesInOrder
  <2> QED
    BY <2>2, <2>3, <2>4, FilesUntouched
<1>5. CASE WriteImage
  <2> USE <1>5 DEF WriteImage
  <2>2. TypeOK'
    BY DEF Phases
  <2>3. NothingDiscarded'
    BY DiscardedNowhere DEF Somewhere, RestoresInOrder
  <2>4. RestoresInOrder' /\ RowsFollowStore' /\ SavesInOrder'
    BY DEF RestoresInOrder, RowsFollowStore, SavesInOrder
  <2> QED
    BY <2>2, <2>3, <2>4, FilesUntouched
<1>6. CASE Open
  <2> USE <1>6 DEF Open
  <2>2. TypeOK'
    BY DEF Phases
  <2>3. NothingDiscarded'
    BY DiscardedNowhere DEF Somewhere
  <2>4. RestoresInOrder' /\ RowsFollowStore' /\ SavesInOrder'
    BY DEF RestoresInOrder, RowsFollowStore, SavesInOrder
  <2> QED
    BY <2>2, <2>3, <2>4, FilesUntouched
<1> QED
  BY <1>1, <1>2, <1>3, <1>4, <1>5, <1>6 DEF Starting

(* The server runs and stops: the store only grows, and the row of the active target
   follows it. *)
LEMMA RunStep ==
  ASSUME HomeInv, (\E w \in Writes : Write(w)) \/ Upload \/ Stop
  PROVE  HomeInv'
<1> USE HomeAssumption
    DEF HomeInv, TypeOK, Contents, Settings, Store, disk, rows, process, aux, Checkpointed
<1>1. ASSUME NEW w \in Writes, Write(w) PROVE HomeInv'
  <2> USE <1>1 DEF Write
  <2>1. TypeOK'
    BY DEF Phases
  <2>2. NothingDiscarded'
    BY DiscardedNowhere DEF Somewhere
  <2>3. Store \subseteq Store'
    OBVIOUS
  <2>4. RestoresInOrder'
    BY DEF RestoresInOrder
  <2>5. RowsFollowStore'
    BY <2>3 DEF RowsFollowStore, RestoresInOrder, SavesInOrder
  <2>6. SavesInOrder'
    BY <2>3 DEF SavesInOrder
  <2> QED
    BY <2>1, <2>2, <2>4, <2>5, <2>6, FilesUntouched
<1>2. CASE Upload
  <2> USE <1>2 DEF Upload
  <2>1. TypeOK'
    BY DEF Phases
  <2>2. NothingDiscarded'
    BY DiscardedNowhere DEF Somewhere, RowsFollowStore
  <2>3. Store \subseteq Store'
    OBVIOUS
  <2>4. RestoresInOrder'
    BY DEF RestoresInOrder
  <2>5. RowsFollowStore'
    BY <2>3 DEF RowsFollowStore, RestoresInOrder, SavesInOrder
  <2>6. SavesInOrder'
    BY <2>3 DEF SavesInOrder
  <2> QED
    BY <2>1, <2>2, <2>4, <2>5, <2>6, FilesUntouched
<1>3. CASE Stop
  <2> USE <1>3 DEF Stop, NoSave
  <2>1. TypeOK'
    BY DEF Phases
  <2>2. NothingDiscarded'
    BY DiscardedNowhere DEF Somewhere, RowsFollowStore
  <2>3. Store \subseteq Store'
    OBVIOUS
  <2>4. RestoresInOrder'
    BY DEF RestoresInOrder
  <2>5. RowsFollowStore'
    BY <2>3 DEF RowsFollowStore, RestoresInOrder, SavesInOrder
  <2>6. SavesInOrder'
    BY <2>3 DEF SavesInOrder
  <2> QED
    BY <2>1, <2>2, <2>4, <2>5, <2>6, FilesUntouched
<1> QED
  BY <1>1, <1>2, <1>3

(* writeAll() makes every file agree that can be written. *)
LEMMA WriteAllStep ==
  ASSUME HomeInv, NEW value \in Settings, WriteAll(value)
  PROVE  /\ env' \in [Files -> Settings \cup {"absent"}] /\ setting' \in Settings /\ edited' \in BOOLEAN
         /\ FilesAgree'
BY HomeAssumption DEF HomeInv, TypeOK, Settings, WriteAll, EnvFiles, Present, FilesAgree, Files

(* save() and disable(): the image that lands holds what was asked to be kept. *)
LEMMA SaveHomeStep ==
  ASSUME HomeInv, Saving \/ Disable
  PROVE  HomeInv'
<1> USE HomeAssumption
    DEF HomeInv, TypeOK, Contents, Settings, Store, disk, rows, process, aux, Checkpointed
<1>1. ASSUME NEW t \in Targets, Save(t) PROVE HomeInv'
  <2> USE <1>1 DEF Save
  <2>1. TypeOK'
    BY DEF Phases
  <2>2. NothingDiscarded'
    BY DiscardedNowhere DEF Somewhere
  <2>3. RestoresInOrder' /\ RowsFollowStore' /\ SavesInOrder'
    BY DEF RestoresInOrder, RowsFollowStore, SavesInOrder
  <2> QED
    BY <2>1, <2>2, <2>3, FilesUntouched
<1>2. CASE Tested
  <2> USE <1>2 DEF Tested, NoSave
  <2>1. saving.to \in Settings
    OBVIOUS
  <2>2. /\ env' \in [Files -> Settings \cup {"absent"}] /\ setting' \in Settings
        /\ edited' \in BOOLEAN /\ FilesAgree'
    BY <2>1, WriteAllStep, FilesUntouched
  <2>3. TypeOK'
    BY <2>2 DEF Phases
  <2>4. NothingDiscarded'
    BY DiscardedNowhere DEF Somewhere
  <2>5. RestoresInOrder' /\ RowsFollowStore' /\ SavesInOrder'
    BY DEF RestoresInOrder, RowsFollowStore, SavesInOrder
  <2> QED
    BY <2>2, <2>3, <2>4, <2>5
<1>3. CASE Snapshot
  <2> USE <1>3 DEF Snapshot
  <2>1. TypeOK'
    BY DEF Phases
  <2>2. NothingDiscarded'
    BY DiscardedNowhere DEF Somewhere
  <2>3. Store \subseteq Store'
    OBVIOUS
  <2>4. RestoresInOrder'
    BY DEF RestoresInOrder, SavesInOrder
  <2>5. RowsFollowStore'
    BY <2>3 DEF RowsFollowStore, RestoresInOrder, SavesInOrder
  <2>6. SavesInOrder'
    BY <2>3 DEF SavesInOrder
  <2> QED
    BY <2>1, <2>2, <2>4, <2>5, <2>6, FilesUntouched
<1>4. CASE Land
  <2> USE <1>4 DEF Land
  <2>1. TypeOK'
    BY DEF Phases, SavesInOrder
  <2>2. NothingDiscarded'
    BY DiscardedNowhere DEF Somewhere, RowsFollowStore, SavesInOrder
  <2>3. RestoresInOrder' /\ RowsFollowStore' /\ SavesInOrder'
    BY DEF RestoresInOrder, RowsFollowStore, SavesInOrder
  <2> QED
    BY <2>1, <2>2, <2>3, FilesUntouched
<1>5. CASE Saved
  <2> USE <1>5 DEF Saved, NoSave
  <2>1. /\ env' \in [Files -> Settings \cup {"absent"}] /\ setting' \in Settings
        /\ edited' \in BOOLEAN /\ FilesAgree'
    BY WriteAllStep
  <2>2. TypeOK'
    BY <2>1 DEF Phases
  <2>3. NothingDiscarded'
    BY DiscardedNowhere DEF Somewhere
  <2>4. RestoresInOrder' /\ RowsFollowStore' /\ SavesInOrder'
    BY DEF RestoresInOrder, RowsFollowStore, SavesInOrder
  <2> QED
    BY <2>1, <2>2, <2>3, <2>4
<1>6. CASE SaveFails
  <2> USE <1>6 DEF SaveFails, NoSave
  <2>1. TypeOK'
    BY DEF Phases
  <2>2. NothingDiscarded'
    BY DiscardedNowhere DEF Somewhere
  <2>3. RestoresInOrder' /\ RowsFollowStore' /\ SavesInOrder'
    BY DEF RestoresInOrder, RowsFollowStore, SavesInOrder
  <2> QED
    BY <2>1, <2>2, <2>3, FilesUntouched
<1>7. CASE Disable
  <2> USE <1>7 DEF Disable
  <2>1. /\ env' \in [Files -> Settings \cup {"absent"}] /\ setting' \in Settings
        /\ edited' \in BOOLEAN /\ FilesAgree'
    BY WriteAllStep
  <2>2. TypeOK'
    BY <2>1 DEF Phases
  <2>3. NothingDiscarded'
    BY DiscardedNowhere DEF Somewhere
  <2>4. RestoresInOrder' /\ RowsFollowStore' /\ SavesInOrder'
    BY DEF RestoresInOrder, RowsFollowStore, SavesInOrder
  <2> QED
    BY <2>1, <2>2, <2>3, <2>4
<1> QED
  BY <1>1, <1>2, <1>3, <1>4, <1>5, <1>6, <1>7 DEF Saving

(* A kill at any point of the boot, and a volume that is lost. *)
LEMMA DownStep ==
  ASSUME HomeInv, Crash \/ VolumeLost
  PROVE  HomeInv'
<1> USE HomeAssumption
    DEF HomeInv, TypeOK, Contents, Settings, Store, disk, rows, process, aux
<1>1. CASE Crash
  <2> USE <1>1 DEF Crash, NoSave
  <2>1. TypeOK'
    BY DEF Phases
  <2>2. NothingDiscarded'
    BY DiscardedNowhere DEF Somewhere, RestoresInOrder
  <2>3. RestoresInOrder' /\ RowsFollowStore' /\ SavesInOrder'
    BY DEF RestoresInOrder, RowsFollowStore, SavesInOrder
  <2> QED
    BY <2>1, <2>2, <2>3, FilesUntouched
<1>2. CASE VolumeLost
  <2> USE <1>2 DEF VolumeLost
  <2>1. TypeOK'
    BY DEF Phases
  <2>2. NothingDiscarded'
    BY DiscardedNowhere DEF Somewhere
  <2>3. RestoresInOrder' /\ RowsFollowStore' /\ SavesInOrder'
    BY DEF RestoresInOrder, RowsFollowStore, SavesInOrder
  <2> QED
    BY <2>1, <2>2, <2>3, FilesUntouched
<1> QED
  BY <1>1, <1>2

(* The operator removes one file of two or edits one. *)
LEMMA OperatorStep ==
  ASSUME HomeInv, Operator
  PROVE  HomeInv'
<1> USE HomeAssumption
    DEF HomeInv, TypeOK, Contents, Settings, Store, disk, rows, process, aux, RemoveFile, Edit
<1> DEFINE Elsewhere == /\ UNCHANGED <<disk, rows, process, written, dropped, setting, seed>>
                        /\ env' \in [Files -> Settings \cup {"absent"}] /\ edited' \in BOOLEAN
<1>1. Elsewhere
  <2>1. ASSUME NEW f \in Files, RemoveFile(f) PROVE Elsewhere
    BY <2>1
  <2>2. ASSUME NEW f \in Files, NEW value \in Settings, Edit(f, value) PROVE Elsewhere
    BY <2>2
  <2> QED
    BY <2>1, <2>2 DEF Operator
<1>2. TypeOK'
  BY <1>1
<1>3. NothingDiscarded'
  BY <1>1, DiscardedNowhere DEF Somewhere
<1>4. RestoresInOrder' /\ RowsFollowStore' /\ SavesInOrder'
  BY <1>1 DEF RestoresInOrder, RowsFollowStore, SavesInOrder
<1>5. FilesAgree'
  <2>1. ASSUME NEW f \in Files, RemoveFile(f) PROVE FilesAgree'
    BY <2>1 DEF FilesAgree, Present, Files
  <2>2. ASSUME NEW f \in Files, NEW value \in Settings, Edit(f, value) PROVE FilesAgree'
    BY <2>2 DEF FilesAgree
  <2> QED
    BY <2>1, <2>2 DEF Operator
<1> QED
  BY <1>2, <1>3, <1>4, <1>5

(* HomeInv is inductive. *)
LEMMA HomeStep == HomeInv /\ [Next]_vars => HomeInv'
<1> SUFFICES ASSUME HomeInv, [Next]_vars PROVE HomeInv'
    OBVIOUS
<1>1. CASE UNCHANGED vars
  <2> USE <1>1 DEF vars, disk, rows, process, aux, HomeInv
  <2>1. TypeOK' /\ NothingDiscarded'
    BY DEF TypeOK, NothingDiscarded, Kept, Store
  <2>2. RestoresInOrder' /\ RowsFollowStore' /\ SavesInOrder' /\ FilesAgree'
    BY DEF RestoresInOrder, RowsFollowStore, SavesInOrder, FilesAgree, Store, Present
  <2> QED
    BY <2>1, <2>2
<1>2. CASE Next
  BY <1>2, StartStep, RunStep, SaveHomeStep, DownStep, OperatorStep DEF Next
<1> QED
  BY <1>1, <1>2

(* The inductive invariant of the home of the metadata. *)
THEOREM HomeInvariance == Spec => []HomeInv
  BY HomeInit, HomeStep, PTL DEF Spec

(* A boot and a change of the home lose no write, a server that was moved starts with what
   it had, and no image is opened with the log of another (index.ts:60-68,
   metadata.service.ts:121): for any number of writes, targets, saves and crashes. *)
THEOREM NoWriteIsLost == Spec => []StoreSurvives
<1>1. HomeInv => StoreSurvives
  <2> SUFFICES ASSUME HomeInv PROVE SwitchLossless /\ LogMatchesImage
    BY DEF HomeInv, StoreSurvives
  <2>1. LogMatchesImage
    BY DEF HomeInv, RestoresInOrder, LogMatchesImage
  <2>2. SwitchLossless
    <3> SUFFICES ASSUME phase = "up", active # None PROVE seed[active] \subseteq Store
      BY DEF SwitchLossless
    <3>1. active \in Targets
      BY DEF HomeInv, TypeOK, Settings
    <3> QED
      BY <3>1 DEF HomeInv, RowsFollowStore
  <2> QED
    BY <2>1, <2>2
<1> QED
  BY <1>1, HomeInvariance, PTL

(* A server starts with the setting saved last although a .env file has been removed since
   (metadata.service.ts:48-52). *)
THEOREM SavedSettingStarts == Spec => SettingTakesEffect
<1>1. HomeInv /\ [Next]_vars => [Boot /\ Locked = {} /\ ~edited => active' = setting]_vars
  <2> SUFFICES ASSUME HomeInv, Boot, Locked = {}, ~edited PROVE active' = setting
    OBVIOUS
  <2> QED
    BY DEF Boot, Loaded, HomeInv, FilesAgree, Present, Files, TypeOK
<1> QED
  BY <1>1, HomeInvariance, PTL DEF Spec, SettingTakesEffect

-----------------------------------------------------------------------------
(* The delivery of finished backups *)

(* The parts of the invariant that the settings have no part in. *)
DeliveryInv == D!TypeOK /\ D!ReportsAreTrue /\ D!JobsFollowSteps /\ D!TurnsAreTrue

(* The inductive invariant of deliveries holds at the start. *)
LEMMA InitIInv == D!Init => D!IInv
<1> SUFFICES ASSUME D!Init PROVE D!IInv
    OBVIOUS
<1> USE DEF D!Init
<1>1. D!TypeOK
  <2>1. D!JobTypeOK
    BY DEF D!JobInit, D!JobTypeOK, D!Statuses
  <2>2. {listed, onDisk, chatId} \subseteq BOOLEAN
    OBVIOUS
  <2>3. sent \in [Deliveries -> BOOLEAN]
    OBVIOUS
  <2>4. <<>> \in Seq(D!Channels)
    OBVIOUS
  <2>5. list \in [Deliveries -> Seq(D!Channels)]
    BY <2>4
  <2>6. /\ stored \in [D!Channels -> Nat \cup {EnvSecret}] /\ given \in [D!Channels -> Nat]
        /\ host \in {"absent", "blank", "set"} /\ at \in [Deliveries -> Nat]
        /\ dSaves \in Nat /\ restarts \in Nat
    OBVIOUS
  <2>7. /\ left \in [Deliveries -> SUBSET D!Recipients] /\ failed \in [Deliveries -> SUBSET Nat]
        /\ got \in [Deliveries -> SUBSET (Nat \X D!Recipients)]
    OBVIOUS
  <2>8. step \in [Deliveries -> D!Steps]
    BY DEF D!Steps
  <2> QED
    BY <2>1, <2>2, <2>3, <2>5, <2>6, <2>7, <2>8 DEF D!TypeOK
<1>2. D!ReportsAreTrue /\ D!JobsFollowSteps
  BY DEF D!ReportsAreTrue, D!JobsFollowSteps, D!JobInit, D!Running, D!UnderWay, D!Waiting
<1>3. D!SecretsKept
  BY DEF D!SecretsKept, D!InUse, D!StoredOrDefaultEmail, D!EmailDefaults
<1>4. D!TurnsAreTrue
  BY DEF D!TurnsAreTrue, D!UnderWay, D!Waiting
<1> QED
  BY <1>1, <1>2, <1>3, <1>4 DEF D!IInv, D!DeliveriesAreSound

-----------------------------------------------------------------------------
(* The settings *)

(* Secrets stay while the settings are left alone. *)
LEMMA SettingsUntouched ==
  ASSUME D!SecretsKept, UNCHANGED D!settings
  PROVE  D!SecretsKept'
BY DEF D!SecretsKept, D!settings, D!InUse, D!StoredOrDefaultEmail, D!EmailDefaults

(* A blank field in the form keeps the saved secret. *)
LEMMA SaveKeepsSecrets ==
  ASSUME D!IInv, NEW typed \in SUBSET D!Channels, NEW server \in {"blank", "set"}, NEW id \in BOOLEAN,
         D!SaveSettings(typed, server, id)
  PROVE  D!SecretsKept' /\ stored' \in [D!Channels -> Nat \cup {EnvSecret}] /\ given' \in [D!Channels -> Nat]
<1> USE DEF D!IInv, D!TypeOK, D!SaveSettings, D!Saved, D!Kept, D!InUse,
        D!StoredOrDefaultEmail, D!EmailDefaults
<1>1. stored' \in [D!Channels -> Nat \cup {EnvSecret}] /\ given' \in [D!Channels -> Nat]
  BY DEF D!Channels
<1>2. D!SecretsKept'
  BY DEF D!SecretsKept, D!DeliveriesAreSound, D!Channels
<1> QED
  BY <1>1, <1>2

(* Saving settings keeps the invariant of deliveries. *)
LEMMA SaveStep ==
  ASSUME D!IInv, NEW typed \in SUBSET D!Channels, NEW server \in {"blank", "set"}, NEW id \in BOOLEAN,
         D!SaveSettings(typed, server, id)
  PROVE  D!IInv'
<1>1. D!SecretsKept' /\ stored' \in [D!Channels -> Nat \cup {EnvSecret}] /\ given' \in [D!Channels -> Nat]
  BY SaveKeepsSecrets
<1>2. D!TypeOK'
  BY <1>1 DEF D!IInv, D!TypeOK, D!SaveSettings, D!Saved, D!JobTypeOK, D!jobVars, D!backup, D!delivery
<1>3. D!ReportsAreTrue' /\ D!JobsFollowSteps' /\ D!TurnsAreTrue'
  BY DEF D!IInv, D!DeliveriesAreSound, D!ReportsAreTrue, D!JobsFollowSteps, D!TurnsAreTrue, D!SaveSettings,
         D!Saved, D!jobVars, D!delivery, D!Running, D!UnderWay
<1> QED
  BY <1>1, <1>2, <1>3 DEF D!IInv, D!DeliveriesAreSound

-----------------------------------------------------------------------------
(* The steps of one delivery *)

(* A delivery that begins sends nothing yet. *)
LEMMA BeginStep ==
  ASSUME DeliveryInv, NEW n \in Deliveries, NEW channels \in Seq(D!Channels), D!Begin(n, channels)
  PROVE  DeliveryInv'
<1> USE DEF DeliveryInv, D!Begin, D!jobVars, D!backup, D!settings
<1>1. D!TypeOK'
  BY DEF D!TypeOK, D!JobTypeOK, D!Steps
<1>2. D!ReportsAreTrue'
  BY DEF D!TypeOK, D!ReportsAreTrue, D!JobsFollowSteps, D!Running, D!Waiting
<1>3. D!JobsFollowSteps'
  BY DEF D!TypeOK, D!JobsFollowSteps, D!Running, D!UnderWay, D!Waiting
<1>4. D!TurnsAreTrue'
  BY DEF D!TypeOK, D!TurnsAreTrue, D!UnderWay, D!Waiting
<1> QED
  BY <1>1, <1>2, <1>3, <1>4

(* The look at the file comes before the first turn. *)
LEMMA StatStep ==
  ASSUME DeliveryInv, NEW n \in Deliveries, D!Stat(n)
  PROVE  DeliveryInv'
<1> USE DEF DeliveryInv, D!Stat, D!CreateJob, D!jobVars, D!backup, D!settings
<1>1. D!TypeOK'
  BY DEF D!TypeOK, D!JobTypeOK, D!Steps, D!Statuses
<1>2. D!ReportsAreTrue'
  BY DEF D!TypeOK, D!JobTypeOK, D!ReportsAreTrue, D!JobsFollowSteps, D!Running, D!Waiting
<1>3. D!JobsFollowSteps'
  BY DEF D!TypeOK, D!JobTypeOK, D!JobsFollowSteps, D!Running, D!UnderWay, D!Waiting
<1>4. D!TurnsAreTrue'
  <2>1. step[n] = "stat" /\ ~sent[n] /\ at' = [at EXCEPT ![n] = 1] /\ at'[n] = 1
    BY DEF D!TypeOK, D!JobsFollowSteps
  <2>2. \A i \in 1 .. at'[n] - 1 : FALSE
    BY <2>1
  <2>3. step'[n] \in {"next", "done"} /\ ~sent'[n]
    BY <2>1 DEF D!TypeOK
  <2>4. \A s \in Deliveries \ {n} : /\ D!UnderWay(s)' <=> D!UnderWay(s)
                              /\ at'[s] = at[s] /\ step'[s] = step[s]
    BY DEF D!TypeOK, D!UnderWay
  <2>5. left' = left /\ sent' = sent /\ failed' = failed /\ got' = got
    OBVIOUS
  <2> HIDE DEF D!Stat, DeliveryInv
  <2>7. SUFFICES ASSUME NEW s \in Deliveries, D!UnderWay(s)'
                 PROVE  /\ at'[s] >= 1
                        /\ \A i \in 1 .. at'[s] - 1 :
                             i \in failed'[s] \/ \E r \in D!Recipients : <<i, r>> \in got'[s]
                        /\ sent'[s] => \E r \in D!Recipients : <<at'[s], r>> \in got'[s]
                        /\ step'[s] \in {"read", "open", "folder", "sending"} => left'[s] # {}
    BY DEF D!TurnsAreTrue
  <2>8. CASE s = n
    BY <2>1, <2>2, <2>3, <2>5, <2>8
  <2>9. CASE s # n
    <3>1. D!UnderWay(s) /\ at'[s] = at[s] /\ step'[s] = step[s]
      BY <2>4, <2>7, <2>9
    <3>2. /\ at[s] >= 1
          /\ \A i \in 1 .. at[s] - 1 :
               i \in failed[s] \/ \E r \in D!Recipients : <<i, r>> \in got[s]
          /\ sent[s] => \E r \in D!Recipients : <<at[s], r>> \in got[s]
          /\ step[s] \in {"read", "open", "folder", "sending"} => left[s] # {}
      BY <3>1 DEF D!TurnsAreTrue, DeliveryInv
    <3> QED
      BY <2>5, <3>1, <3>2
  <2> QED
    BY <2>8, <2>9
<1> QED
  BY <1>1, <1>2, <1>3, <1>4

(* The turn of a channel is over: it was received, or it has failed. *)
LEMMA DoneStep ==
  ASSUME DeliveryInv, NEW n \in Deliveries, D!UnderWay(n), NEW ok \in BOOLEAN, D!Done(n, ok),
         ok => \E r \in D!Recipients : <<at[n], r>> \in got[n],
         UNCHANGED <<D!jobVars, D!backup, D!settings, list, got, restarts>>
  PROVE  DeliveryInv'
<1> USE DEF DeliveryInv, D!Done, D!jobVars, D!backup, D!settings
<1>1. D!TypeOK'
  BY DEF D!TypeOK, D!JobTypeOK, D!Steps
<1>2. D!ReportsAreTrue'
  BY DEF D!TypeOK, D!ReportsAreTrue, D!Running
<1>3. D!JobsFollowSteps'
  BY DEF D!TypeOK, D!JobsFollowSteps, D!Running, D!UnderWay, D!Waiting
<1>4. D!TurnsAreTrue'
  <2> SUFFICES ASSUME NEW s \in Deliveries, D!UnderWay(s)'
               PROVE  /\ at'[s] >= 1
                      /\ \A i \in 1 .. at'[s] - 1 :
                           i \in failed'[s] \/ \E r \in D!Recipients : <<i, r>> \in got'[s]
                      /\ sent'[s] => \E r \in D!Recipients : <<at'[s], r>> \in got'[s]
                      /\ step'[s] \in {"read", "open", "folder", "sending"} => left'[s] # {}
      BY DEF D!TurnsAreTrue
  <2>1. CASE s # n
    BY <2>1 DEF D!TypeOK, D!TurnsAreTrue, D!UnderWay
  <2>2. CASE s = n
    <3>1. at'[n] = at[n] + 1 /\ at[n] \in Nat /\ at[n] >= 1 /\ ~sent'[n] /\ step'[n] = "next"
      BY DEF D!TypeOK, D!TurnsAreTrue
    <3>2. failed[n] \subseteq failed'[n] /\ (~ok => at[n] \in failed'[n])
      BY DEF D!TypeOK
    <3>3. ASSUME NEW i \in 1 .. at[n]
          PROVE  i \in failed'[n] \/ \E r \in D!Recipients : <<i, r>> \in got[n]
      <4>1. CASE i = at[n]
        BY <4>1, <3>2
      <4>2. CASE i # at[n]
        <5>1. i \in 1 .. at[n] - 1
          BY <4>2, <3>1
        <5> QED
          BY <5>1, <3>2 DEF D!TurnsAreTrue
      <4> QED
        BY <4>1, <4>2
    <3> QED
      BY <2>2, <3>1, <3>3
  <2> QED
    BY <2>1, <2>2
<1> QED
  BY <1>1, <1>2, <1>3, <1>4

(* A channel goes on, to a wait where its recipients are known or to "chats". *)
LEMMA GotoStep ==
  ASSUME DeliveryInv, NEW n \in Deliveries, D!UnderWay(n),
         NEW where \in D!Waiting, NEW recipients \in SUBSET D!Recipients,
         where = "chats" \/ recipients # {}, D!Goto(n, where, recipients),
         UNCHANGED <<D!jobVars, D!backup, D!settings, list, got, restarts>>
  PROVE  DeliveryInv'
<1> USE DEF DeliveryInv, D!Goto, D!jobVars, D!backup, D!settings
<1>1. D!TypeOK'
  BY DEF D!TypeOK, D!JobTypeOK, D!Steps
<1>2. D!ReportsAreTrue'
  BY DEF D!TypeOK, D!ReportsAreTrue, D!Running
<1>3. D!JobsFollowSteps'
  BY DEF D!TypeOK, D!JobsFollowSteps, D!Running, D!UnderWay, D!Waiting
<1>4. D!TurnsAreTrue'
  BY DEF D!TypeOK, D!TurnsAreTrue, D!UnderWay, D!Waiting
<1> QED
  BY <1>1, <1>2, <1>3, <1>4

(* A turn ends the delivery or goes to the first await of its channel. *)
LEMMA TurnStep ==
  ASSUME DeliveryInv, NEW n \in Deliveries, D!Turn(n)
  PROVE  DeliveryInv'
<1> DEFINE Rest == UNCHANGED <<D!jobVars, D!backup, D!settings, list, got, restarts>>
<1>1. D!UnderWay(n) /\ Rest
  BY DEF D!Turn, D!UnderWay
<1>2. \/ D!Done(n, FALSE)
      \/ D!Goto(n, "read", {"chat id"}) \/ D!Goto(n, "chats", {})
      \/ D!Goto(n, "open", {"mailbox"}) \/ D!Goto(n, "folder", {"disk"})
  BY DEF D!Turn
<1>3. /\ {"read", "chats", "open", "folder"} \subseteq D!Waiting
      /\ {{"chat id"}, {}, {"mailbox"}, {"disk"}} \subseteq SUBSET D!Recipients
  BY DEF D!Waiting, D!Recipients
<1> QED
  BY <1>1, <1>2, <1>3, DoneStep, GotoStep

(* A turn goes on to its next await with somebody left to send to. *)
LEMMA ProceedStep ==
  ASSUME DeliveryInv, NEW n \in Deliveries, D!Proceed(n)
  PROVE  DeliveryInv'
<1>1. /\ UNCHANGED <<D!jobVars, D!backup, D!settings, list, got, restarts>>
      /\ step[n] \in {"folder", "chats", "read", "open"}
  BY DEF D!Proceed
<1>2. D!UnderWay(n) /\ left[n] \in SUBSET D!Recipients
  BY <1>1 DEF D!UnderWay, D!Waiting, DeliveryInv, D!TypeOK
<1>3. PICK where \in {"open", "read", "sending"}, recipients \in SUBSET D!Recipients :
        recipients # {} /\ D!Goto(n, where, recipients)
  <2>1. CASE step[n] = "chats"
    BY <2>1 DEF D!Proceed, D!Recipients
  <2>2. CASE step[n] # "chats"
    <3>1. left[n] # {}
      BY <1>1, <1>2, <2>2 DEF DeliveryInv, D!TurnsAreTrue
    <3> QED
      BY <1>2, <2>2, <3>1 DEF D!Proceed
  <2> QED
    BY <2>1, <2>2
<1>4. where \in D!Waiting
  BY DEF D!Waiting
<1> QED
  BY <1>1, <1>2, <1>3, <1>4, GotoStep

(* An await that throws ends the turn without a delivery. *)
LEMMA RejectedStep ==
  ASSUME DeliveryInv, NEW n \in Deliveries, D!Rejected(n)
  PROVE  DeliveryInv'
<1>1. D!UnderWay(n)
  BY DEF D!Rejected, D!UnderWay
<1> QED
  BY <1>1, DoneStep DEF D!Rejected

(* A file that arrives adds to what was got and to nothing else. *)
LEMMA ArriveStep ==
  ASSUME DeliveryInv, NEW n \in Deliveries, D!Arrive(n)
  PROVE  DeliveryInv'
<1>1. D!UnderWay(n) /\ left[n] # {} /\ left[n] \subseteq D!Recipients /\ at[n] \in Nat
  BY DEF D!Arrive, D!UnderWay, D!Waiting, DeliveryInv, D!TurnsAreTrue, D!TypeOK
<1>2. <<at[n], D!Recipient(n)>> \in Nat \X D!Recipients
  BY <1>1 DEF D!Recipient
<1>3. \A s \in Deliveries : got[s] \subseteq got'[s] /\ (s # n => got'[s] = got[s])
  BY DEF D!Arrive, DeliveryInv, D!TypeOK
<1> USE DEF DeliveryInv, D!Arrive, D!jobVars, D!backup, D!settings
<1>4. D!TypeOK'
  BY <1>2 DEF D!TypeOK, D!JobTypeOK
<1>5. D!ReportsAreTrue'
  BY <1>1, <1>3 DEF D!ReportsAreTrue, D!JobsFollowSteps, D!Running, D!UnderWay
<1>6. D!JobsFollowSteps'
  BY <1>3 DEF D!JobsFollowSteps, D!Running, D!UnderWay
<1>7. D!TurnsAreTrue'
  BY <1>3 DEF D!TurnsAreTrue, D!UnderWay
<1> QED
  BY <1>4, <1>5, <1>6, <1>7

(* A recipient that got the file is off the list of those left. *)
LEMMA UploadStep ==
  ASSUME DeliveryInv, NEW n \in Deliveries, D!Upload(n)
  PROVE  DeliveryInv'
<1>1. D!UnderWay(n) /\ left[n] # {} /\ left[n] \subseteq D!Recipients /\ sent[n] \in BOOLEAN
  BY DEF D!Upload, D!UnderWay, D!Waiting, DeliveryInv, D!TurnsAreTrue, D!TypeOK
<1>2. D!Recipient(n) \in left[n]
  BY <1>1 DEF D!Recipient
<1>3. PICK ok \in BOOLEAN : D!Answered(n, ok) /\ (ok => <<at[n], D!Recipient(n)>> \in got[n])
  BY DEF D!Upload
<1>4. ok \/ sent[n] => \E r \in D!Recipients : <<at[n], r>> \in got[n]
  BY <1>1, <1>2, <1>3 DEF DeliveryInv, D!TurnsAreTrue
<1>5. CASE left[n] = {D!Recipient(n)}
  <2>1. D!Done(n, ok \/ sent[n])
    BY <1>3, <1>5 DEF D!Answered
  <2>2. (ok \/ sent[n]) \in BOOLEAN
    BY <1>1
  <2> QED
    BY <1>1, <1>4, <2>1, <2>2, DoneStep DEF D!Upload
<1>6. CASE left[n] # {D!Recipient(n)}
  <2>1. /\ left' = [left EXCEPT ![n] = @ \ {D!Recipient(n)}]
        /\ sent' = [sent EXCEPT ![n] = @ \/ ok]
        /\ UNCHANGED <<step, at, failed>>
    BY <1>3, <1>6 DEF D!Answered
  <2>2. left[n] \ {D!Recipient(n)} # {}
    BY <1>1, <1>2, <1>6
  <2> USE <2>1 DEF DeliveryInv, D!Upload, D!jobVars, D!backup, D!settings
  <2>3. D!TypeOK'
    BY DEF D!TypeOK, D!JobTypeOK
  <2>4. D!ReportsAreTrue'
    BY DEF D!ReportsAreTrue, D!Running
  <2>5. D!JobsFollowSteps'
    BY <1>1 DEF D!JobsFollowSteps, D!Running, D!UnderWay, D!TypeOK, D!Waiting
  <2>6. D!TurnsAreTrue'
    BY <1>4, <2>2 DEF D!TurnsAreTrue, D!UnderWay, D!TypeOK
  <2> QED
    BY <2>3, <2>4, <2>5, <2>6
<1> QED
  BY <1>5, <1>6

(* The job ends as a success when every channel is over and none has failed. *)
LEMMA FinishStep ==
  ASSUME DeliveryInv, NEW n \in Deliveries, D!Finish(n)
  PROVE  DeliveryInv'
<1> USE DEF DeliveryInv, D!Finish, D!FinishJob, D!jobVars, D!backup, D!settings
<1>1. D!UnderWay(n)
  BY DEF D!UnderWay
<1>2. D!TypeOK'
  BY DEF D!TypeOK, D!JobTypeOK, D!Steps, D!Statuses, D!Ended
<1>3. failed[n] = {} =>
        \A i \in DOMAIN list[n] : \E r \in D!Recipients : <<i, r>> \in got[n]
  <2> SUFFICES ASSUME failed[n] = {}, NEW i \in DOMAIN list[n]
               PROVE  \E r \in D!Recipients : <<i, r>> \in got[n]
      OBVIOUS
  <2>1. i \in 1 .. Len(list[n]) /\ Len(list[n]) \in Nat /\ at[n] \in Nat /\ at[n] > Len(list[n])
    BY DEF D!TypeOK
  <2>2. i \in 1 .. at[n] - 1
    BY <2>1
  <2> QED
    BY <1>1, <2>2 DEF D!TurnsAreTrue
<1>4. D!ReportsAreTrue'
  BY <1>1, <1>3 DEF D!TypeOK, D!JobTypeOK, D!ReportsAreTrue, D!JobsFollowSteps, D!Running
<1>5. D!JobsFollowSteps'
  BY <1>1 DEF D!TypeOK, D!JobTypeOK, D!JobsFollowSteps, D!Running, D!UnderWay, D!Waiting
<1>6. D!TurnsAreTrue'
  BY DEF D!TypeOK, D!TurnsAreTrue, D!UnderWay, D!Waiting
<1> QED
  BY <1>2, <1>4, <1>5, <1>6

(* Cancelling ends the job of a delivery and nothing it reports. *)
LEMMA CancelStep ==
  ASSUME DeliveryInv, NEW n \in Deliveries, D!Cancel(n)
  PROVE  DeliveryInv'
<1> USE DEF DeliveryInv, D!Cancel, D!FinishJob, D!jobVars, D!backup, D!settings, D!delivery
<1>1. D!TypeOK'
  BY DEF D!TypeOK, D!JobTypeOK, D!Statuses, D!Ended
<1>2. D!ReportsAreTrue'
  BY DEF D!TypeOK, D!JobTypeOK, D!ReportsAreTrue, D!Running, D!JobsFollowSteps
<1>3. D!JobsFollowSteps'
  BY DEF D!TypeOK, D!JobTypeOK, D!JobsFollowSteps, D!Running, D!UnderWay
<1>4. D!TurnsAreTrue'
  BY DEF D!TurnsAreTrue, D!UnderWay
<1> QED
  BY <1>1, <1>2, <1>3, <1>4

(* Deleting the backup changes no delivery. *)
LEMMA DeleteStep ==
  ASSUME DeliveryInv, D!DeleteBackup
  PROVE  DeliveryInv'
BY DEF DeliveryInv, D!DeleteBackup, D!TypeOK, D!JobTypeOK, D!ReportsAreTrue, D!JobsFollowSteps,
       D!TurnsAreTrue, D!Running, D!UnderWay, D!jobVars, D!settings, D!delivery

(* A restart leaves no delivery under way. *)
LEMMA RestartStep ==
  ASSUME DeliveryInv, D!Restart
  PROVE  DeliveryInv'
<1> USE DEF DeliveryInv, D!Restart, D!RestartJobs, D!backup, D!settings
<1>1. D!TypeOK'
  BY DEF D!TypeOK, D!JobTypeOK, D!Statuses, D!Ended, D!Steps
<1>2. D!ReportsAreTrue'
  BY DEF D!TypeOK, D!JobTypeOK, D!ReportsAreTrue, D!Running
<1>3. D!JobsFollowSteps'
  BY DEF D!TypeOK, D!JobTypeOK, D!JobsFollowSteps, D!Running, D!UnderWay, D!Waiting
<1>4. D!TurnsAreTrue'
  BY DEF D!TypeOK, D!TurnsAreTrue, D!UnderWay, D!Waiting
<1> QED
  BY <1>1, <1>2, <1>3, <1>4

(* Every step of a delivery keeps the invariant. *)
LEMMA JobStep ==
  ASSUME DeliveryInv, NEW n \in Deliveries,
         \/ D!SendBackup(n) \/ D!AutoSend(n) \/ D!Stat(n) \/ D!Turn(n) \/ D!Proceed(n)
         \/ D!Rejected(n) \/ D!Arrive(n) \/ D!Upload(n) \/ D!Finish(n) \/ D!Cancel(n)
  PROVE  DeliveryInv' /\ UNCHANGED D!settings
<1>1. CASE D!SendBackup(n)
  <2>1. PICK channels \in D!Lists : D!Begin(n, channels)
    BY <1>1 DEF D!SendBackup
  <2>2. channels \in Seq(D!Channels)
    BY DEF D!Lists
  <2> QED
    BY <2>1, <2>2, BeginStep DEF D!Begin
<1>2. CASE D!AutoSend(n)
  <2>1. PICK k \in 1..3 : \E channels \in [1..k -> D!Configured] : D!Begin(n, channels)
    BY <1>2 DEF D!AutoSend
  <2>2. PICK channels \in [1..k -> D!Configured] : D!Begin(n, channels)
    BY <2>1
  <2>3. channels \in [1..k -> D!Channels]
    BY DEF D!Configured
  <2>4. channels \in Seq(D!Channels)
    BY <2>3
  <2> QED
    BY <2>2, <2>4, BeginStep DEF D!Begin
<1>3. CASE D!Stat(n)
  BY <1>3, StatStep DEF D!Stat
<1>4. CASE D!Turn(n)
  BY <1>4, TurnStep DEF D!Turn
<1>5. CASE D!Proceed(n)
  BY <1>5, ProceedStep DEF D!Proceed
<1>6. CASE D!Rejected(n)
  BY <1>6, RejectedStep DEF D!Rejected
<1>7. CASE D!Arrive(n)
  BY <1>7, ArriveStep DEF D!Arrive
<1>8. CASE D!Upload(n)
  BY <1>8, UploadStep DEF D!Upload
<1>9. CASE D!Finish(n)
  BY <1>9, FinishStep DEF D!Finish
<1>10. CASE D!Cancel(n)
  BY <1>10, CancelStep DEF D!Cancel
<1> QED
  BY <1>1, <1>2, <1>3, <1>4, <1>5, <1>6, <1>7, <1>8, <1>9, <1>10

-----------------------------------------------------------------------------
(* The inductive invariant. *)
THEOREM DeliveryInvariance == D!Spec => []D!IInv
<1>1. D!IInv /\ [D!Next]_(D!vars) => D!IInv'
  <2> SUFFICES ASSUME D!IInv, [D!Next]_(D!vars) PROVE D!IInv'
      OBVIOUS
  <2>1. DeliveryInv /\ D!SecretsKept
    BY DEF D!IInv, DeliveryInv, D!DeliveriesAreSound
  <2>2. DeliveryInv' /\ D!SecretsKept' => D!IInv'
    BY DEF D!IInv, DeliveryInv, D!DeliveriesAreSound
  <2>3. CASE \E n \in Deliveries :
               \/ D!SendBackup(n) \/ D!AutoSend(n) \/ D!Stat(n) \/ D!Turn(n) \/ D!Proceed(n)
               \/ D!Rejected(n) \/ D!Arrive(n) \/ D!Upload(n) \/ D!Finish(n) \/ D!Cancel(n)
    BY <2>1, <2>2, <2>3, JobStep, SettingsUntouched
  <2>4. CASE \E typed \in {{}} \cup {{ch} : ch \in D!Channels}, server \in {"blank", "set"},
                id \in BOOLEAN : D!SaveSettings(typed, server, id)
    BY <2>4, SaveStep
  <2>5. CASE D!DeleteBackup
    BY <2>1, <2>2, <2>5, DeleteStep, SettingsUntouched DEF D!DeleteBackup
  <2>6. CASE D!Restart
    BY <2>1, <2>2, <2>6, RestartStep, SettingsUntouched DEF D!Restart
  <2>7. CASE UNCHANGED D!vars
    BY <2>7 DEF D!vars, D!backup, D!settings, D!delivery, D!jobVars, D!IInv, D!TypeOK, D!JobTypeOK,
                D!DeliveriesAreSound, D!ReportsAreTrue, D!SecretsKept, D!JobsFollowSteps, D!TurnsAreTrue,
                D!InUse, D!StoredOrDefaultEmail, D!Running, D!UnderWay
  <2> QED
    BY <2>3, <2>4, <2>5, <2>6, <2>7 DEF D!Next
<1> QED
  BY <1>1, InitIInv, PTL DEF D!Spec

(* Whatever fails, arrives late, is deleted, canceled or saved meanwhile: a
   delivery that ends as a success has arrived by every channel, one that ends
   as a failure has a channel that failed, and every secret in use is the one
   typed last (delivery.service.ts:126, 185-217, 476-508). *)
THEOREM ReportsAndSecrets == D!Spec => []DeliveriesAreSound
<1>1. D!IInv => DeliveriesAreSound
  BY DEF D!IInv, DeliveriesAreSound
<1> QED
  BY <1>1, DeliveryInvariance, PTL

(* A delivery is a job like any other, ended by its last channel, a cancel or a
   restart, whichever comes first: a canceled delivery that goes on and arrives
   stays canceled (delivery.service.ts:476-508, jobs.ts:90-92). *)
THEOREM DeliveriesImplementJobManager == D!Spec => D!JobSpec
<1>1. D!Init => D!JobInit
  BY DEF D!Init
<1>2. [D!Next]_(D!vars) => [D!JobNext]_(D!jobVars)
  <2> SUFFICES ASSUME [D!Next]_(D!vars) PROVE [D!JobNext]_(D!jobVars)
      OBVIOUS
  <2>1. ASSUME NEW n \in Deliveries, D!SendBackup(n) \/ D!AutoSend(n) PROVE UNCHANGED D!jobVars
    BY <2>1 DEF D!SendBackup, D!AutoSend, D!Begin
  <2>2. ASSUME NEW n \in Deliveries, D!Stat(n) PROVE [D!JobNext]_(D!jobVars)
    BY <2>2 DEF D!Stat, D!JobNext
  <2>3. ASSUME NEW n \in Deliveries,
               D!Turn(n) \/ D!Proceed(n) \/ D!Rejected(n) \/ D!Arrive(n) \/ D!Upload(n)
        PROVE  UNCHANGED D!jobVars
    BY <2>3 DEF D!Turn, D!Proceed, D!Rejected, D!Arrive, D!Upload
  <2>4. ASSUME NEW n \in Deliveries, D!Finish(n) \/ D!Cancel(n) PROVE D!JobNext
    <3>1. PICK status \in D!Ended : D!FinishJob(n, status)
      BY <2>4 DEF D!Finish, D!Cancel, D!Ended
    <3> QED
      BY <3>1 DEF D!JobNext
  <2>5. ASSUME NEW typed, NEW server, NEW id, D!SaveSettings(typed, server, id)
        PROVE  UNCHANGED D!jobVars
    BY <2>5 DEF D!SaveSettings, D!Saved
  <2>6. CASE D!DeleteBackup
    BY <2>6 DEF D!DeleteBackup
  <2>7. CASE D!Restart
    BY <2>7 DEF D!Restart, D!JobNext
  <2>8. CASE UNCHANGED D!vars
    BY <2>8 DEF D!vars, D!jobVars
  <2> QED
    BY <2>1, <2>2, <2>3, <2>4, <2>5, <2>6, <2>7, <2>8 DEF D!Next
<1> QED
  BY <1>1, <1>2, PTL DEF D!Spec, D!JobSpec
=============================================================================
