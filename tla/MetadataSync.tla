---------------------------- MODULE MetadataSync ----------------------------
(***************************************************************************)
(* Replication of the SQLite metadata store into one PostgreSQL row:       *)
(* infra/metadata-sync.ts, with the parts of infra/store.ts,               *)
(* infra/metadata-pg.ts and index.ts (boot restore, shutdown) it runs in.  *)
(*                                                                         *)
(* Node runs one callback at a time.  A timer, a request or an answer of   *)
(* the backend is a macrotask; the continuations of the flush() calls that *)
(* wait for an upload are microtasks, which run in the order they began to *)
(* wait and before any other macrotask.  `ready' is that microtask queue,  *)
(* and every macrotask here is guarded by its being empty.                 *)
(*                                                                         *)
(* A content of the store is the set of the writes it holds.               *)
(***************************************************************************)
EXTENDS Naturals, Sequences

CONSTANTS
  Writes,      \* writes users and jobs may make to the store
  Uploads,     \* identities for uploads in flight
  MaxCallers,  \* bound: flush() calls waiting on one upload
  SyncNows,    \* bound: "sync now" requests of an operator
  MaxThrows,   \* bound: times store.snapshot() throws
  MaxBoots     \* bound: process starts

ASSUME UploadsAssumption == "none" \notin Uploads /\ "settled" \notin Uploads

VARIABLES
  used,        \* writes made so far, ever
  local,       \* content of the store on the server's disk
  durable,     \* content of the snapshot row
  hasRow,      \* the snapshot row exists
  phase,       \* where the process is between start and exit
  dirty,       \* MetadataSync.dirty
  timer,       \* MetadataSync.timer is armed
  lastSynced,  \* MetadataSync.lastSyncedAt is not null
  failed,      \* MetadataSync.lastError is not null
  flushing,    \* MetadataSync.flushing: an upload, a settled promise or null
  state,       \* state of each upload at the backend
  image,       \* the content each upload carries
  owner,       \* the flush() call that started each upload
  waiting,     \* the flush() calls awaiting each upload
  ready,       \* the microtask queue
  forced, throws, boots,   \* counters behind the bounds
  stacked,     \* auxiliary: "sync now" started over an upload in flight
  calm,        \* auxiliary: nobody waited for the upload stop() waits for
  atStop       \* auxiliary: the store when stop() was called

disk    == <<used, local>>
backend == <<durable, hasRow>>
memory  == <<dirty, timer, lastSynced, failed>>
flights == <<flushing, state, image, owner, waiting>>
counts  == <<forced, throws, boots>>
ghosts  == <<stacked, calm, atStop>>
vars    == <<disk, backend, phase, memory, flights, ready, counts, ghosts>>

(***************************************************************************)
(* The calls of flush(), and the two continuations that do more than       *)
(* return: main() goes on to scheduler.start(), stop() to `stopped = true'.*)
(***************************************************************************)
Callers == {"boot", "tick", "force", "stop"}
Micro   == Callers \cup {"bootReturn", "stopReturn"}
Phases  == {"down", "restored", "booting", "running", "stopping", "stopped"}
States  == {"free", "sent", "landed"}

InFlight == {u \in Uploads : state[u] # "free"}

(* An identity for the next upload. *)
NewUpload == CHOOSE u \in Uploads : u \notin InFlight

TypeOK ==
  /\ used \in SUBSET Writes
  /\ local \in SUBSET Writes
  /\ durable \in SUBSET Writes /\ hasRow \in BOOLEAN
  /\ phase \in Phases
  /\ dirty \in BOOLEAN /\ timer \in BOOLEAN
  /\ lastSynced \in BOOLEAN /\ failed \in BOOLEAN
  /\ flushing \in Uploads \cup {"none", "settled"}
  /\ state \in [Uploads -> States]
  /\ image \in [Uploads -> SUBSET Writes]
  /\ owner \in [Uploads -> Callers]
  /\ waiting \in [Uploads -> Seq(Callers)]
  /\ ready \in Seq(Micro)
  /\ forced \in Nat /\ throws \in Nat /\ boots \in Nat
  /\ stacked \in BOOLEAN /\ calm \in BOOLEAN /\ atStop \in SUBSET Writes

Init ==
  /\ used = {} /\ local = {}
  /\ durable = {} /\ hasRow = FALSE
  /\ phase = "down"
  /\ dirty = FALSE /\ timer = FALSE /\ lastSynced = FALSE /\ failed = FALSE
  /\ flushing = "none"
  /\ state = [u \in Uploads |-> "free"]
  /\ image = [u \in Uploads |-> {}]
  /\ owner = [u \in Uploads |-> "tick"]
  /\ waiting = [u \in Uploads |-> <<>>]
  /\ ready = <<>>
  /\ forced = 0 /\ throws = 0 /\ boots = 0
  /\ stacked = FALSE /\ calm = TRUE /\ atStop = {}

-----------------------------------------------------------------------------
(* flush() *)

(* What is queued when the flush() call c returns to its caller. *)
ReturnTo(c) ==
  CASE c = "boot" -> <<"bootReturn">>
    [] c = "stop" -> <<"stopReturn">>
    [] OTHER      -> <<>>

(* The snapshot is taken and handed to the backend. *)
Send(c, rest) ==
  /\ InFlight # Uploads
  /\ dirty' = FALSE
  /\ flushing' = NewUpload
  /\ state' = [state EXCEPT ![NewUpload] = "sent"]
  /\ image' = [image EXCEPT ![NewUpload] = local]
  /\ owner' = [owner EXCEPT ![NewUpload] = c]
  /\ ready' = rest
  /\ UNCHANGED <<failed, throws>>

(* snapshot() throws: catch and finally run before the assignment of
   this.flushing, which is left holding a settled promise. *)
SnapshotThrows(c, rest) ==
  /\ throws < MaxThrows
  /\ throws' = throws + 1
  /\ dirty' = TRUE
  /\ failed' = TRUE
  /\ flushing' = "settled"
  /\ ready' = rest \o ReturnTo(c)
  /\ UNCHANGED <<state, image, owner>>

StartUpload(c, rest) ==
  /\ Send(c, rest) \/ SnapshotThrows(c, rest)
  /\ stacked' = (stacked \/ (c = "force" /\ InFlight # {}))

(* Fault: a call uploads without waiting for the upload in flight. *)
FlushUnserialized(c, d) ==
  IF ~d /\ c # "force" /\ lastSynced
    THEN /\ dirty' = d /\ ready' = ReturnTo(c)
         /\ UNCHANGED <<failed, flights, throws, stacked>>
    ELSE StartUpload(c, <<>>) /\ UNCHANGED waiting

(* flush() called by c, with the value d of dirty: it waits for the upload
   in flight, has nothing to do, or uploads. *)
Flush(c, d) ==
  \/ /\ flushing # "none"
     /\ \/ /\ flushing \in InFlight
           /\ Len(waiting[flushing]) < MaxCallers
           /\ waiting' = [waiting EXCEPT ![flushing] = Append(@, c)]
           /\ UNCHANGED ready
        \/ /\ flushing \notin InFlight
           /\ ready' = <<c>>
           /\ UNCHANGED waiting
     /\ dirty' = d
     /\ UNCHANGED <<failed, flushing, state, image, owner, throws, stacked>>
  \/ /\ flushing = "none"
     /\ ~d /\ c # "force" /\ lastSynced
     /\ dirty' = d
     /\ ready' = ReturnTo(c)
     /\ UNCHANGED <<failed, flights, throws, stacked>>
  \/ /\ flushing = "none"
     /\ d \/ c = "force" \/ ~lastSynced
     /\ StartUpload(c, <<>>)
     /\ UNCHANGED waiting

(* The variables Flush leaves to the action that calls it. *)
flushRest == <<disk, backend, lastSynced, boots>>

(* A flush() call that waited finds nothing left to upload. *)
ResumeIdle ==
  /\ ready # <<>> /\ Head(ready) \in Callers
  /\ ~dirty /\ Head(ready) # "force"
  /\ ready' = Tail(ready) \o ReturnTo(Head(ready))
  /\ UNCHANGED <<disk, backend, phase, memory, flights, counts, ghosts>>

(* A flush() call that waited uploads.  It does not look at this.flushing
   again: an upload started meanwhile is not waited for. *)
ResumeUpload ==
  /\ ready # <<>> /\ Head(ready) \in Callers
  /\ dirty \/ Head(ready) = "force"
  /\ StartUpload(Head(ready), Tail(ready))
  /\ UNCHANGED <<flushRest, phase, timer, waiting, forced, calm, atStop>>

-----------------------------------------------------------------------------
(* The callers of flush() *)

(* A statement of the store, and markDirty() through onChange. *)
Write(w) ==
  /\ phase \in {"running", "stopping", "stopped"} /\ ready = <<>>
  /\ w \notin used
  /\ used' = used \cup {w}
  /\ local' = local \cup {w}
  /\ IF phase = "stopped" THEN UNCHANGED <<dirty, timer>>
                          ELSE dirty' = TRUE /\ timer' = TRUE
  /\ UNCHANGED <<backend, phase, lastSynced, failed, flights,
                 ready, counts, ghosts>>

(* The debounce timer fires. *)
Debounce ==
  /\ timer /\ ready = <<>>
  /\ timer' = FALSE
  /\ Flush("tick", dirty)
  /\ UNCHANGED <<flushRest, phase, forced, calm, atStop>>

(* Fault: the heartbeat gives up after a failure. *)
HeartbeatGivesUp ==
  /\ phase = "running" /\ ready = <<>>
  /\ dirty /\ ~failed
  /\ Flush("tick", dirty)
  /\ UNCHANGED <<flushRest, phase, timer, forced, calm, atStop>>

(* The heartbeat interval fires; stop() clears it. *)
Heartbeat ==
  /\ phase = "running" /\ ready = <<>>
  /\ dirty
  /\ Flush("tick", dirty)
  /\ UNCHANGED <<flushRest, phase, timer, forced, calm, atStop>>

(* POST /api/system/metadata/flush. *)
SyncNow ==
  /\ phase = "running" /\ ready = <<>>
  /\ forced < SyncNows
  /\ forced' = forced + 1
  /\ Flush("force", dirty)
  /\ UNCHANGED <<flushRest, phase, timer, calm, atStop>>

(* Fault: stop() does not wait for an upload in flight. *)
StopUnawaited ==
  /\ phase = "running" /\ ready = <<>>
  /\ phase' = "stopping"
  /\ timer' = FALSE
  /\ atStop' = local
  /\ calm' = (flushing \in InFlight => waiting[flushing] = <<>>)
  /\ IF flushing = "none" THEN Flush("stop", TRUE)
     ELSE /\ ready' = ReturnTo("stop")
          /\ UNCHANGED <<dirty, failed, flights, throws, stacked>>
  /\ UNCHANGED <<flushRest, forced>>

(* stop(), called by shutdown() once app.close() has resolved. *)
Stop ==
  /\ phase = "running" /\ ready = <<>>
  /\ phase' = "stopping"
  /\ timer' = FALSE
  /\ atStop' = local
  /\ calm' = (flushing \in InFlight => waiting[flushing] = <<>>)
  /\ Flush("stop", TRUE)
  /\ UNCHANGED <<flushRest, forced>>

(* The final flush() has returned: `stopped = true', then pools.shutdown(). *)
StopReturn ==
  /\ phase = "stopping"
  /\ ready # <<>> /\ Head(ready) = "stopReturn"
  /\ ready' = Tail(ready)
  /\ phase' = "stopped"
  /\ UNCHANGED <<disk, backend, memory, flights, counts, ghosts>>

-----------------------------------------------------------------------------
(* The backend *)

(* The upsert commits. *)
Land(u) ==
  /\ state[u] = "sent"
  /\ state' = [state EXCEPT ![u] = "landed"]
  /\ durable' = image[u]
  /\ hasRow' = TRUE
  /\ UNCHANGED <<disk, phase, memory, flushing, image, owner, waiting, ready,
                 counts, ghosts>>

(* The promise of upload u settles: this.flushing is cleared, whichever
   upload it holds, and the calls waiting for u go on in order. *)
Settle(u) ==
  /\ ready = <<>>
  /\ state' = [state EXCEPT ![u] = "free"]
  /\ image' = [image EXCEPT ![u] = {}]
  /\ owner' = [owner EXCEPT ![u] = "tick"]
  /\ flushing' = "none"
  /\ waiting' = [waiting EXCEPT ![u] = <<>>]
  /\ ready' = waiting[u] \o ReturnTo(owner[u])
  /\ UNCHANGED <<disk, backend, phase, timer, counts, ghosts>>

(* backend.save() resolves. *)
SaveOk(u) ==
  /\ state[u] = "landed"
  /\ lastSynced' = TRUE
  /\ failed' = FALSE
  /\ UNCHANGED dirty
  /\ Settle(u)

(* Fault: the change of a failed upload is forgotten. *)
SaveFailsForgets(u) ==
  /\ state[u] \in {"sent", "landed"}
  /\ failed' = TRUE
  /\ UNCHANGED <<dirty, lastSynced>>
  /\ Settle(u)

(* backend.save() rejects: the upsert did not run, or its answer was lost. *)
SaveFails(u) ==
  /\ state[u] \in {"sent", "landed"}
  /\ dirty' = TRUE
  /\ failed' = TRUE
  /\ UNCHANGED lastSynced
  /\ Settle(u)

-----------------------------------------------------------------------------
(* Process start and exit *)

(* Fault: a boot keeps the local file instead of the row. *)
BootKeepsLocal(new) ==
  /\ phase = "down" /\ boots < MaxBoots
  /\ boots' = boots + 1
  /\ phase' = "restored"
  /\ new \in SUBSET (Writes \ used)
  /\ used' = used \cup new
  /\ local' = local \cup new
  /\ UNCHANGED <<backend, memory, flights, ready, forced, throws, ghosts>>

(* The row, when there is one, replaces the store.  Opening the store runs the
   migrations and the JobManager's update (new), with no MetadataSync yet to
   hear of them. *)
Boot(new) ==
  /\ phase = "down" /\ boots < MaxBoots
  /\ boots' = boots + 1
  /\ phase' = "restored"
  /\ new \in SUBSET (Writes \ used)
  /\ used' = used \cup new
  /\ local' = (IF hasRow THEN durable ELSE local) \cup new
  /\ UNCHANGED <<backend, memory, flights, ready, forced, throws, ghosts>>

(* main() persists what the migrations wrote before it starts to serve. *)
BootFlush ==
  /\ phase = "restored"
  /\ phase' = "booting"
  /\ Flush("boot", dirty)
  /\ UNCHANGED <<flushRest, timer, forced, calm, atStop>>

BootReturn ==
  /\ phase = "booting"
  /\ ready # <<>> /\ Head(ready) = "bootReturn"
  /\ ready' = Tail(ready)
  /\ phase' = "running"
  /\ UNCHANGED <<disk, backend, memory, flights, counts, ghosts>>

(* The process is gone, and its memory with it; an upload that was sent may
   still have landed. *)
Die ==
  /\ phase' = "down"
  /\ dirty' = FALSE /\ timer' = FALSE /\ lastSynced' = FALSE /\ failed' = FALSE
  /\ flushing' = "none"
  /\ state' = [u \in Uploads |-> "free"]
  /\ image' = [u \in Uploads |-> {}]
  /\ owner' = [u \in Uploads |-> "tick"]
  /\ waiting' = [u \in Uploads |-> <<>>]
  /\ ready' = <<>>
  /\ \/ UNCHANGED backend
     \/ \E u \in Uploads : /\ state[u] = "sent"
                           /\ durable' = image[u] /\ hasRow' = TRUE
  /\ stacked' = FALSE /\ calm' = TRUE /\ atStop' = {}
  /\ UNCHANGED <<disk, counts>>

(* The end of shutdown(): process.exit(0). *)
Exit == phase = "stopped" /\ ready = <<>> /\ Die

Crash == phase # "down" /\ Die

(* A redeploy without its volume. *)
VolumeLost ==
  /\ phase = "down"
  /\ local' = {}
  /\ UNCHANGED <<used, backend, phase, memory, flights, ready, counts, ghosts>>

Microtask == ResumeIdle \/ ResumeUpload \/ StopReturn \/ BootReturn

Next ==
  \/ \E w \in Writes : Write(w)
  \/ Debounce \/ Heartbeat \/ SyncNow \/ Stop
  \/ Microtask
  \/ \E u \in Uploads : Land(u) \/ SaveOk(u) \/ SaveFails(u)
  \/ \E new \in SUBSET Writes : Boot(new)
  \/ BootFlush
  \/ Exit \/ Crash \/ VolumeLost

Spec == Init /\ [][Next]_vars

(***************************************************************************)
(* Timers fire, microtasks run and requests are answered.  An upload that  *)
(* is sent again and again lands in the end: the backend is not down for   *)
(* ever.  Nothing is assumed of users, operators and crashes.              *)
(***************************************************************************)
Fairness ==
  /\ WF_vars(Microtask)
  /\ WF_vars(Debounce) /\ WF_vars(Heartbeat)
  /\ \A u \in Uploads : /\ WF_vars(SaveOk(u) \/ SaveFails(u))
                        /\ SF_vars(Land(u))

FairSpec == Spec /\ Fairness

-----------------------------------------------------------------------------
(* Properties *)

(* "Serialize: overlapping uploads could land out of order"
   (metadata-sync.ts:70): timers, heartbeats, the boot and stop() never have
   two uploads in flight; only "sync now" over an upload started by a call
   that waited with it does. *)
OneUpload ==
  ~stacked => \A u, v \in InFlight : u = v

(* No write is left behind: while flush() can still be called, what the row
   does not hold is marked dirty or is on its way (metadata-sync.ts:83-92,
   where dirty is cleared before the upload and set again by its failure). *)
NothingForgotten ==
  phase \in {"running", "stopping"} /\ ~stacked =>
    \/ dirty
    \/ durable = local
    \/ \E u \in InFlight : image[u] = local

(* One upload at a time, and none forgotten. *)
UploadsKeepUp == OneUpload /\ NothingForgotten

(* The inductive invariant behind the two: until a "sync now" breaks the
   order, the upload in flight is the one this.flushing holds, a call that
   goes on while it is in flight finds dirty cleared, and what it carries is
   what the row holds once it has landed. *)
InOrder ==
  /\ \A u \in InFlight : flushing = u
  /\ ready # <<>> /\ InFlight # {} => ~dirty
  /\ \A u \in Uploads : state[u] = "landed" => durable = image[u]
  /\ phase \in {"booting", "running", "stopping"} /\ ~dirty =>
       /\ InFlight = {} => durable = local
       /\ \A u \in InFlight : image[u] = local

(* A process that has not begun to serve has nothing in flight. *)
Fresh ==
  phase \in {"down", "restored"} =>
    /\ InFlight = {} /\ flushing = "none" /\ ready = <<>>
    /\ ~dirty /\ ~timer /\ ~lastSynced

IInv == TypeOK /\ Fresh /\ (~stacked => InOrder)

(* "Final flush, then no further uploads" (metadata-sync.ts:96) and "Last
   write wins" (index.ts:173): once stop() has returned and its upload did
   not fail, the row holds every write made before stop(), provided no call
   was already waiting for the upload stop() had to wait for. *)
FinalFlush ==
  phase = "stopped" /\ ~failed /\ ~stacked /\ calm => atStop \subseteq durable

(* While the process is down the platform holds what a boot would restore. *)
Platform ==
  IF phase # "down" THEN local ELSE IF hasRow THEN durable ELSE local

Copy == INSTANCE DurableCopy WITH store <- Platform, copy <- durable,
                                  orderly <- ~stacked

(* The replication protocol implements the durable copy: the row only holds
   what the store has held, moves forward, and a restart brings it back. *)
ImplementsDurableCopy == Copy!Spec

(* "Keep the change pending so the next tick retries it"
   (metadata-sync.ts:85): a change of a running server reaches the row, after
   any number of failed uploads. *)
EventuallyDurable ==
  (phase = "running" /\ local # durable) ~>
    (local = durable \/ phase # "running" \/ stacked)
=============================================================================
