------------------------ MODULE MetadataSync_proofs ------------------------
(* Proofs about MetadataSync. *)
EXTENDS MetadataSync, TLAPS

(* What a settled save queues for its caller is a queue of microtasks. *)
LEMMA ReturnToType == ASSUME NEW c \in Callers PROVE ReturnTo(c) \in Seq(Micro)
<1>1. "bootReturn" \in Micro /\ "stopReturn" \in Micro
  BY DEF Micro
<1>2. CASE c = "boot"
  BY <1>1, <1>2 DEF ReturnTo
<1>3. CASE c = "stop"
  BY <1>1, <1>3 DEF ReturnTo
<1>4. CASE c \notin {"boot", "stop"}
  BY <1>4 DEF ReturnTo
<1>5. QED
  BY <1>2, <1>3, <1>4

(* The empty queue has both types of queue. *)
LEMMA EmptyType == <<>> \in Seq(Callers) /\ <<>> \in Seq(Micro)
  OBVIOUS

(* A queue of one caller is a queue of microtasks. *)
LEMMA OneMicroType == ASSUME NEW c \in Callers PROVE <<c>> \in Seq(Micro)
<1>1. c \in Micro
  BY DEF Micro
<1>2. QED
  BY <1>1

(* Queued callers are microtasks. *)
LEMMA CallersSeq == ASSUME NEW s \in Seq(Callers) PROVE s \in Seq(Micro)
  BY DEF Micro

(* While a slot is free, NewUpload names one that is not in flight. *)
LEMMA NewUploadType ==
  ASSUME InFlight # Uploads
  PROVE  NewUpload \in Uploads /\ NewUpload \notin InFlight
  BY DEF NewUpload, InFlight

-----------------------------------------------------------------------------
(* Types *)

(* The variables flush() may change. *)
FlushTypeOK ==
  /\ dirty \in BOOLEAN /\ failed \in BOOLEAN
  /\ flushing \in Uploads \cup {"none", "settled"}
  /\ state \in [Uploads -> States]
  /\ image \in [Uploads -> SUBSET Writes]
  /\ owner \in [Uploads -> Callers]
  /\ waiting \in [Uploads -> Seq(Callers)]
  /\ ready \in Seq(Micro)
  /\ throws \in Nat
  /\ stacked \in BOOLEAN

(* Starting a save keeps the types, with the waiting callers left alone. *)
LEMMA StartUploadType ==
  ASSUME TypeOK, NEW c \in Callers, NEW rest \in Seq(Micro),
         StartUpload(c, rest), UNCHANGED waiting
  PROVE  FlushTypeOK'
<1>1. stacked' \in BOOLEAN
  BY DEF StartUpload, TypeOK
<1>2. CASE Send(c, rest)
  BY <1>1, <1>2, NewUploadType DEF Send, TypeOK, FlushTypeOK, States
<1>3. CASE SnapshotThrows(c, rest)
  <2>1. ready' \in Seq(Micro)
    BY <1>3, ReturnToType DEF SnapshotThrows
  <2>2. QED
    BY <1>1, <1>3, <2>1 DEF SnapshotThrows, TypeOK, FlushTypeOK
<1>4. QED
  BY <1>2, <1>3 DEF StartUpload

(* flush() keeps the types of all it may touch, on each of its three ways. *)
LEMMA FlushType ==
  ASSUME TypeOK, NEW c \in Callers, NEW d \in BOOLEAN, Flush(c, d)
  PROVE  FlushTypeOK'
<1>1. CASE flushing # "none" /\ flushing \in InFlight
  <2>1. waiting' = [waiting EXCEPT ![flushing] = Append(@, c)] /\ UNCHANGED ready
    BY <1>1 DEF Flush
  <2>2. waiting' \in [Uploads -> Seq(Callers)]
    BY <1>1, <2>1 DEF TypeOK, InFlight
  <2>3. QED
    BY <1>1, <2>1, <2>2 DEF Flush, TypeOK, FlushTypeOK
<1>2. CASE flushing # "none" /\ flushing \notin InFlight
  <2>1. ready' \in Seq(Micro)
    BY <1>2, OneMicroType DEF Flush
  <2>2. QED
    BY <1>2, <2>1 DEF Flush, TypeOK, FlushTypeOK
<1>3. CASE flushing = "none" /\ ready' = ReturnTo(c) /\ dirty' = d
           /\ UNCHANGED <<failed, flights, throws, stacked>>
  BY <1>3, ReturnToType DEF TypeOK, FlushTypeOK, flights
<1>4. CASE flushing = "none" /\ StartUpload(c, <<>>) /\ UNCHANGED waiting
  BY <1>4, StartUploadType, EmptyType
<1>5. QED
  BY <1>1, <1>2, <1>3, <1>4 DEF Flush

(* The types hold at the start. *)
LEMMA TypeInit == Init => TypeOK
<1> SUFFICES ASSUME Init PROVE TypeOK
  OBVIOUS
<1>1. waiting \in [Uploads -> Seq(Callers)] /\ ready \in Seq(Micro)
  BY EmptyType DEF Init
<1>2. state \in [Uploads -> States] /\ image \in [Uploads -> SUBSET Writes]
      /\ owner \in [Uploads -> Callers] /\ phase \in Phases
  BY DEF Init, States, Callers, Phases
<1>3. QED
  BY <1>1, <1>2 DEF Init, TypeOK

(* Every step keeps the types, an action at a time. *)
LEMMA TypeNext == ASSUME TypeOK, [Next]_vars PROVE TypeOK'
<1> USE DEF TypeOK
<1>1. ASSUME NEW w \in Writes, Write(w) PROVE TypeOK'
  BY <1>1 DEF Write, backend, flights, counts, ghosts
<1>2. CASE Debounce
  BY <1>2, FlushType DEF Debounce, FlushTypeOK, flushRest, disk, backend, Callers
<1>3. CASE Heartbeat
  BY <1>3, FlushType DEF Heartbeat, FlushTypeOK, flushRest, disk, backend, Callers
<1>4. CASE SyncNow
  BY <1>4, FlushType DEF SyncNow, FlushTypeOK, flushRest, disk, backend, Callers
<1>5. CASE Stop
  <2>1. FlushTypeOK'
    BY <1>5, FlushType DEF Stop, Callers
  <2>2. QED
    BY <1>5, <2>1 DEF Stop, FlushTypeOK, flushRest, disk, backend, Phases
<1>6. CASE ResumeIdle
  <2>1. ready' \in Seq(Micro)
    BY <1>6, ReturnToType DEF ResumeIdle
  <2>2. QED
    BY <1>6, <2>1 DEF ResumeIdle, disk, backend, memory, flights, counts, ghosts
<1>7. CASE ResumeUpload
  <2>1. Head(ready) \in Callers /\ Tail(ready) \in Seq(Micro)
    BY <1>7 DEF ResumeUpload
  <2>2. FlushTypeOK'
    BY <1>7, <2>1, StartUploadType DEF ResumeUpload
  <2>3. QED
    BY <1>7, <2>2 DEF ResumeUpload, FlushTypeOK, flushRest, disk, backend
<1>8. CASE StopReturn
  BY <1>8 DEF StopReturn, Phases, disk, backend, memory, flights, counts, ghosts
<1>9. CASE BootReturn
  BY <1>9 DEF BootReturn, Phases, disk, backend, memory, flights, counts, ghosts
<1>10. ASSUME NEW u \in Uploads, Land(u) PROVE TypeOK'
  BY <1>10 DEF Land, States, disk, memory, counts, ghosts
<1>11. ASSUME NEW u \in Uploads, Settle(u), lastSynced' \in BOOLEAN,
              failed' \in BOOLEAN, dirty' \in BOOLEAN
       PROVE  TypeOK'
  <2>1. ready' \in Seq(Micro)
    BY <1>11, ReturnToType, CallersSeq DEF Settle
  <2>2. QED
    BY <1>11, <2>1, EmptyType DEF Settle, States, Callers, disk, backend, counts, ghosts
<1>12. ASSUME NEW u \in Uploads, SaveOk(u) PROVE TypeOK'
  BY <1>11, <1>12 DEF SaveOk
<1>13. ASSUME NEW u \in Uploads, SaveFails(u) PROVE TypeOK'
  BY <1>11, <1>13 DEF SaveFails
<1>14. ASSUME NEW new \in SUBSET Writes, Boot(new) PROVE TypeOK'
  BY <1>14 DEF Boot, Phases, backend, memory, flights, ghosts
<1>15. CASE BootFlush
  BY <1>15, FlushType DEF BootFlush, FlushTypeOK, flushRest, disk, backend,
     Callers, Phases
<1>16. ASSUME Die PROVE TypeOK'
  BY <1>16, EmptyType DEF Die, Phases, States, Callers, disk, backend, counts
<1>17. CASE VolumeLost
  BY <1>17 DEF VolumeLost, backend, memory, flights, counts, ghosts
<1>18. CASE UNCHANGED vars
  BY <1>18 DEF vars, disk, backend, memory, flights, counts, ghosts
<1>19. QED
  BY <1>1, <1>2, <1>3, <1>4, <1>5, <1>6, <1>7, <1>8, <1>9, <1>10, <1>12, <1>13,
     <1>14, <1>15, <1>16, <1>17, <1>18 DEF Next, Microtask, Exit, Crash

(* Every variable of MetadataSync keeps its type. *)
THEOREM TypeCorrect == Spec => []TypeOK
<1>1. TypeOK /\ [Next]_vars => TypeOK'
  BY TypeNext
<1>2. QED
  BY TypeInit, <1>1, PTL DEF Spec

-----------------------------------------------------------------------------
(* The order of uploads *)

Active == {"booting", "running", "stopping"}

(* A single upload started when nothing is in flight keeps the order. *)
LEMMA StartUploadInOrder ==
  ASSUME TypeOK, NEW c, NEW rest, InFlight = {}, StartUpload(c, rest),
         UNCHANGED <<durable, local>>
  PROVE  InOrder'
<1>1. CASE Send(c, rest)
  <2>1. NewUpload \in Uploads
    BY <1>1, NewUploadType DEF Send
  <2>2. state' = [state EXCEPT ![NewUpload] = "sent"]
        /\ image' = [image EXCEPT ![NewUpload] = local]
        /\ flushing' = NewUpload /\ dirty' = FALSE
    BY <1>1 DEF Send
  <2>3. InFlight' = {NewUpload}
    BY <2>1, <2>2 DEF InFlight, TypeOK
  <2>4. \A u \in Uploads : state'[u] # "landed"
    BY <2>1, <2>2 DEF InFlight, TypeOK
  <2>5. image'[NewUpload] = local'
    BY <2>1, <2>2 DEF TypeOK
  <2>6. QED
    BY <2>2, <2>3, <2>4, <2>5 DEF InOrder
<1>2. CASE SnapshotThrows(c, rest)
  <2>1. InFlight' = {} /\ dirty' = TRUE /\ UNCHANGED state
    BY <1>2 DEF SnapshotThrows, InFlight
  <2>2. \A u \in Uploads : state'[u] # "landed"
    BY <2>1 DEF InFlight
  <2>3. QED
    BY <2>1, <2>2 DEF InOrder
<1>3. QED
  BY <1>1, <1>2 DEF StartUpload

(* A flush() call from a macrotask keeps the order. *)
LEMMA FlushInOrder ==
  ASSUME TypeOK, InOrder, ready = <<>>, NEW c, NEW d \in BOOLEAN, Flush(c, d),
         d = dirty \/ d = TRUE,
         phase' \in Active => phase \in Active \/ (~lastSynced /\ flushing = "none"),
         UNCHANGED <<durable, local>>
  PROVE  InOrder'
<1>1. flushing = "none" => InFlight = {}
  BY UploadsAssumption DEF InOrder, InFlight
<1>2. CASE flushing # "none" /\ flushing \in InFlight
  <2>1. UNCHANGED <<ready, flushing, state, image>> /\ dirty' = d
    BY <1>2 DEF Flush
  <2>2. phase' \in Active => phase \in Active
    BY <1>2
  <2>3. QED
    BY <2>1, <2>2 DEF InOrder, InFlight, Active
<1>3. CASE flushing # "none" /\ flushing \notin InFlight
  <2>1. UNCHANGED <<flushing, state, image>> /\ dirty' = d
    BY <1>3 DEF Flush
  <2>2. InFlight = {} /\ InFlight' = {}
    BY <1>3, <2>1 DEF InOrder, InFlight
  <2>3. phase' \in Active => phase \in Active
    BY <1>3
  <2>4. QED
    BY <2>1, <2>2, <2>3 DEF InOrder, Active
<1>4. CASE flushing = "none" /\ ~d /\ lastSynced /\ dirty' = d
           /\ UNCHANGED <<failed, flights, throws, stacked>>
  <2>1. InFlight' = {} /\ InFlight = {}
    BY <1>1, <1>4 DEF InFlight, flights
  <2>2. phase' \in Active => phase \in Active
    BY <1>4
  <2>3. QED
    BY <1>4, <2>1, <2>2 DEF InOrder, Active, flights
<1>5. CASE flushing = "none" /\ StartUpload(c, <<>>)
  BY <1>1, <1>5, StartUploadInOrder
<1>6. QED
  BY <1>2, <1>3, <1>4, <1>5 DEF Flush

(* A step that leaves what InOrder speaks of alone, but for the phase. *)
LEMMA InOrderUnchanged ==
  ASSUME InOrder, phase' \in Active => phase \in Active,
         UNCHANGED <<durable, local, dirty, flushing, state, image, ready>>
  PROVE  InOrder'
BY DEF InOrder, InFlight, Active

(* The end of an upload leaves nothing in flight. *)
LEMMA SettleInOrder ==
  ASSUME TypeOK, InOrder, NEW u \in Uploads, state[u] # "free", Settle(u),
         \/ dirty' = TRUE
         \/ dirty' = dirty /\ state[u] = "landed"
  PROVE  InOrder'
<1>1. \A v \in Uploads : state'[v] = "free"
  BY DEF Settle, InOrder, InFlight, TypeOK
<1>2. InFlight' = {}
  BY <1>1 DEF InFlight
<1>3. ~dirty' /\ phase' \in Active => durable' = local'
  <2> SUFFICES ASSUME ~dirty', phase' \in Active PROVE durable' = local'
    OBVIOUS
  <2>1. UNCHANGED <<durable, local, phase>>
    BY DEF Settle, backend, disk
  <2>2. durable = image[u] /\ image[u] = local
    BY <2>1 DEF InOrder, InFlight, Active
  <2>3. QED
    BY <2>1, <2>2
<1>4. QED
  BY <1>1, <1>2, <1>3 DEF InOrder, Active

(* The inductive invariant holds at the start. *)
LEMMA IInvInit == Init => IInv
<1> SUFFICES ASSUME Init PROVE IInv
  OBVIOUS
<1>1. InFlight = {} /\ \A u \in Uploads : state[u] # "landed"
  BY DEF Init, InFlight
<1>2. QED
  BY <1>1, TypeInit DEF Init, IInv, Fresh, InOrder

(* A process that serves stays one that serves, or stops. *)
LEMMA FreshNext == ASSUME IInv, [Next]_vars PROVE Fresh'
<1> USE DEF Fresh
<1>1. CASE BootFlush
  BY <1>1 DEF BootFlush
<1>2. ASSUME NEW new \in SUBSET Writes, Boot(new) PROVE Fresh'
  BY <1>2 DEF Boot, IInv, InFlight, memory, flights
<1>3. ASSUME Die PROVE Fresh'
  BY <1>3 DEF Die, InFlight
<1>4. CASE VolumeLost
  BY <1>4 DEF VolumeLost, IInv, InFlight, memory, flights
<1>5. CASE UNCHANGED vars
  BY <1>5 DEF vars, IInv, InFlight, memory, flights
<1>6. ASSUME NEW u \in Uploads, Land(u) \/ SaveOk(u) \/ SaveFails(u)
      PROVE  Fresh'
  <2>1. u \in InFlight
    BY <1>6 DEF Land, SaveOk, SaveFails, InFlight
  <2>2. phase \notin {"down", "restored"} /\ phase' = phase
    BY <1>6, <2>1 DEF IInv, Land, SaveOk, SaveFails, Settle
  <2>3. QED
    BY <2>2
<1>7. CASE Microtask
  <2>1. phase \notin {"down", "restored"}
    BY <1>7 DEF IInv, Microtask, ResumeIdle, ResumeUpload, StopReturn, BootReturn
  <2>2. phase' = phase \/ phase' \in {"running", "stopped"}
    BY <1>7 DEF Microtask, ResumeIdle, ResumeUpload, StopReturn, BootReturn
  <2>3. QED
    BY <2>1, <2>2
<1>8. ASSUME NEW w \in Writes, Write(w) PROVE Fresh'
  BY <1>8 DEF Write
<1>9. CASE Debounce \/ Heartbeat \/ SyncNow \/ Stop
  BY <1>9 DEF IInv, Debounce, Heartbeat, SyncNow, Stop
<1>10. QED
  BY <1>1, <1>2, <1>3, <1>4, <1>5, <1>6, <1>7, <1>8, <1>9 DEF Next, Exit, Crash

(* No step but a "sync now" over an upload breaks the order of uploads. *)
LEMMA InOrderNext ==
  ASSUME IInv, [Next]_vars, ~stacked'
  PROVE  InOrder'
<1> USE DEF IInv
<1>1. ASSUME NEW w \in Writes, Write(w) PROVE InOrder'
  <2>1. ~stacked /\ ready = <<>> /\ ready' = ready /\ InFlight' = InFlight
        /\ UNCHANGED <<flushing, state, image, durable, phase>>
    BY <1>1 DEF Write, InFlight, ghosts, flights, backend
  <2>2. phase \in Active => dirty' = TRUE
    BY <1>1 DEF Write, Active
  <2>3. QED
    BY <2>1, <2>2 DEF InOrder, Active
<1>2. CASE Debounce \/ Heartbeat \/ SyncNow \/ BootFlush
  <2>1. ready = <<>> /\ UNCHANGED <<durable, local>>
    BY <1>2 DEF Debounce, Heartbeat, SyncNow, BootFlush, flushRest, backend, disk, Fresh
  <2>2. phase' \in Active => phase \in Active \/ (~lastSynced /\ flushing = "none")
    <3>1. CASE BootFlush
      BY <3>1 DEF BootFlush, Fresh
    <3>2. CASE Debounce \/ Heartbeat \/ SyncNow
      BY <3>2 DEF Debounce, Heartbeat, SyncNow
    <3>3. QED
      BY <1>2, <3>1, <3>2
  <2>3. PICK c : Flush(c, dirty)
    BY <1>2 DEF Debounce, Heartbeat, SyncNow, BootFlush
  <2>4. ~stacked
    BY <2>3 DEF Flush, StartUpload
  <2>5. dirty \in BOOLEAN
    BY DEF TypeOK
  <2>6. QED
    BY <2>1, <2>2, <2>3, <2>4, <2>5, FlushInOrder
<1>3. CASE Stop
  <2>1. ready = <<>> /\ UNCHANGED <<durable, local>> /\ phase \in Active
        /\ Flush("stop", TRUE)
    BY <1>3 DEF Stop, flushRest, backend, disk, Active
  <2>2. ~stacked
    BY <2>1 DEF Flush, StartUpload
  <2>3. TypeOK /\ InOrder
    BY <2>2
  <2>4. QED
    BY <2>1, <2>3, FlushInOrder
<1>4. CASE ResumeIdle
  <2>1. ~stacked /\ ~dirty /\ InFlight' = InFlight
        /\ UNCHANGED <<durable, local, dirty, flushing, state, image, phase>>
    BY <1>4 DEF ResumeIdle, InFlight, ghosts, flights, backend, disk, memory
  <2>2. QED
    BY <2>1 DEF InOrder
<1>5. CASE ResumeUpload
  <2>1. StartUpload(Head(ready), Tail(ready)) /\ ready # <<>>
        /\ UNCHANGED <<durable, local>>
    BY <1>5 DEF ResumeUpload, flushRest, backend, disk
  <2>2. ~stacked /\ (Head(ready) = "force" => InFlight = {})
    BY <2>1 DEF StartUpload
  <2>3. InFlight = {}
    BY <1>5, <2>2 DEF ResumeUpload, InOrder
  <2>4. QED
    BY <2>1, <2>3, StartUploadInOrder
<1>6. CASE StopReturn \/ BootReturn
  <2>1. ~stacked /\ InFlight' = InFlight /\ ready # <<>>
        /\ UNCHANGED <<durable, local, dirty, flushing, state, image>>
    BY <1>6 DEF StopReturn, BootReturn, InFlight, ghosts, flights, backend, disk,
       memory
  <2>2. phase' \in Active => phase \in Active
    BY <1>6 DEF StopReturn, BootReturn, Active
  <2>3. QED
    BY <2>1, <2>2 DEF InOrder, Active
<1>7. ASSUME NEW u \in Uploads, Land(u) PROVE InOrder'
  <2>1. ~stacked /\ state[u] = "sent" /\ u \in InFlight
    BY <1>7 DEF Land, ghosts, InFlight
  <2>2. \A v \in InFlight : v = u
    BY <2>1 DEF InOrder
  <2>3. state' = [state EXCEPT ![u] = "landed"] /\ durable' = image[u]
        /\ UNCHANGED <<local, dirty, flushing, image, ready, phase>>
    BY <1>7 DEF Land, disk, memory
  <2>4. InFlight' = InFlight
    BY <2>1, <2>3 DEF InFlight, TypeOK
  <2>5. \A v \in Uploads : state'[v] = "landed" => v = u
    BY <2>2, <2>3 DEF InFlight, TypeOK
  <2>6. QED
    BY <2>1, <2>3, <2>4, <2>5 DEF InOrder
<1>8. ASSUME NEW u \in Uploads, SaveOk(u) \/ SaveFails(u) PROVE InOrder'
  <2>1. Settle(u) /\ state[u] # "free"
    BY <1>8 DEF SaveOk, SaveFails
  <2>. ~stacked
    BY <2>1 DEF Settle, ghosts
  <2>2. \/ dirty' = TRUE
        \/ dirty' = dirty /\ state[u] = "landed"
    BY <1>8 DEF SaveOk, SaveFails
  <2>3. QED
    BY <2>1, <2>2, SettleInOrder
<1>9. ASSUME NEW new \in SUBSET Writes, Boot(new) PROVE InOrder'
  <2>1. InFlight' = {} /\ UNCHANGED state
    BY <1>9 DEF Boot, Fresh, InFlight, flights
  <2>2. \A u \in Uploads : state'[u] # "landed"
    BY <2>1 DEF InFlight
  <2>3. QED
    BY <1>9, <2>1, <2>2 DEF Boot, InOrder
<1>10. ASSUME Die PROVE InOrder'
  <2>1. InFlight' = {} /\ \A u \in Uploads : state'[u] # "landed"
    BY <1>10 DEF Die, InFlight
  <2>2. QED
    BY <1>10, <2>1 DEF Die, InOrder
<1>11. CASE VolumeLost
  <2>1. ~stacked /\ phase = "down" /\ InFlight' = InFlight /\ InFlight = {}
        /\ UNCHANGED <<durable, dirty, flushing, state, image, ready, phase>>
    BY <1>11 DEF VolumeLost, InFlight, ghosts, flights, backend, memory, Fresh
  <2>2. QED
    BY <2>1 DEF InOrder
<1>12. CASE UNCHANGED vars
  BY <1>12, InOrderUnchanged DEF vars, ghosts, flights, backend, disk, memory
<1>13. QED
  BY <1>1, <1>2, <1>3, <1>4, <1>5, <1>6, <1>7, <1>8, <1>9, <1>10, <1>11, <1>12
  DEF Next, Microtask, Exit, Crash

(* The inductive invariant of the replication: the types, a new process
   that has nothing in flight, and uploads in the order of the writes until a
   "sync now" breaks it (metadata-sync.ts:66-92). *)
THEOREM Invariance == Spec => []IInv
<1>1. IInv /\ [Next]_vars => IInv'
  BY TypeNext, FreshNext, InOrderNext DEF IInv
<1>2. QED
  BY IInvInit, <1>1, PTL DEF Spec

(* Timers, heartbeats, the boot and stop() serialize their uploads
   (metadata-sync.ts:70), and a change that is not in the row is dirty or on
   its way (metadata-sync.ts:83-92). *)
THEOREM UploadsFollowWrites == Spec => []UploadsKeepUp
<1>1. IInv => OneUpload
  BY DEF IInv, InOrder, OneUpload
<1>2. IInv => NothingForgotten
  BY DEF IInv, InOrder, NothingForgotten
<1>3. QED
  BY Invariance, <1>1, <1>2, PTL DEF UploadsKeepUp

-----------------------------------------------------------------------------
(* The row and the store *)

(* What the row and the uploads carry has been in the store, and a snapshot
   is taken of no less than what the row holds. *)
Backed ==
  /\ ~hasRow => durable = {}
  /\ phase # "down" => durable \subseteq local
  /\ phase = "down" => ~stacked
  /\ \A u \in InFlight : image[u] \subseteq local
  /\ ~stacked => \A u \in InFlight : durable \subseteq image[u]

(* A new snapshot is one of the whole store. *)
LEMMA StartUploadBacked ==
  ASSUME TypeOK, Backed, NEW c, NEW rest, StartUpload(c, rest),
         phase # "down", phase' # "down", UNCHANGED <<durable, hasRow, local>>
  PROVE  Backed'
<1>1. stacked => stacked'
  BY DEF StartUpload
<1>2. CASE Send(c, rest)
  <2>1. NewUpload \in Uploads
    BY <1>2, NewUploadType DEF Send
  <2>2. InFlight' \subseteq InFlight \cup {NewUpload}
    BY <1>2, <2>1 DEF Send, InFlight, TypeOK
  <2>3. image'[NewUpload] = local
        /\ \A u \in Uploads \ {NewUpload} : image'[u] = image[u]
    BY <1>2, <2>1 DEF Send, TypeOK
  <2>4. InFlight \subseteq Uploads
    BY DEF InFlight
  <2>5. QED
    BY <1>1, <2>2, <2>3, <2>4 DEF Backed
<1>3. CASE SnapshotThrows(c, rest)
  BY <1>1, <1>3 DEF SnapshotThrows, Backed, InFlight
<1>4. QED
  BY <1>2, <1>3 DEF StartUpload

(* flush() sends images of what was written, never more. *)
LEMMA FlushBacked ==
  ASSUME TypeOK, Backed, NEW c, NEW d, Flush(c, d),
         phase # "down", phase' # "down", UNCHANGED <<durable, hasRow, local>>
  PROVE  Backed'
<1>1. CASE StartUpload(c, <<>>)
  BY <1>1, StartUploadBacked
<1>2. CASE UNCHANGED <<state, image, stacked>>
  BY <1>2 DEF Backed, InFlight
<1>3. QED
  BY <1>1, <1>2 DEF Flush, flights

(* At the start the row is missing and nothing is in flight. *)
LEMMA BackedInit == Init => Backed
  BY DEF Init, Backed, InFlight

(* Every step leaves the row and the images to hold local writes only. *)
LEMMA BackedNext ==
  ASSUME IInv, Backed, [Next]_vars
  PROVE  Backed'
<1> USE DEF IInv
<1>1. ASSUME NEW w \in Writes, Write(w) PROVE Backed'
  BY <1>1 DEF Write, Backed, InFlight, backend, flights, ghosts
<1>2. CASE Debounce \/ Heartbeat \/ SyncNow \/ Stop \/ BootFlush
  <2>1. phase # "down" /\ phase' # "down" /\ UNCHANGED <<durable, hasRow, local>>
    BY <1>2 DEF Debounce, Heartbeat, SyncNow, Stop, BootFlush, Fresh, flushRest,
       disk, backend
  <2>2. PICK c, d : Flush(c, d)
    BY <1>2 DEF Debounce, Heartbeat, SyncNow, Stop, BootFlush
  <2>3. QED
    BY <2>1, <2>2, FlushBacked
<1>3. CASE ResumeIdle \/ StopReturn \/ BootReturn
  <2>1. phase # "down" /\ phase' # "down"
        /\ UNCHANGED <<durable, hasRow, local, state, image, stacked>>
    BY <1>3 DEF ResumeIdle, StopReturn, BootReturn, Fresh, disk, backend,
       flights, ghosts
  <2>2. QED
    BY <2>1 DEF Backed, InFlight
<1>4. CASE ResumeUpload
  <2>1. phase # "down" /\ phase' # "down" /\ UNCHANGED <<durable, hasRow, local>>
    BY <1>4 DEF ResumeUpload, Fresh, flushRest, disk, backend
  <2>2. QED
    BY <1>4, <2>1, StartUploadBacked DEF ResumeUpload
<1>5. ASSUME NEW u \in Uploads, Land(u) PROVE Backed'
  <2>1. u \in InFlight /\ InFlight' = InFlight
    BY <1>5 DEF Land, InFlight, TypeOK
  <2>2. phase # "down"
    BY <2>1 DEF Fresh
  <2>3. ~stacked => \A v \in InFlight : v = u
    BY <2>1 DEF InOrder
  <2>4. QED
    BY <1>5, <2>1, <2>2, <2>3 DEF Land, Backed, disk, ghosts
<1>6. ASSUME NEW u \in Uploads, SaveOk(u) \/ SaveFails(u) PROVE Backed'
  <2>1. Settle(u)
    BY <1>6 DEF SaveOk, SaveFails
  <2>2. InFlight' \subseteq InFlight \ {u}
    BY <2>1 DEF Settle, InFlight, TypeOK
  <2>3. \A v \in Uploads \ {u} : image'[v] = image[v]
    BY <2>1 DEF Settle, TypeOK
  <2>4. QED
    BY <2>1, <2>2, <2>3 DEF Settle, Backed, InFlight, backend, disk, ghosts
<1>7. ASSUME NEW new \in SUBSET Writes, Boot(new) PROVE Backed'
  <2>1. phase = "down" /\ phase' # "down" /\ InFlight' = {} /\ ~stacked
        /\ UNCHANGED <<durable, hasRow, stacked>>
    BY <1>7 DEF Boot, Fresh, Backed, InFlight, backend, flights, ghosts
  <2>2. durable' \subseteq local'
    BY <1>7, <2>1 DEF Boot, Backed
  <2>3. QED
    BY <2>1, <2>2 DEF Backed
<1>8. ASSUME Die PROVE Backed'
  BY <1>8 DEF Die, Backed, InFlight, backend
<1>9. CASE VolumeLost
  BY <1>9 DEF VolumeLost, Backed, Fresh, backend, ghosts, InFlight, flights
<1>10. CASE UNCHANGED vars
  BY <1>10 DEF vars, Backed, InFlight, backend, disk, flights, ghosts
<1>11. QED
  BY <1>1, <1>2, <1>3, <1>4, <1>5, <1>6, <1>7, <1>8, <1>9, <1>10
  DEF Next, Microtask, Exit, Crash

-----------------------------------------------------------------------------
(* The durable copy *)

(* Of the variables flush() changes, the durable copy sees `stacked'. *)
LEMMA FlushCopies ==
  ASSUME TypeOK, phase # "down", phase' # "down",
         UNCHANGED <<durable, hasRow, local>>, stacked => stacked'
  PROVE  Copy!Disorder \/ UNCHANGED Copy!vars
  BY DEF Copy!Disorder, Copy!vars, Platform, TypeOK

(* The row changes to a content of the store that is no older. *)
LEMMA DieCopies ==
  ASSUME IInv, Backed, Die, phase # "down"
  PROVE  Copy!Lose
<1> USE DEF IInv, Backed
<1>1. durable' \subseteq local /\ (~stacked => durable \subseteq durable')
  BY DEF Die, backend, InFlight
<1>2. Platform = local /\ local \in SUBSET Writes
  BY DEF Platform, TypeOK
<1>3. Platform' \subseteq local /\ durable' \subseteq Platform'
  BY <1>1 DEF Die, Platform, backend, disk
<1>4. ~stacked'
  BY DEF Die
<1>5. QED
  BY <1>1, <1>2, <1>3, <1>4 DEF Copy!Lose

(* Every step is a step of the abstract copy, or leaves it alone. *)
LEMMA CopyNext ==
  ASSUME IInv, Backed, [Next]_vars
  PROVE  [Copy!Next]_Copy!vars
<1> USE DEF IInv
<1>1. ASSUME NEW w \in Writes, Write(w) PROVE Copy!Change
  BY <1>1 DEF Write, Copy!Change, Platform, TypeOK, backend, ghosts
<1>2. CASE Debounce \/ Heartbeat \/ SyncNow \/ Stop \/ BootFlush
  <2>1. phase # "down" /\ phase' # "down" /\ UNCHANGED <<durable, hasRow, local>>
    BY <1>2 DEF Debounce, Heartbeat, SyncNow, Stop, BootFlush, Fresh, flushRest,
       disk, backend
  <2>2. PICK c, d : Flush(c, d)
    BY <1>2 DEF Debounce, Heartbeat, SyncNow, Stop, BootFlush
  <2>3. stacked => stacked'
    BY <2>2 DEF Flush, StartUpload
  <2>4. QED
    BY <2>1, <2>3, FlushCopies DEF Copy!Next
<1>3. CASE ResumeIdle \/ StopReturn \/ BootReturn
  <2>1. phase # "down" /\ phase' # "down"
        /\ UNCHANGED <<durable, hasRow, local, stacked>>
    BY <1>3 DEF ResumeIdle, StopReturn, BootReturn, Fresh, disk, backend, ghosts
  <2>2. QED
    BY <2>1, FlushCopies DEF Copy!Next
<1>4. CASE ResumeUpload
  <2>1. phase # "down" /\ phase' # "down" /\ UNCHANGED <<durable, hasRow, local>>
    BY <1>4 DEF ResumeUpload, Fresh, flushRest, disk, backend
  <2>2. stacked => stacked'
    BY <1>4 DEF ResumeUpload, StartUpload
  <2>3. QED
    BY <2>1, <2>2, FlushCopies DEF Copy!Next
<1>5. ASSUME NEW u \in Uploads, Land(u) PROVE Copy!Publish
  <2>1. u \in InFlight
    BY <1>5 DEF Land, InFlight
  <2>2. phase # "down" /\ phase' = phase /\ local' = local /\ stacked' = stacked
    BY <1>5, <2>1 DEF Land, Fresh, disk, ghosts
  <2>3. durable' = image[u] /\ image[u] \subseteq local
        /\ (~stacked => durable \subseteq image[u])
    BY <1>5, <2>1 DEF Land, Backed
  <2>4. QED
    BY <2>2, <2>3 DEF Copy!Publish, Platform
<1>6. ASSUME NEW u \in Uploads, SaveOk(u) \/ SaveFails(u)
      PROVE  UNCHANGED Copy!vars
  <2>1. UNCHANGED <<durable, hasRow, local, phase, stacked>>
    BY <1>6 DEF SaveOk, SaveFails, Settle, backend, disk, ghosts
  <2>2. QED
    BY <2>1 DEF Copy!vars, Platform
<1>7. ASSUME NEW new \in SUBSET Writes, Boot(new) PROVE Copy!Change
  BY <1>7 DEF Boot, Copy!Change, Platform, TypeOK, backend, ghosts
<1>8. CASE Exit \/ Crash
  BY <1>8, DieCopies DEF Exit, Crash, Copy!Next
<1>9. CASE VolumeLost
  <2>1. ~stacked /\ ~stacked' /\ Platform' \subseteq Platform
        /\ durable' = durable /\ durable \subseteq Platform'
    BY <1>9 DEF VolumeLost, Backed, Platform, backend, ghosts
  <2>2. QED
    BY <2>1 DEF Copy!Next, Copy!Lose
<1>10. CASE UNCHANGED vars
  BY <1>10 DEF vars, backend, disk, ghosts, Copy!vars, Platform
<1>11. QED
  BY <1>1, <1>2, <1>3, <1>4, <1>5, <1>6, <1>7, <1>8, <1>9, <1>10
  DEF Next, Microtask, Copy!Next

(* The row only holds what the store has held, moves forward until a "sync
   now" breaks the order (metadata-sync.ts:70), and is what a restart brings
   back (index.ts:63): every step of the protocol is one of DurableCopy. *)
THEOREM SyncImplementsDurableCopy == Spec => ImplementsDurableCopy
<1>1. Init => Copy!Init
  BY DEF Init, Copy!Init, Platform
<1>2. IInv /\ Backed /\ [Next]_vars => [Copy!Next]_Copy!vars
  BY CopyNext
<1>3. IInv /\ Backed /\ [Next]_vars => Backed'
  BY BackedNext
<1>4. QED
  BY <1>1, <1>2, <1>3, Invariance, BackedInit, PTL
  DEF Spec, ImplementsDurableCopy, Copy!Spec

-----------------------------------------------------------------------------
(* The final flush *)

(* A queue in which neither stop() nor its return waits. *)
QuietCallers == Callers \ {"stop"}
Quiet(queue) == queue \in Seq(Micro \ {"stop", "stopReturn"})

(* Until stop() is called, nothing is queued on its behalf. *)
BeforeStop ==
  phase \notin {"stopping", "stopped"} =>
    /\ Quiet(ready)
    /\ \A u \in Uploads : waiting[u] \in Seq(QuietCallers) /\ owner[u] # "stop"

(* The flush() of stop() waits for an upload, first in its line ... *)
StopWaits ==
  /\ phase = "stopping" /\ flushing \in InFlight /\ ready = <<>>
  /\ owner[flushing] # "stop"
  /\ waiting[flushing] # <<>> /\ Head(waiting[flushing]) = "stop"
  /\ Tail(waiting[flushing]) \in Seq(QuietCallers)

(* ... is about to go on, with nothing in flight ... *)
StopResumes ==
  /\ phase = "stopping" /\ InFlight = {}
  /\ ready # <<>> /\ Head(ready) = "stop" /\ Quiet(Tail(ready))

(* ... has uploaded, and waits for its own upload ... *)
StopUploads ==
  /\ phase = "stopping" /\ Quiet(ready)
  /\ \E u \in InFlight : owner[u] = "stop" /\ atStop \subseteq image[u]

(* ... or is over: the row holds what the store held, unless the last upload
   failed, and no later upload takes it away. *)
StopDone ==
  /\ \A u \in InFlight : atStop \subseteq image[u]
  /\ failed \/ atStop \subseteq durable

AfterStop ==
  phase \in {"stopping", "stopped"} =>
    /\ atStop \subseteq local
    /\ ~stacked /\ calm =>
         StopWaits \/ StopResumes \/ StopUploads \/ StopDone

StopInv == BeforeStop /\ AfterStop

(* An empty queue holds no turn of stop(). *)
LEMMA QuietEmpty == Quiet(<<>>) /\ <<>> \in Seq(QuietCallers)
  BY DEF Quiet

(* Nor does the rest of a quiet queue. *)
LEMMA QuietTail ==
  ASSUME NEW queue, Quiet(queue), queue # <<>>
  PROVE  Quiet(Tail(queue)) /\ Head(queue) \notin {"stop", "stopReturn"}
  BY DEF Quiet

(* Two quiet queues make one. *)
LEMMA QuietConcat ==
  ASSUME NEW q, NEW r, Quiet(q), Quiet(r)
  PROVE  Quiet(q \o r)
  BY DEF Quiet

(* A queue of callers without stop() is quiet. *)
LEMMA QuietCallersSeq ==
  ASSUME NEW s \in Seq(QuietCallers) PROVE Quiet(s)
  BY DEF Quiet, QuietCallers, Callers, Micro

(* The return of another caller is no turn of stop(). *)
LEMMA QuietReturn ==
  ASSUME NEW c, c # "stop" PROVE Quiet(ReturnTo(c))
<1>1. "bootReturn" \in Micro \ {"stop", "stopReturn"}
  BY DEF Micro
<1>2. CASE c = "boot"
  BY <1>1, <1>2 DEF ReturnTo, Quiet
<1>3. CASE c # "boot"
  BY <1>3, QuietEmpty DEF ReturnTo
<1>4. QED
  BY <1>2, <1>3

(* The head of a sequence of two parts, the first not empty. *)
LEMMA HeadTailConcat ==
  ASSUME NEW s \in Seq(Callers), NEW r \in Seq(Micro), s # <<>>
  PROVE  /\ s \o r # <<>>
         /\ Head(s \o r) = Head(s)
         /\ Tail(s \o r) = Tail(s) \o r
  OBVIOUS

(* A save another caller starts is not the save of stop(). *)
LEMMA StartUploadQuiet ==
  ASSUME TypeOK, NEW c, NEW rest, c # "stop", Quiet(rest), StartUpload(c, rest),
         \A u \in Uploads : owner[u] # "stop"
  PROVE  Quiet(ready') /\ \A u \in Uploads : owner'[u] # "stop"
<1>1. CASE Send(c, rest)
  BY <1>1, NewUploadType DEF Send, TypeOK
<1>2. CASE SnapshotThrows(c, rest)
  BY <1>2, QuietReturn, QuietConcat DEF SnapshotThrows
<1>3. QED
  BY <1>1, <1>2 DEF StartUpload

(* flush() for another caller queues nothing for stop(). *)
LEMMA FlushQuiet ==
  ASSUME TypeOK, NEW c \in QuietCallers, NEW d, Flush(c, d), Quiet(ready),
         \A u \in Uploads : waiting[u] \in Seq(QuietCallers) /\ owner[u] # "stop"
  PROVE  /\ Quiet(ready')
         /\ \A u \in Uploads : waiting'[u] \in Seq(QuietCallers) /\ owner'[u] # "stop"
<1>1. CASE flushing # "none" /\ flushing \in InFlight
  <2>1. waiting' = [waiting EXCEPT ![flushing] = Append(@, c)]
        /\ UNCHANGED <<ready, owner>>
    BY <1>1 DEF Flush
  <2>2. QED
    BY <1>1, <2>1 DEF TypeOK, InFlight
<1>2. CASE flushing # "none" /\ flushing \notin InFlight
  <2>1. <<c>> \in Seq(QuietCallers)
    OBVIOUS
  <2>2. Quiet(<<c>>)
    BY <2>1, QuietCallersSeq
  <2>3. ready' = <<c>> /\ UNCHANGED <<waiting, owner>>
    BY <1>2 DEF Flush
  <2>4. QED
    BY <2>2, <2>3
<1>3. CASE flushing = "none" /\ ready' = ReturnTo(c) /\ UNCHANGED <<waiting, owner>>
  BY <1>3, QuietReturn DEF QuietCallers
<1>4. CASE StartUpload(c, <<>>) /\ UNCHANGED waiting
  BY <1>4, StartUploadQuiet, QuietEmpty DEF QuietCallers
<1>5. QED
  BY <1>1, <1>2, <1>3, <1>4 DEF Flush, flights

(* No stop() is under way at the start. *)
LEMMA StopInvInit == Init => StopInv
<1> SUFFICES ASSUME Init PROVE StopInv
  OBVIOUS
<1>1. phase = "down" /\ Quiet(ready)
      /\ \A u \in Uploads : waiting[u] \in Seq(QuietCallers) /\ owner[u] # "stop"
  BY QuietEmpty DEF Init
<1>2. QED
  BY <1>1 DEF StopInv, BeforeStop, AfterStop

(* Until stop() is called nothing acts in its name. *)
LEMMA BeforeStopNext ==
  ASSUME TypeOK, BeforeStop, [Next]_vars
  PROVE  BeforeStop'
<1> DEFINE Goal == /\ Quiet(ready')
                   /\ \A u \in Uploads : /\ waiting'[u] \in Seq(QuietCallers)
                                         /\ owner'[u] # "stop"
<1> SUFFICES ASSUME phase' \notin {"stopping", "stopped"} PROVE Goal
  BY DEF BeforeStop, Quiet
<1>1. CASE Debounce \/ Heartbeat \/ SyncNow \/ BootFlush
  <2>1. phase \notin {"stopping", "stopped"}
    BY <1>1 DEF Debounce, Heartbeat, SyncNow, BootFlush
  <2>2. PICK c \in QuietCallers : Flush(c, dirty)
    BY <1>1 DEF Debounce, Heartbeat, SyncNow, BootFlush, QuietCallers, Callers
  <2>3. QED
    BY <2>1, <2>2, FlushQuiet DEF BeforeStop
<1>2. CASE ResumeIdle
  <2>1. phase \notin {"stopping", "stopped"} /\ UNCHANGED <<waiting, owner>>
        /\ ready # <<>> /\ ready' = Tail(ready) \o ReturnTo(Head(ready))
    BY <1>2 DEF ResumeIdle, flights
  <2>2. Quiet(ready')
    BY <2>1, QuietTail, QuietReturn, QuietConcat DEF BeforeStop
  <2>3. QED
    BY <2>1, <2>2 DEF BeforeStop
<1>3. CASE ResumeUpload
  <2>1. phase \notin {"stopping", "stopped"} /\ UNCHANGED waiting /\ ready # <<>>
        /\ StartUpload(Head(ready), Tail(ready))
    BY <1>3 DEF ResumeUpload
  <2>2. QED
    BY <2>1, QuietTail, StartUploadQuiet DEF BeforeStop
<1>4. CASE BootReturn
  BY <1>4, QuietTail DEF BootReturn, BeforeStop, flights
<1>5. ASSUME NEW u \in Uploads, Settle(u) PROVE Goal
  <2>1. phase \notin {"stopping", "stopped"}
    BY <1>5 DEF Settle
  <2>2. Quiet(waiting[u]) /\ Quiet(ReturnTo(owner[u]))
    BY <2>1, QuietCallersSeq, QuietReturn DEF BeforeStop
  <2>3. Quiet(ready')
    BY <1>5, <2>2, QuietConcat DEF Settle
  <2>4. QED
    BY <1>5, <2>1, <2>3, QuietEmpty DEF Settle, BeforeStop, TypeOK
<1>6. ASSUME Die PROVE Goal
  BY <1>6, QuietEmpty DEF Die
<1>7. CASE UNCHANGED <<ready, waiting, owner>>
           /\ (phase' = phase \/ phase = "down")
  BY <1>7 DEF BeforeStop
<1>8. ASSUME NEW w \in Writes, Write(w) PROVE Goal
  BY <1>7, <1>8 DEF Write, flights
<1>9. ASSUME NEW u \in Uploads, Land(u) PROVE Goal
  BY <1>7, <1>9 DEF Land
<1>10. ASSUME NEW new \in SUBSET Writes, Boot(new) PROVE Goal
  BY <1>7, <1>10 DEF Boot, flights
<1>11. CASE VolumeLost
  BY <1>7, <1>11 DEF VolumeLost, flights
<1>12. CASE UNCHANGED vars
  BY <1>7, <1>12 DEF vars, flights
<1>13. ~Stop /\ ~StopReturn
  BY DEF Stop, StopReturn
<1> HIDE DEF Goal
<1>14. QED
  BY <1>1, <1>2, <1>3, <1>4, <1>5, <1>6, <1>8, <1>9, <1>10, <1>11, <1>12, <1>13
  DEF Next, Microtask, Exit, Crash, SaveOk, SaveFails

(* Where the flush() of stop() is. *)
Stage == StopWaits \/ StopResumes \/ StopUploads \/ StopDone

(* The stage of stop() depends on these variables alone. *)
LEMMA StageUnchanged ==
  ASSUME Stage,
         UNCHANGED <<phase, flushing, state, image, owner, waiting, ready, atStop,
                     durable, failed>>
  PROVE  Stage'
  BY DEF Stage, StopWaits, StopResumes, StopUploads, StopDone, InFlight, Quiet

(* An upload begun after the final flush carries no less. *)
LEMMA StartUploadDone ==
  ASSUME TypeOK, StopDone, atStop \subseteq local, NEW c, NEW rest,
         StartUpload(c, rest), UNCHANGED <<durable, atStop>>
  PROVE  StopDone'
<1>1. CASE Send(c, rest)
  <2>1. NewUpload \in Uploads
    BY <1>1, NewUploadType DEF Send
  <2>2. InFlight' \subseteq InFlight \cup {NewUpload} /\ UNCHANGED failed
    BY <1>1, <2>1 DEF Send, InFlight, TypeOK
  <2>3. image'[NewUpload] = local
        /\ \A u \in Uploads \ {NewUpload} : image'[u] = image[u]
    BY <1>1, <2>1 DEF Send, TypeOK
  <2>4. QED
    BY <2>2, <2>3 DEF StopDone, InFlight
<1>2. CASE SnapshotThrows(c, rest)
  BY <1>2 DEF SnapshotThrows, StopDone, InFlight
<1>3. QED
  BY <1>1, <1>2 DEF StartUpload

(* The upload stop() makes when nothing is in flight. *)
LEMMA StartUploadStop ==
  ASSUME TypeOK, InFlight = {}, NEW rest, Quiet(rest), StartUpload("stop", rest),
         phase' = "stopping", atStop' \subseteq local
  PROVE  Stage'
<1>1. CASE Send("stop", rest)
  <2>1. NewUpload \in Uploads
    BY <1>1, NewUploadType DEF Send
  <2>2. NewUpload \in InFlight' /\ owner'[NewUpload] = "stop"
        /\ image'[NewUpload] = local /\ Quiet(ready')
    BY <1>1, <2>1 DEF Send, InFlight, TypeOK
  <2>3. StopUploads'
    BY <2>2 DEF StopUploads, Quiet
  <2>4. QED
    BY <2>3 DEF Stage
<1>2. CASE SnapshotThrows("stop", rest)
  <2>1. InFlight' = {} /\ failed'
    BY <1>2 DEF SnapshotThrows, InFlight
  <2>2. QED
    BY <2>1 DEF Stage, StopDone
<1>3. QED
  BY <1>1, <1>2 DEF StartUpload

(* stop() is called. *)
LEMMA StopStage ==
  ASSUME TypeOK, InOrder, BeforeStop, Stop, calm'
  PROVE  Stage'
<1>1. ready = <<>> /\ atStop' = local /\ phase' = "stopping" /\ Flush("stop", TRUE)
      /\ \A u \in Uploads : waiting[u] \in Seq(QuietCallers) /\ owner[u] # "stop"
  BY DEF Stop, BeforeStop
<1>2. CASE flushing # "none" /\ flushing \in InFlight
  <2>1. flushing \in Uploads /\ waiting[flushing] = <<>>
    BY <1>2 DEF Stop, InFlight
  <2>2. waiting'[flushing] = <<"stop">>
    BY <1>1, <1>2, <2>1 DEF Flush, TypeOK
  <2>3. UNCHANGED <<flushing, state, owner, ready>>
    BY <1>1, <1>2 DEF Flush
  <2>4. StopWaits'
    <3>1. waiting'[flushing'] = <<"stop">> /\ owner'[flushing'] # "stop"
      BY <1>1, <2>1, <2>2, <2>3
    <3>2. Head(<<"stop">>) = "stop" /\ Tail(<<"stop">>) = <<>> /\ <<"stop">> # <<>>
      OBVIOUS
    <3>3. phase' = "stopping" /\ flushing' \in InFlight' /\ ready' = <<>>
      BY <1>1, <1>2, <2>3 DEF InFlight
    <3>4. QED
      BY <3>1, <3>2, <3>3, QuietEmpty DEF StopWaits
  <2>5. QED
    BY <2>4 DEF Stage
<1>3. CASE flushing # "none" /\ flushing \notin InFlight
  <2>1. ready' = <<"stop">> /\ UNCHANGED state
    BY <1>1, <1>3 DEF Flush
  <2>2. InFlight' = {}
    BY <1>3, <2>1 DEF InOrder, InFlight
  <2>3. StopResumes'
    BY <1>1, <2>1, <2>2, QuietEmpty DEF StopResumes, Quiet
  <2>4. QED
    BY <2>3 DEF Stage
<1>4. CASE flushing = "none"
  <2>1. InFlight = {}
    BY <1>4, UploadsAssumption DEF InOrder, InFlight
  <2>2. StartUpload("stop", <<>>)
    BY <1>1, <1>4 DEF Flush
  <2>3. QED
    BY <1>1, <2>1, <2>2, StartUploadStop, QuietEmpty
<1>5. QED
  BY <1>2, <1>3, <1>4

(* A timer fires while stop() waits, or after it. *)
LEMMA DebounceStage ==
  ASSUME TypeOK, InOrder, Stage, Debounce, atStop \subseteq local
  PROVE  Stage'
<1>1. ready = <<>> /\ UNCHANGED <<atStop, durable, phase>> /\ Flush("tick", dirty)
  BY DEF Debounce, flushRest, backend
<1>2. flushing \in InFlight => flushing # "none"
  BY UploadsAssumption DEF InFlight
<1>3. flushing \in InFlight =>
        /\ waiting' = [waiting EXCEPT ![flushing] = Append(@, "tick")]
        /\ UNCHANGED <<ready, failed, flushing, state, image, owner>>
  BY <1>1, <1>2 DEF Flush
<1>4. CASE StopWaits
  <2>1. flushing \in Uploads /\ "tick" \in QuietCallers
    BY <1>4 DEF StopWaits, InFlight, QuietCallers, Callers
  <2>2. waiting'[flushing] = Append(waiting[flushing], "tick")
    BY <1>3, <1>4, <2>1 DEF StopWaits, TypeOK
  <2>3. waiting[flushing] \in Seq(Callers) /\ waiting[flushing] # <<>>
    BY <1>4, <2>1 DEF StopWaits, TypeOK
  <2>4. /\ waiting'[flushing] # <<>>
        /\ Head(waiting'[flushing]) = Head(waiting[flushing])
        /\ Tail(waiting'[flushing]) = Append(Tail(waiting[flushing]), "tick")
    BY <2>2, <2>3
  <2>5. Tail(waiting'[flushing]) \in Seq(QuietCallers)
    <3>1. Tail(waiting[flushing]) \in Seq(QuietCallers)
      BY <1>4 DEF StopWaits
    <3>2. Append(Tail(waiting[flushing]), "tick") \in Seq(QuietCallers)
      BY <2>1, <3>1
    <3>3. QED
      BY <2>4, <3>2
  <2>6. StopWaits'
    BY <1>1, <1>3, <1>4, <2>4, <2>5 DEF StopWaits, InFlight
  <2>7. QED
    BY <2>6 DEF Stage
<1>5. CASE StopResumes
  BY <1>1, <1>5 DEF StopResumes
<1>6. CASE StopUploads
  <2>1. flushing \in InFlight
    BY <1>6 DEF StopUploads, InOrder
  <2>2. StopUploads'
    BY <1>1, <1>3, <1>6, <2>1 DEF StopUploads, InFlight, Quiet
  <2>3. QED
    BY <2>2 DEF Stage
<1>7. CASE StopDone
  <2>1. CASE StartUpload("tick", <<>>)
    BY <1>1, <1>7, <2>1, StartUploadDone DEF Stage
  <2>2. CASE UNCHANGED <<failed, state, image>>
    BY <1>1, <1>7, <2>2 DEF Stage, StopDone, InFlight
  <2>3. QED
    BY <1>1, <2>1, <2>2 DEF Flush, flights
<1>8. QED
  BY <1>4, <1>5, <1>6, <1>7 DEF Stage

(* A microtask runs. *)
LEMMA MicrotaskStage ==
  ASSUME TypeOK, InOrder, Stage, Microtask, atStop \subseteq local,
         phase \in {"stopping", "stopped"}, ~stacked, ~stacked'
  PROVE  Stage'
<1>1. ready # <<>> /\ ~StopWaits
  BY DEF Microtask, ResumeIdle, ResumeUpload, StopReturn, BootReturn, StopWaits
<1>2. CASE ResumeIdle
  <2>1. ~dirty /\ Head(ready) \in Callers
        /\ ready' = Tail(ready) \o ReturnTo(Head(ready))
        /\ UNCHANGED <<state, image, owner, atStop, durable, failed, phase>>
    BY <1>2 DEF ResumeIdle, flights, ghosts, backend, memory
  <2>2. CASE StopResumes
    <3>1. InFlight = {} /\ durable = local
      BY <2>1, <2>2 DEF StopResumes, InOrder
    <3>2. QED
      BY <2>1, <3>1 DEF Stage, StopDone, InFlight
  <2>3. CASE StopUploads
    <3>1. Quiet(ready')
      BY <1>1, <2>1, <2>3, QuietTail, QuietReturn, QuietConcat DEF StopUploads
    <3>2. StopUploads'
      BY <2>1, <2>3, <3>1 DEF StopUploads, InFlight, Quiet
    <3>3. QED
      BY <3>2 DEF Stage
  <2>4. CASE StopDone
    BY <2>1, <2>4 DEF Stage, StopDone, InFlight
  <2>5. QED
    BY <1>1, <2>2, <2>3, <2>4 DEF Stage
<1>3. CASE ResumeUpload
  <2>1. StartUpload(Head(ready), Tail(ready)) /\ (dirty \/ Head(ready) = "force")
        /\ UNCHANGED <<atStop, durable, phase>>
    BY <1>3 DEF ResumeUpload, flushRest, backend
  <2>2. CASE StopResumes
    BY <2>1, <2>2, StartUploadStop DEF StopResumes
  <2>3. CASE StopUploads
    <3>1. InFlight # {} /\ ~dirty
      BY <1>1, <2>3 DEF StopUploads, InOrder
    <3>2. QED
      BY <2>1, <3>1 DEF StartUpload
  <2>4. CASE StopDone
    BY <2>1, <2>4, StartUploadDone DEF Stage
  <2>5. QED
    BY <1>1, <2>2, <2>3, <2>4 DEF Stage
<1>4. CASE StopReturn
  <2>1. Head(ready) = "stopReturn"
        /\ UNCHANGED <<state, image, atStop, durable, failed>>
    BY <1>4 DEF StopReturn, flights, ghosts, backend, memory
  <2>2. ~StopResumes /\ ~StopUploads
    BY <1>1, <2>1, QuietTail DEF StopResumes, StopUploads
  <2>3. StopDone'
    BY <1>1, <2>1, <2>2 DEF Stage, StopDone, InFlight
  <2>4. QED
    BY <2>3 DEF Stage
<1>5. ~BootReturn
  BY DEF BootReturn
<1>6. QED
  BY <1>2, <1>3, <1>4, <1>5 DEF Microtask

(* An upload lands, or ends. *)
LEMMA LandStage ==
  ASSUME TypeOK, Stage, NEW u \in Uploads, Land(u)
  PROVE  Stage'
<1>1. u \in InFlight /\ InFlight' = InFlight /\ durable' = image[u]
      /\ UNCHANGED <<phase, flushing, image, owner, waiting, ready, atStop, failed>>
  BY DEF Land, InFlight, TypeOK, ghosts, memory
<1>2. QED
  BY <1>1 DEF Stage, StopWaits, StopResumes, StopUploads, StopDone, Quiet

(* A save that settles moves stop() on by one stage at most. *)
LEMMA SettleStage ==
  ASSUME TypeOK, InOrder, Stage, NEW u \in Uploads, SaveOk(u) \/ SaveFails(u)
  PROVE  Stage'
<1>1. Settle(u) /\ u \in InFlight /\ ready = <<>>
      /\ UNCHANGED <<durable, atStop, phase>>
  BY DEF SaveOk, SaveFails, Settle, InFlight, backend, ghosts
<1>2. flushing = u /\ \A v \in InFlight : v = u
  BY <1>1 DEF InOrder
<1>3. InFlight' = {}
  BY <1>1, <1>2 DEF Settle, InFlight, TypeOK
<1>4. failed' \/ durable = image[u]
  BY DEF SaveOk, SaveFails, InOrder
<1>5. CASE StopWaits
  <2>1. waiting[u] \in Seq(Callers) /\ ReturnTo(owner[u]) \in Seq(Micro)
    BY ReturnToType DEF TypeOK
  <2>2. /\ ready' # <<>> /\ Head(ready') = "stop"
        /\ Tail(ready') = Tail(waiting[u]) \o ReturnTo(owner[u])
    BY <1>1, <1>2, <1>5, <2>1, HeadTailConcat DEF Settle, StopWaits
  <2>3. Quiet(Tail(ready'))
    BY <1>2, <1>5, <2>2, QuietCallersSeq, QuietReturn, QuietConcat DEF StopWaits
  <2>4. StopResumes'
    BY <1>1, <1>3, <1>5, <2>2, <2>3 DEF StopResumes, StopWaits, Quiet
  <2>5. QED
    BY <2>4 DEF Stage
<1>6. CASE StopResumes
  BY <1>1, <1>6 DEF StopResumes
<1>7. CASE StopUploads \/ StopDone
  <2>1. atStop \subseteq image[u]
    BY <1>1, <1>2, <1>7 DEF StopUploads, StopDone
  <2>2. QED
    BY <1>1, <1>3, <1>4, <2>1 DEF Stage, StopDone
<1>8. QED
  BY <1>5, <1>6, <1>7 DEF Stage

(* Every step leaves stop() at its stage or moves it to the next. *)
LEMMA AfterStopNext ==
  ASSUME IInv, StopInv, [Next]_vars
  PROVE  AfterStop'
<1> SUFFICES ASSUME phase' \in {"stopping", "stopped"}
             PROVE  /\ atStop' \subseteq local'
                    /\ ~stacked' /\ calm' => Stage'
  BY DEF AfterStop, Stage
<1>1. TypeOK /\ (~stacked => InOrder)
  BY DEF IInv
<1>2. phase \in {"stopping", "stopped"} =>
        atStop \subseteq local /\ (~stacked /\ calm => Stage)
  BY DEF StopInv, AfterStop, Stage
<1>3. CASE Stop
  <2>1. atStop' = local /\ local' = local
    BY <1>3 DEF Stop, flushRest, disk
  <2>2. stacked => stacked'
    BY <1>3 DEF Stop, Flush, StartUpload
  <2>3. QED
    BY <1>1, <1>3, <2>1, <2>2, StopStage DEF StopInv
<1>4. CASE Debounce
  <2>1. UNCHANGED <<phase, atStop, local, calm>>
    BY <1>4 DEF Debounce, flushRest, disk
  <2>2. stacked => stacked'
    BY <1>4 DEF Debounce, Flush, StartUpload
  <2>3. QED
    BY <1>1, <1>2, <1>4, <2>1, <2>2, DebounceStage
<1>5. CASE Microtask
  <2>1. UNCHANGED <<atStop, local, calm>> /\ phase \in {"stopping", "stopped"}
    BY <1>5 DEF Microtask, ResumeIdle, ResumeUpload, StopReturn, BootReturn,
       flushRest, disk, ghosts
  <2>2. stacked => stacked'
    BY <1>5 DEF Microtask, ResumeIdle, ResumeUpload, StopReturn, BootReturn,
       ghosts, StartUpload
  <2>3. QED
    BY <1>1, <1>2, <1>5, <2>1, <2>2, MicrotaskStage
<1>6. ASSUME NEW u \in Uploads, Land(u) \/ SaveOk(u) \/ SaveFails(u)
      PROVE  /\ atStop' \subseteq local'
             /\ ~stacked' /\ calm' => Stage'
  <2>1. UNCHANGED <<atStop, local, calm, stacked, phase>>
    BY <1>6 DEF Land, SaveOk, SaveFails, Settle, disk, ghosts
  <2>2. QED
    BY <1>1, <1>2, <1>6, <2>1, LandStage, SettleStage
<1>7. ASSUME NEW w \in Writes, Write(w)
      PROVE  /\ atStop' \subseteq local'
             /\ ~stacked' /\ calm' => Stage'
  <2>1. UNCHANGED <<phase, flushing, state, image, owner, waiting, ready, atStop,
                    durable, failed, calm, stacked>> /\ local \subseteq local'
    BY <1>7 DEF Write, flights, ghosts, backend
  <2>2. QED
    BY <1>2, <2>1, StageUnchanged
<1>8. CASE UNCHANGED vars
  <2>1. UNCHANGED <<phase, flushing, state, image, owner, waiting, ready, atStop,
                    durable, failed, calm, stacked, local>>
    BY <1>8 DEF vars, flights, ghosts, backend, disk, memory
  <2>2. QED
    BY <1>2, <2>1, StageUnchanged
<1>9. ~Heartbeat /\ ~SyncNow /\ ~BootFlush /\ ~Exit /\ ~Crash /\ ~VolumeLost
      /\ \A new \in SUBSET Writes : ~Boot(new)
  BY DEF Heartbeat, SyncNow, BootFlush, Exit, Crash, VolumeLost, Boot, Die
<1>10. QED
  BY <1>3, <1>4, <1>5, <1>6, <1>7, <1>8, <1>9 DEF Next

(* "Final flush, then no further uploads" (metadata-sync.ts:96): once stop()
   has returned and the last upload has not failed, the row holds every write
   made before stop() - unless a call was already waiting for the upload that
   stop() had to wait for (metadata-sync.ts:108). *)
THEOREM TheFinalFlushHolds == Spec => []FinalFlush
<1>1. IInv /\ StopInv /\ [Next]_vars => StopInv'
  BY BeforeStopNext, AfterStopNext DEF StopInv, IInv
<1>2. IInv /\ StopInv => FinalFlush
  BY DEF StopInv, AfterStop, StopWaits, StopResumes, StopUploads, StopDone, FinalFlush
<1>3. QED
  BY <1>1, <1>2, Invariance, StopInvInit, PTL DEF Spec
=============================================================================
