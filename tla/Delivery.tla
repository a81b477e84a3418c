------------------------------- MODULE Delivery -------------------------------
(***************************************************************************)
(* Sending a backup to Telegram, by mail or to Yandex Disk, and the saved  *)
(* settings that say where: delivery.service.ts.  A delivery is one async  *)
(* function that takes its channels in turn; settings are read when a      *)
(* channel's turn comes, the file is opened later still, and nobody tells  *)
(* the function that its job was canceled or its backup deleted.           *)
(*                                                                         *)
(* A secret is the number of the save it was typed in, 0 for none.         *)
(***************************************************************************)
EXTENDS JobManager, Naturals, Sequences

CONSTANTS
  Chats,                 \* chats that have written to the bot
  EnvSecret,             \* SMTP_PASSWORD, 0 when no SMTP_* is set; no save's number
  Longest,               \* bound: channels of a request, of which the route allows 3
  MaxSaves, MaxRestarts  \* bounds: settings saved, ends of the process

Channels   == {"telegram", "email", "yandex"}
Recipients == Chats \cup {"chat id", "mailbox", "disk"}

VARIABLES
  listed, onDisk,  \* the backup: its row and its file
  stored,    \* the secret of each channel in app_settings
  host,      \* the stored mail server: "absent", "blank" or "set"
  chatId,    \* a chat id is stored; without one Telegram broadcasts
  list,      \* channels of each delivery
  at,        \* the one whose turn it is
  step,      \* the await the delivery is at, see Steps
  left,      \* recipients of that channel still to be served
  sent,      \* one of them has confirmed
  failed,    \* channels that failed, by their place in the list
  \* auxiliary
  got,       \* what arrived, as <<place in the list, recipient>>
  given,     \* the secret last typed for each channel and its server
  saves, restarts

backup   == <<listed, onDisk>>
settings == <<stored, host, chatId, given, saves>>
delivery == <<list, at, step, left, sent, failed, got>>
vars     == <<jobVars, backup, settings, delivery, restarts>>

(* fetch of the folder and the upload link, of getUpdates; readFile; the file
   as a stream; the upload. *)
Waiting == {"folder", "chats", "read", "open", "sending"}
Steps   == Waiting \cup {"none", "stat", "next", "done"}
Lists   == UNION {[1..n -> Channels] : n \in 1..Longest}

TypeOK ==
  /\ JobTypeOK
  /\ {listed, onDisk, chatId} \subseteq BOOLEAN
  /\ stored \in [Channels -> Nat \cup {EnvSecret}]
  /\ host \in {"absent", "blank", "set"}
  /\ list \in [Jobs -> Seq(Channels)] /\ at \in [Jobs -> Nat]
  /\ step \in [Jobs -> Steps] /\ left \in [Jobs -> SUBSET Recipients]
  /\ sent \in [Jobs -> BOOLEAN] /\ failed \in [Jobs -> SUBSET Nat]
  /\ got \in [Jobs -> SUBSET (Nat \X Recipients)]
  /\ given \in [Channels -> Nat] /\ saves \in Nat /\ restarts \in Nat

Init ==
  /\ JobInit
  /\ listed = TRUE /\ onDisk = TRUE
  /\ stored = [ch \in Channels |-> 0]
  /\ host = "absent" /\ chatId = FALSE
  /\ list = [s \in Jobs |-> <<>>] /\ at = [s \in Jobs |-> 0]
  /\ step = [s \in Jobs |-> "none"] /\ left = [s \in Jobs |-> {}]
  /\ sent = [s \in Jobs |-> FALSE] /\ failed = [s \in Jobs |-> {}]
  /\ got = [s \in Jobs |-> {}] /\ given = [ch \in Channels |-> 0]
  /\ saves = 0 /\ restarts = 0

Idle == step = [s \in Jobs |-> "none"] /\ saves = 0 /\ restarts = 0 /\ onDisk

-----------------------------------------------------------------------------
(* Settings *)

(* Without SMTP_* it is the first administrator's mailbox, with no password. *)
EmailDefaults == EnvSecret

(* Fault: a saved form without a mail server hides the defaults. *)
EmailUnlessSaved == IF host # "absent" THEN stored["email"] ELSE EmailDefaults

StoredOrDefaultEmail == IF host = "set" THEN stored["email"] ELSE EmailDefaults

(* getSettings(), which fills the form. *)
InUse(ch) == IF ch = "email" THEN StoredOrDefaultEmail ELSE stored[ch]

Configured == {ch \in Channels : ch = "email" \/ InUse(ch) # 0}

(* A secret field left empty keeps the secret. *)
Kept(ch, typed, prev) == IF ch \in typed THEN saves + 1 ELSE prev

Saved(typed, server, id) ==
  /\ saves < MaxSaves /\ saves' = saves + 1
  /\ host' = server /\ chatId' = id
  /\ given' = [ch \in Channels |->
                 IF ch = "email" /\ server = "blank" THEN 0 ELSE Kept(ch, typed, given[ch])]
  /\ UNCHANGED <<jobVars, backup, delivery, restarts>>

(* Fault: the secrets to keep are those of the store, not those in use. *)
SaveStoredSecrets(typed, server, id) ==
  /\ Saved(typed, server, id)
  /\ stored' = [ch \in Channels |-> Kept(ch, typed, stored[ch])]

(* The form shows all the settings but the secrets, and all are saved when one
   is edited; the mail server may be cleared. *)
SaveSettings(typed, server, id) ==
  /\ Saved(typed, server, id)
  /\ stored' = [ch \in Channels |-> Kept(ch, typed, InUse(ch))]

-----------------------------------------------------------------------------
(* A delivery *)

(* What runs without waiting is done before anything else happens. *)
Settled == \A s \in Jobs : step[s] # "next"

Begin(s, channels) ==
  /\ Settled /\ step[s] = "none" /\ listed
  /\ list' = [list EXCEPT ![s] = channels]
  /\ step' = [step EXCEPT ![s] = "stat"]
  /\ UNCHANGED <<jobVars, backup, settings, at, left, sent, failed, got, restarts>>

SendBackup(s) == \E channels \in Lists : Begin(s, channels)

Rank == [telegram |-> 1, email |-> 2, yandex |-> 3]
InOrder(channels) ==
  \A i, j \in DOMAIN channels : i < j => Rank[channels[i]] < Rank[channels[j]]

(* enabledChannels(): those that are configured and switched on. *)
AutoSend(s) ==
  \E channels \in UNION {[1..n -> Configured] : n \in 1..3} :
    InOrder(channels) /\ Begin(s, channels)

Stat(s) ==
  /\ Settled /\ step[s] = "stat"
  /\ IF onDisk THEN CreateJob(s) ELSE UNCHANGED jobVars
  /\ step' = [step EXCEPT ![s] = IF onDisk THEN "next" ELSE "done"]
  /\ at' = [at EXCEPT ![s] = 1]
  /\ UNCHANGED <<backup, settings, list, left, sent, failed, got, restarts>>

Channel(s) == list[s][at[s]]

(* The turn of a channel is over. *)
Done(s, ok) ==
  /\ step' = [step EXCEPT ![s] = "next"]
  /\ at' = [at EXCEPT ![s] = @ + 1]
  /\ left' = [left EXCEPT ![s] = {}]
  /\ sent' = [sent EXCEPT ![s] = FALSE]
  /\ failed' = IF ok THEN failed ELSE [failed EXCEPT ![s] = @ \cup {at[s]}]

Goto(s, where, recipients) ==
  /\ step' = [step EXCEPT ![s] = where]
  /\ left' = [left EXCEPT ![s] = recipients]
  /\ UNCHANGED <<at, sent, failed>>

Turn(s) ==
  /\ step[s] = "next" /\ at[s] <= Len(list[s])
  /\ LET ch == Channel(s) IN
       \/ ch = "telegram" /\ Done(s, FALSE)   \* no token, or more than 50 MB
       \/ ch = "telegram" /\ stored[ch] # 0
            /\ IF chatId THEN Goto(s, "read", {"chat id"}) ELSE Goto(s, "chats", {})
       \/ ch = "email" /\ Goto(s, "open", {"mailbox"})
       \/ ch = "yandex" /\ stored[ch] = 0 /\ Done(s, FALSE)
       \/ ch = "yandex" /\ stored[ch] # 0 /\ Goto(s, "folder", {"disk"})
  /\ UNCHANGED <<jobVars, backup, settings, list, got, restarts>>

(* A wait ends well. *)
Proceed(s) ==
  /\ Settled
  /\ \/ step[s] = "folder" /\ Goto(s, "open", left[s])
     \/ step[s] = "chats" /\ \E cs \in (SUBSET Chats) \ {{}} : Goto(s, "read", cs)
     \/ step[s] \in {"read", "open"} /\ onDisk /\ Goto(s, "sending", left[s])
  /\ UNCHANGED <<jobVars, backup, settings, list, got, restarts>>

(* It ends with an error, or with a timeout. *)
Rejected(s) ==
  /\ Settled /\ step[s] \in Waiting \ {"sending"}
  /\ Done(s, FALSE)
  /\ UNCHANGED <<jobVars, backup, settings, list, got, restarts>>

Recipient(s) == CHOOSE r \in left[s] : TRUE

Arrive(s) ==
  /\ Settled /\ step[s] = "sending"
  /\ got' = [got EXCEPT ![s] = @ \cup {<<at[s], Recipient(s)>>}]
  /\ UNCHANGED <<jobVars, backup, settings, list, at, step, left, sent, failed, restarts>>

(* Fault: a broadcast counts as sent when every chat has been tried. *)
AnsweredLeniently(s, ok) ==
  IF left[s] = {Recipient(s)}
    THEN Done(s, ok \/ sent[s] \/ Channel(s) = "telegram")
    ELSE /\ left' = [left EXCEPT ![s] = @ \ {Recipient(s)}]
         /\ sent' = [sent EXCEPT ![s] = @ \/ ok]
         /\ UNCHANGED <<step, at, failed>>

(* One chat that has confirmed makes a broadcast a success. *)
Answered(s, ok) ==
  IF left[s] = {Recipient(s)}
    THEN Done(s, ok \/ sent[s])
    ELSE /\ left' = [left EXCEPT ![s] = @ \ {Recipient(s)}]
         /\ sent' = [sent EXCEPT ![s] = @ \/ ok]
         /\ UNCHANGED <<step, at, failed>>

(* The upload is confirmed, which it is only when it arrived; or it ends with an
   error or a timeout, which may come after it arrived. *)
Upload(s) ==
  /\ Settled /\ step[s] = "sending"
  /\ \/ <<at[s], Recipient(s)>> \in got[s] /\ Answered(s, TRUE)
     \/ Answered(s, FALSE)
  /\ UNCHANGED <<jobVars, backup, settings, list, got, restarts>>

Finish(s) ==
  /\ step[s] = "next" /\ at[s] > Len(list[s])
  /\ FinishJob(s, IF failed[s] = {} THEN "success" ELSE "failed")
  /\ step' = [step EXCEPT ![s] = "done"]
  /\ UNCHANGED <<backup, settings, list, at, left, sent, failed, got, restarts>>

-----------------------------------------------------------------------------
(* Everything else *)

(* No process is attached to the job, and the delivery goes on. *)
Cancel(s) ==
  /\ Settled /\ Running(s)
  /\ FinishJob(s, "canceled")
  /\ UNCHANGED <<backup, settings, delivery, restarts>>

DeleteBackup ==
  /\ Settled
  /\ \/ onDisk /\ onDisk' = FALSE /\ UNCHANGED listed
     \/ ~onDisk /\ listed /\ listed' = FALSE /\ UNCHANGED onDisk
  /\ UNCHANGED <<jobVars, settings, delivery, restarts>>

Restart ==
  /\ Settled /\ restarts < MaxRestarts /\ restarts' = restarts + 1
  /\ RestartJobs
  /\ step' = [s \in Jobs |-> IF step[s] = "none" THEN "none" ELSE "done"]
  /\ left' = [s \in Jobs |-> {}] /\ sent' = [s \in Jobs |-> FALSE]
  /\ at' = [s \in Jobs |-> 0] /\ failed' = [s \in Jobs |-> {}]
  /\ UNCHANGED <<backup, settings, list, got>>

Next ==
  \/ \E s \in Jobs :
       \/ SendBackup(s) \/ AutoSend(s) \/ Stat(s) \/ Turn(s) \/ Proceed(s)
       \/ Rejected(s) \/ Arrive(s) \/ Upload(s) \/ Finish(s) \/ Cancel(s)
  \/ /\ Settled
     /\ \E typed \in {{}} \cup {{ch} : ch \in Channels}, server \in {"blank", "set"}, id \in BOOLEAN :
          SaveSettings(typed, server, id)
  \/ DeleteBackup \/ Restart

Spec == Init /\ [][Next]_vars

-----------------------------------------------------------------------------
(* Properties *)

(* A delivery is a success when the backup has arrived by every channel asked
   for, a failure when one of them did not confirm it, and open only while the
   function that will end it is under way; what has arrived belongs to a job
   (delivery.service.ts:476-508).  A canceled one may have arrived. *)
ReportsAreTrue ==
  \A s \in Jobs :
    /\ row[s] = "success" =>
         \A i \in DOMAIN list[s] : \E r \in Recipients : <<i, r>> \in got[s]
    /\ live[s] = "failed" => failed[s] # {}
    /\ Running(s) => step[s] \in Waiting \cup {"next"}
    /\ got[s] # {} => row[s] # "none"

(* Saving the form never changes a secret nobody typed: what is in use is what
   was typed last, and the environment's for a mail server that was never named
   or has been cleared (delivery.service.ts:126, 185-187). *)
SecretsKept ==
  \A ch \in Channels :
    InUse(ch) =
      IF given[ch] # 0 THEN given[ch] ELSE IF ch = "email" THEN EmailDefaults ELSE 0

DeliveriesAreSound == ReportsAreTrue /\ SecretsKept

-----------------------------------------------------------------------------
(* What the properties rest on *)

UnderWay(s) == step[s] \in Waiting \cup {"next"}

(* A job begins with its first channel, and memory and table agree while it is
   open. *)
JobsFollowSteps ==
  \A s \in Jobs :
    /\ step[s] \in {"none", "stat"} => live[s] = "none" /\ row[s] = "none" /\ got[s] = {}
    /\ Running(s) => row[s] = "running"
    /\ UnderWay(s) => row[s] # "none" /\ row[s] # "success"
    /\ step[s] \in {"none", "stat"} => failed[s] = {} /\ ~sent[s]

(* A channel that is over and did not fail has been received, and one that is
   not over has been received if somebody confirmed it. *)
TurnsAreTrue ==
  \A s \in Jobs :
    UnderWay(s) =>
      /\ at[s] >= 1
      /\ \A i \in 1 .. at[s] - 1 :
           i \in failed[s] \/ \E r \in Recipients : <<i, r>> \in got[s]
      /\ sent[s] => \E r \in Recipients : <<at[s], r>> \in got[s]
      /\ step[s] \in {"read", "open", "folder", "sending"} => left[s] # {}

IInv == TypeOK /\ DeliveriesAreSound /\ JobsFollowSteps /\ TurnsAreTrue
=============================================================================
