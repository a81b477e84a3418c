------------------------------- MODULE Accounts -------------------------------
(***************************************************************************)
(* Accounts, sessions, invitations and the factory reset of the server:    *)
(* modules/auth, plugins/auth.ts and the reset of system.routes.ts.        *)
(*                                                                         *)
(* All of it is synchronous but for two places: a request is authenticated *)
(* when its headers arrive and handled when its body has, with the claims  *)
(* of its token instead of the row of its user; and a reset waits before   *)
(* it wipes the store.                                                     *)
(***************************************************************************)
EXTENDS Naturals, FiniteSets

CONSTANTS
  Ids,         \* accounts; an id is never used twice
  Emails,
  Sessions,    \* refresh tokens, each a row of the sessions table
  Invites,     \* invitation tokens
  Nobody,      \* the owner of a session that is not there
  MaxPasswords, MaxResets, MaxBoots   \* bounds: changes, resets, process starts

ASSUME AccountsAssumption ==
  /\ Nobody \notin Ids
  /\ MaxPasswords \in Nat /\ MaxResets \in Nat /\ MaxBoots \in Nat

Roles == {"admin", "member"}   \* editor and viewer differ in nothing here

VARIABLES
  generation,  \* tokenGeneration of plugins/auth.ts, in memory
  resetting,   \* factory resets that wait for wipeAllFiles() or closeAll()
  requests,    \* claims of requests that are authenticated and not handled
  role,        \* role of each account, "none" before and "gone" after its row
  email,       \* address of each account
  password,    \* number of changes of its password
  session,     \* the user each refresh token belongs to, or Nobody
  invite,      \* status of each invitation
  tokens,      \* access tokens that have not expired, as their claims
  \* auxiliary
  issued,      \* refresh tokens that were ever issued
  vintage,     \* the password each was issued under
  made,        \* accounts made from each invitation
  resets,      \* how often the store has been wiped
  overtaken,   \* a request older than a wipe was handled after it
  boots

accounts == <<role, email, password>>
invites  == <<invite, made>>
process  == <<generation, resetting, boots>>
logins   == <<session, tokens, issued, vintage>>
vars     == <<accounts, invites, process, logins, requests, resets, overtaken>>

(* The claims of an access token, and the reset it was issued after. *)
Claims == [sub : Ids, role : Roles, gen : Nat, epoch : Nat]

(* "dead" is revoked, expired or wiped. *)
InviteStatuses == {"none", "pending", "accepted", "dead"}

Dead(i)   == [invite[i] EXCEPT !.status = "dead"]
Exists(u) == role[u] \in Roles
Users     == {u \in Ids : Exists(u)}
Admins    == {u \in Ids : role[u] = "admin"}
Taken(a)  == \E u \in Users : email[u] = a

TypeOK ==
  /\ generation \in Nat \ {0} /\ resetting \in Nat /\ resets \in Nat /\ boots \in Nat
  /\ role \in [Ids -> Roles \cup {"none", "gone"}]
  /\ email \in [Ids -> Emails] /\ password \in [Ids -> Nat]
  /\ session \in [Sessions -> Ids \cup {Nobody}]
  /\ issued \subseteq Sessions /\ vintage \in [Sessions -> Nat]
  /\ invite \in [Invites -> [status : InviteStatuses, email : Emails, role : Roles]]
  /\ made \in [Invites -> SUBSET Ids]
  /\ tokens \subseteq Claims /\ requests \subseteq Claims
  /\ overtaken \in BOOLEAN

Init ==
  /\ generation = 1 /\ resetting = 0 /\ boots = 1
  /\ role = [u \in Ids |-> "none"] /\ password = [u \in Ids |-> 0]
  /\ \E a \in Emails :
       /\ email = [u \in Ids |-> a]
       /\ invite = [i \in Invites |-> [status |-> "none", email |-> a, role |-> "member"]]
  /\ session = [s \in Sessions |-> Nobody] /\ issued = {} /\ vintage = [s \in Sessions |-> 0]
  /\ made = [i \in Invites |-> {}]
  /\ tokens = {} /\ requests = {} /\ resets = 0 /\ overtaken = FALSE

-----------------------------------------------------------------------------
(* Signing in and out *)

ClaimsOf(u) == [sub |-> u, role |-> role[u], gen |-> generation, epoch |-> resets]

(* issueRefreshToken() and signAccessToken() for u, whose row says `claims';
   `left' are the sessions that stay. *)
SignIn(u, claims, left, version) ==
  \E s \in Sessions \ issued :
    /\ session' = [left EXCEPT ![s] = u]
    /\ issued' = issued \cup {s}
    /\ vintage' = [vintage EXCEPT ![s] = version]
    /\ tokens' = tokens \cup {claims}

(* An account for an address; SQLite keeps addresses unique. *)
Insert(u, a, r) ==
  /\ role[u] = "none" /\ ~Taken(a)
  /\ role' = [role EXCEPT ![u] = r]
  /\ email' = [email EXCEPT ![u] = a]
  /\ UNCHANGED password

Setup(u, a) ==
  /\ Users = {}
  /\ Insert(u, a, "admin")
  /\ SignIn(u, [ClaimsOf(u) EXCEPT !.role = "admin"], session, 0)
  /\ UNCHANGED <<invites, process, requests, resets, overtaken>>

Login(u) ==
  /\ Exists(u)
  /\ SignIn(u, ClaimsOf(u), session, password[u])
  /\ UNCHANGED <<accounts, invites, process, requests, resets, overtaken>>

(* rotateRefreshToken(): the token is used up, expired or not. *)
Refresh(s) ==
  /\ session[s] # Nobody
  /\ LET u    == session[s]
         left == [session EXCEPT ![s] = Nobody]
     IN  \/ Exists(u) /\ SignIn(u, ClaimsOf(u), left, password[u])
         \/ session' = left /\ UNCHANGED <<tokens, issued, vintage>>
  /\ UNCHANGED <<accounts, invites, process, requests, resets, overtaken>>

(* revokeRefreshToken(); the access token lives on. *)
Logout(s) ==
  /\ session[s] # Nobody
  /\ session' = [session EXCEPT ![s] = Nobody]
  /\ UNCHANGED <<accounts, invites, process, requests, tokens, issued, vintage, resets,
                 overtaken>>

(* Fifteen minutes. *)
ExpireToken(c) ==
  /\ c \in tokens
  /\ tokens' = tokens \ {c}
  /\ UNCHANGED <<accounts, invites, process, requests, session, issued, vintage, resets,
                 overtaken>>

(* authenticate(): the signature, the expiry and the generation. *)
Authenticate(c) ==
  /\ c \in tokens /\ c.gen = generation
  /\ requests' = requests \cup {c}
  /\ UNCHANGED <<accounts, invites, process, logins, resets, overtaken>>

-----------------------------------------------------------------------------
(* What an administrator does.  c are the claims of the request. *)

(* requireRole('admin'), and the request is over with this step. *)
Handle(c) ==
  /\ c \in requests /\ c.role = "admin"
  /\ requests' = requests \ {c}
  /\ overtaken' = (overtaken \/ c.epoch # resets)

CreateUser(c, u, a, r) ==
  /\ Handle(c)
  /\ Insert(u, a, r)
  /\ UNCHANGED <<invites, process, logins, resets>>

(* Fault: the last administrator may be demoted. *)
UpdateUserFreely(c, u, a, r, change) ==
  /\ Handle(c)
  /\ Exists(u) /\ (a # email[u] => ~Taken(a))
  /\ password[u] + change <= MaxPasswords
  /\ role' = [role EXCEPT ![u] = r]
  /\ email' = [email EXCEPT ![u] = a]
  /\ password' = [password EXCEPT ![u] = @ + change]
  /\ session' = IF change = 0 THEN session
                ELSE [s \in Sessions |-> IF session[s] = u THEN Nobody ELSE session[s]]
  /\ UNCHANGED <<invites, process, tokens, issued, vintage, resets>>

(* Fault: sessions outlive the password they were opened with. *)
UpdateUserOnly(c, u, a, r, change) ==
  /\ Handle(c)
  /\ Exists(u) /\ (a # email[u] => ~Taken(a))
  /\ r # "admin" => Admins # {u}
  /\ password[u] + change <= MaxPasswords
  /\ role' = [role EXCEPT ![u] = r]
  /\ email' = [email EXCEPT ![u] = a]
  /\ password' = [password EXCEPT ![u] = @ + change]
  /\ UNCHANGED <<invites, process, logins, resets>>

(* updateUser(): address, role and password, each of which may stay. *)
UpdateUser(c, u, a, r, change) ==
  /\ Handle(c)
  /\ Exists(u) /\ (a # email[u] => ~Taken(a))
  /\ r # "admin" => Admins # {u}
  /\ password[u] + change <= MaxPasswords
  /\ role' = [role EXCEPT ![u] = r]
  /\ email' = [email EXCEPT ![u] = a]
  /\ password' = [password EXCEPT ![u] = @ + change]
  /\ session' = IF change = 0 THEN session
                ELSE [s \in Sessions |-> IF session[s] = u THEN Nobody ELSE session[s]]
  /\ UNCHANGED <<invites, process, tokens, issued, vintage, resets>>

(* deleteUser(); the foreign key takes the sessions along. *)
DeleteUser(c, u) ==
  /\ Handle(c)
  /\ Exists(u) /\ u # c.sub /\ Admins # {u}
  /\ role' = [role EXCEPT ![u] = "gone"]
  /\ session' = [s \in Sessions |-> IF session[s] = u THEN Nobody ELSE session[s]]
  /\ UNCHANGED <<email, password, invites, process, tokens, issued, vintage, resets>>

(* The pending invitations of an address are revoked by a new one. *)
Invite(c, i, a, r) ==
  /\ Handle(c)
  /\ invite[i].status = "none" /\ ~Taken(a)
  /\ invite' = [j \in Invites |->
                  IF j = i THEN [status |-> "pending", email |-> a, role |-> r]
                  ELSE IF invite[j].email = a /\ invite[j].status = "pending" THEN Dead(j)
                  ELSE invite[j]]
  /\ UNCHANGED <<accounts, made, process, logins, resets>>

Revoke(c, i) ==
  /\ Handle(c)
  /\ invite[i].status = "pending"
  /\ invite' = [invite EXCEPT ![i] = Dead(i)]
  /\ UNCHANGED <<accounts, made, process, logins, resets>>

(* Seven days. *)
ExpireInvite(i) ==
  /\ invite[i].status = "pending"
  /\ invite' = [invite EXCEPT ![i] = Dead(i)]
  /\ UNCHANGED <<accounts, made, process, logins, requests, resets, overtaken>>

(* Fault: accept() only asks whether the invitation was accepted before. *)
AcceptRevoked(i, u) ==
  /\ invite[i].status \in {"pending", "dead"}
  /\ Insert(u, invite[i].email, invite[i].role)
  /\ SignIn(u, [ClaimsOf(u) EXCEPT !.role = invite[i].role], session, 0)
  /\ invite' = [invite EXCEPT ![i].status = IF @ = "dead" THEN @ ELSE "accepted"]
  /\ made' = [made EXCEPT ![i] = @ \cup {u}]
  /\ UNCHANGED <<process, requests, resets, overtaken>>

(* accept(): the token is consumed, and the account made unless its address is
   taken by now. *)
Accept(i, u) ==
  /\ invite[i].status = "pending"
  /\ invite' = [invite EXCEPT ![i].status = "accepted"]
  /\ \/ /\ Insert(u, invite[i].email, invite[i].role)
        /\ SignIn(u, [ClaimsOf(u) EXCEPT !.role = invite[i].role], session, 0)
        /\ made' = [made EXCEPT ![i] = @ \cup {u}]
     \/ /\ Taken(invite[i].email)
        /\ UNCHANGED <<accounts, made, logins>>
  /\ UNCHANGED <<process, requests, resets, overtaken>>

-----------------------------------------------------------------------------
(* The factory reset, and the process *)

(* Up to `await wipeAllFiles'; the password is that of the row. *)
StartReset(c) ==
  /\ Handle(c)
  /\ Exists(c.sub)
  /\ resets + resetting < MaxResets
  /\ resetting' = resetting + 1
  /\ UNCHANGED <<accounts, invites, generation, boots, logins, resets>>

(* Fault: outstanding tokens are not invalidated. *)
FinishResetQuietly ==
  /\ resetting > 0
  /\ resetting' = resetting - 1
  /\ role' = [u \in Ids |-> IF Exists(u) THEN "gone" ELSE role[u]]
  /\ session' = [s \in Sessions |-> Nobody]
  /\ invite' = [i \in Invites |-> IF invite[i].status = "pending" THEN Dead(i) ELSE invite[i]]
  /\ resets' = resets + 1
  /\ UNCHANGED <<email, password, made, tokens, issued, vintage, requests, generation, boots,
                 overtaken>>

(* wipeAll() and bumpTokenGeneration(). *)
FinishReset ==
  /\ resetting > 0
  /\ resetting' = resetting - 1
  /\ role' = [u \in Ids |-> IF Exists(u) THEN "gone" ELSE role[u]]
  /\ session' = [s \in Sessions |-> Nobody]
  /\ invite' = [i \in Invites |-> IF invite[i].status = "pending" THEN Dead(i) ELSE invite[i]]
  /\ generation' = generation + 1
  /\ resets' = resets + 1
  /\ UNCHANGED <<email, password, made, tokens, issued, vintage, requests, boots, overtaken>>

(* The process ends at any time, with what it kept in memory, and starts again:
   the generation is 1 and the secret of the tokens is the same. *)
Restart ==
  /\ boots < MaxBoots /\ boots' = boots + 1
  /\ requests' = {} /\ resetting' = 0 /\ generation' = 1
  /\ UNCHANGED <<accounts, invites, logins, resets, overtaken>>

-----------------------------------------------------------------------------
Administrate(c) ==
  \/ \E u \in Ids, a \in Emails, r \in Roles : CreateUser(c, u, a, r)
  \/ \E u \in Ids, a \in Emails, r \in Roles, change \in {0, 1} :
       UpdateUser(c, u, a, r, change)
  \/ \E u \in Ids : DeleteUser(c, u)
  \/ \E i \in Invites, a \in Emails, r \in Roles : Invite(c, i, a, r)
  \/ \E i \in Invites : Revoke(c, i)
  \/ StartReset(c)

Next ==
  \/ \E u \in Ids, a \in Emails : Setup(u, a)
  \/ \E u \in Ids : Login(u)
  \/ \E s \in Sessions : Refresh(s) \/ Logout(s)
  \/ \E c \in tokens : ExpireToken(c) \/ Authenticate(c)
  \/ \E c \in requests : Administrate(c)
  \/ \E i \in Invites : ExpireInvite(i)
  \/ \E i \in Invites, u \in Ids : Accept(i, u)
  \/ FinishReset \/ Restart

Spec == Init /\ [][Next]_vars

-----------------------------------------------------------------------------
(* Properties *)

(* Once there are users there is an administrator among them, although requests
   come with roles their senders have lost (auth.service.ts:134, 153) - as long
   as no request that was authenticated before a reset is handled after it. *)
AdministratorRemains == overtaken \/ Users = {} \/ Admins # {}

(* An invitation makes one account at most, none once it was revoked, and an
   address has one live invitation and one user (invitations.service.ts:79, 138). *)
InvitationsSound ==
  /\ \A i \in Invites : \A u, v \in made[i] : u = v
  /\ \A i \in Invites : invite[i].status \in {"pending", "dead"} => made[i] = {}
  /\ \A i, j \in Invites :
       invite[i].status = "pending" /\ invite[j].status = "pending"
         /\ invite[i].email = invite[j].email => i = j
  /\ \A u, v \in Users : email[u] = email[v] => u = v

(* A session in the table belongs to a user that is there and was opened with
   the password the user has now (auth.service.ts:143). *)
SessionsFollowPasswords ==
  \A s \in Sessions : session[s] # Nobody =>
    Exists(session[s]) /\ vintage[s] = password[session[s]]

(* Until the process restarts, which makes it forget the generation, no token is
   accepted that is older than the last reset (plugins/auth.ts:26-30, 45). *)
ResetRevokes ==
  boots = 1 => \A c \in tokens : c.gen = generation => c.epoch = resets

-----------------------------------------------------------------------------
(* What the properties rest on *)

(* A store without users is one nothing older than it can act on: its tokens
   are from before the reset, and no invitation is pending. *)
EmptyIsNew ==
  /\ \A c \in tokens \cup requests : c.epoch <= resets
  /\ ~overtaken /\ Users = {} =>
       /\ \A c \in tokens \cup requests : c.epoch < resets
       /\ \A i \in Invites : invite[i].status # "pending"

(* What an invitation made, it made when it was accepted. *)
MadeOnAccept ==
  \A i \in Invites : invite[i].status # "accepted" => made[i] = {}

(* An account has a first password, and a session a token that was issued. *)
FirstPasswords ==
  /\ \A u \in Ids : role[u] = "none" => password[u] = 0
  /\ \A s \in Sessions : session[s] # Nobody => s \in issued

(* Before the first restart generations only grow, with the resets. *)
GenerationsGrow ==
  /\ boots >= 1
  /\ boots = 1 => \A c \in tokens : c.gen <= generation

IInv ==
  /\ TypeOK
  /\ EmptyIsNew /\ AdministratorRemains
  /\ MadeOnAccept /\ InvitationsSound
  /\ FirstPasswords /\ SessionsFollowPasswords
  /\ GenerationsGrow /\ ResetRevokes
=============================================================================
