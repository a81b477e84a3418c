---------------------------- MODULE Accounts_proofs ----------------------------
(***************************************************************************)
(* An administrator remains, invitations are used once, sessions follow    *)
(* passwords and a reset revokes what is older, for any numbers of         *)
(* accounts, addresses, tokens, requests in flight, resets and restarts.   *)
(***************************************************************************)
EXTENDS Accounts, TLAPS

-----------------------------------------------------------------------------
(* What the helpers do *)

(* The claims of an access token are of their type. *)
LEMMA ClaimsTyped ==
  ASSUME TypeOK, NEW u \in Ids, NEW r \in Roles
  PROVE  [ClaimsOf(u) EXCEPT !.role = r] \in Claims
         /\ (role[u] = r => [ClaimsOf(u) EXCEPT !.role = r] = ClaimsOf(u))
BY DEF ClaimsOf, Claims, TypeOK

(* Signing in adds one session of one user, issued for the first time, and one
   access token. *)
LEMMA SignInAdds ==
  ASSUME TypeOK, NEW u \in Ids, NEW claims \in Claims, NEW version \in Nat,
         NEW left \in [Sessions -> Ids \cup {Nobody}],
         SignIn(u, claims, left, version)
  PROVE  \E s \in Sessions \ issued :
           /\ session' = [left EXCEPT ![s] = u] /\ session' \in [Sessions -> Ids \cup {Nobody}]
           /\ issued' = issued \cup {s} /\ issued' \subseteq Sessions
           /\ vintage' = [vintage EXCEPT ![s] = version] /\ vintage' \in [Sessions -> Nat]
           /\ tokens' = tokens \cup {claims} /\ tokens' \subseteq Claims
<1>1. PICK s \in Sessions \ issued :
        /\ session' = [left EXCEPT ![s] = u]
        /\ issued' = issued \cup {s}
        /\ vintage' = [vintage EXCEPT ![s] = version]
        /\ tokens' = tokens \cup {claims}
  BY DEF SignIn
<1>2. /\ session' \in [Sessions -> Ids \cup {Nobody}] /\ issued' \subseteq Sessions
      /\ vintage' \in [Sessions -> Nat] /\ tokens' \subseteq Claims
  BY <1>1 DEF TypeOK
<1> QED
  BY <1>1, <1>2

-----------------------------------------------------------------------------
(* The inductive step: one step per action *)

(* Every variable keeps its type. *)
LEMMA TypeStep == TypeOK /\ [Next]_vars => TypeOK'
<1> SUFFICES ASSUME TypeOK, [Next]_vars PROVE TypeOK'
    OBVIOUS
<1> USE AccountsAssumption DEF accounts, invites, process, logins
<1>1. ASSUME NEW u \in Ids, NEW a \in Emails, Setup(u, a) PROVE TypeOK'
  <2>1. [ClaimsOf(u) EXCEPT !.role = "admin"] \in Claims
    BY ClaimsTyped DEF Roles
  <2>2. session \in [Sessions -> Ids \cup {Nobody}]
    BY DEF TypeOK
  <2>3. /\ session' \in [Sessions -> Ids \cup {Nobody}] /\ issued' \subseteq Sessions
        /\ vintage' \in [Sessions -> Nat] /\ tokens' \subseteq Claims
    BY <1>1, <2>1, <2>2, SignInAdds DEF Setup
  <2> QED
    BY <1>1, <2>3 DEF Setup, Insert, TypeOK, Roles
<1>2. ASSUME NEW u \in Ids, Login(u) PROVE TypeOK'
  <2>1. ClaimsOf(u) \in Claims
    BY <1>2, ClaimsTyped DEF Login, Exists
  <2>2. session \in [Sessions -> Ids \cup {Nobody}] /\ password[u] \in Nat
    BY DEF TypeOK
  <2>3. /\ session' \in [Sessions -> Ids \cup {Nobody}] /\ issued' \subseteq Sessions
        /\ vintage' \in [Sessions -> Nat] /\ tokens' \subseteq Claims
    BY <1>2, <2>1, <2>2, SignInAdds DEF Login
  <2> QED
    BY <1>2, <2>3 DEF Login, TypeOK
<1>3. ASSUME NEW s \in Sessions, Refresh(s) PROVE TypeOK'
  <2> DEFINE u == session[s]
             left == [session EXCEPT ![s] = Nobody]
  <2>1. u \in Ids /\ left \in [Sessions -> Ids \cup {Nobody}] /\ password[u] \in Nat
    BY <1>3 DEF Refresh, TypeOK
  <2>2. CASE Exists(u) /\ SignIn(u, ClaimsOf(u), left, password[u])
    <3>1. ClaimsOf(u) \in Claims
      BY <2>1, <2>2, ClaimsTyped DEF Exists
    <3>2. /\ session' \in [Sessions -> Ids \cup {Nobody}] /\ issued' \subseteq Sessions
          /\ vintage' \in [Sessions -> Nat] /\ tokens' \subseteq Claims
      BY <2>1, <2>2, <3>1, SignInAdds
    <3> QED
      BY <1>3, <3>2 DEF Refresh, TypeOK
  <2>3. CASE session' = left /\ UNCHANGED <<tokens, issued, vintage>>
    BY <1>3, <2>1, <2>3 DEF Refresh, TypeOK
  <2> QED
    BY <1>3, <2>2, <2>3 DEF Refresh
<1>4. ASSUME NEW s \in Sessions, Logout(s) PROVE TypeOK'
  BY <1>4 DEF Logout, TypeOK
<1>5. ASSUME NEW c \in tokens, ExpireToken(c) \/ Authenticate(c) PROVE TypeOK'
  BY <1>5 DEF ExpireToken, Authenticate, TypeOK
<1>6. ASSUME NEW c \in requests, Handle(c) PROVE requests' \subseteq Claims /\ overtaken' \in BOOLEAN
  BY <1>6 DEF Handle, TypeOK
<1>7. ASSUME NEW c \in requests, NEW u \in Ids, NEW a \in Emails, NEW r \in Roles,
             CreateUser(c, u, a, r)
      PROVE  TypeOK'
  BY <1>6, <1>7 DEF CreateUser, Insert, TypeOK
<1>8. ASSUME NEW c \in requests, NEW u \in Ids, NEW a \in Emails, NEW r \in Roles,
             NEW change \in {0, 1}, UpdateUser(c, u, a, r, change)
      PROVE  TypeOK'
  <2>1. password' \in [Ids -> Nat]
    BY <1>8 DEF UpdateUser, TypeOK
  <2>2. session' \in [Sessions -> Ids \cup {Nobody}]
    BY <1>8 DEF UpdateUser, TypeOK
  <2> QED
    BY <1>6, <1>8, <2>1, <2>2 DEF UpdateUser, TypeOK
<1>9. ASSUME NEW c \in requests, NEW u \in Ids, DeleteUser(c, u) PROVE TypeOK'
  BY <1>6, <1>9 DEF DeleteUser, TypeOK
<1>10. ASSUME NEW c \in requests, NEW i \in Invites, NEW a \in Emails, NEW r \in Roles,
              Invite(c, i, a, r)
       PROVE  TypeOK'
  <2>1. invite' \in [Invites -> [status : InviteStatuses, email : Emails, role : Roles]]
    BY <1>10 DEF Invite, Dead, InviteStatuses, TypeOK
  <2> QED
    BY <1>6, <1>10, <2>1 DEF Invite, TypeOK
<1>11. ASSUME NEW c \in requests, NEW i \in Invites, Revoke(c, i) PROVE TypeOK'
  <2>1. invite' \in [Invites -> [status : InviteStatuses, email : Emails, role : Roles]]
    BY <1>11 DEF Revoke, Dead, InviteStatuses, TypeOK
  <2> QED
    BY <1>6, <1>11, <2>1 DEF Revoke, TypeOK
<1>12. ASSUME NEW c \in requests, StartReset(c) PROVE TypeOK'
  BY <1>6, <1>12 DEF StartReset, TypeOK
<1>13. ASSUME NEW i \in Invites, ExpireInvite(i) PROVE TypeOK'
  <2>1. invite' \in [Invites -> [status : InviteStatuses, email : Emails, role : Roles]]
    BY <1>13 DEF ExpireInvite, Dead, InviteStatuses, TypeOK
  <2> QED
    BY <1>13, <2>1 DEF ExpireInvite, TypeOK
<1>14. ASSUME NEW i \in Invites, NEW u \in Ids, Accept(i, u) PROVE TypeOK'
  <2>1. invite' \in [Invites -> [status : InviteStatuses, email : Emails, role : Roles]]
    BY <1>14 DEF Accept, InviteStatuses, TypeOK
  <2>2. CASE Insert(u, invite[i].email, invite[i].role)
             /\ SignIn(u, [ClaimsOf(u) EXCEPT !.role = invite[i].role], session, 0)
             /\ made' = [made EXCEPT ![i] = @ \cup {u}]
    <3>1. /\ invite[i].email \in Emails /\ invite[i].role \in Roles
          /\ session \in [Sessions -> Ids \cup {Nobody}]
      BY DEF TypeOK
    <3>2. [ClaimsOf(u) EXCEPT !.role = invite[i].role] \in Claims
      BY <3>1, ClaimsTyped
    <3>3. /\ session' \in [Sessions -> Ids \cup {Nobody}] /\ issued' \subseteq Sessions
          /\ vintage' \in [Sessions -> Nat] /\ tokens' \subseteq Claims
      BY <2>2, <3>1, <3>2, SignInAdds
    <3>4. role' \in [Ids -> Roles \cup {"none", "gone"}] /\ email' \in [Ids -> Emails]
          /\ password' \in [Ids -> Nat] /\ made' \in [Invites -> SUBSET Ids]
      BY <2>2, <3>1 DEF Insert, TypeOK
    <3> QED
      BY <1>14, <2>1, <3>3, <3>4 DEF Accept, TypeOK
  <2>3. CASE UNCHANGED <<accounts, made, logins>>
    BY <1>14, <2>1, <2>3 DEF Accept, TypeOK
  <2> QED
    BY <1>14, <2>2, <2>3 DEF Accept
<1>15. ASSUME FinishReset PROVE TypeOK'
  <2>1. invite' \in [Invites -> [status : InviteStatuses, email : Emails, role : Roles]]
    BY <1>15 DEF FinishReset, Dead, InviteStatuses, TypeOK
  <2>2. role' \in [Ids -> Roles \cup {"none", "gone"}]
    BY <1>15 DEF FinishReset, TypeOK
  <2> QED
    BY <1>15, <2>1, <2>2 DEF FinishReset, TypeOK
<1>16. ASSUME Restart PROVE TypeOK'
  BY <1>16 DEF Restart, TypeOK
<1>17. ASSUME UNCHANGED vars PROVE TypeOK'
  BY <1>17 DEF vars, TypeOK
<1> QED
  BY <1>1, <1>2, <1>3, <1>4, <1>5, <1>7, <1>8, <1>9, <1>10, <1>11, <1>12, <1>13, <1>14,
     <1>15, <1>16, <1>17
  DEF Next, Administrate

(* A request that does not overtake a reset is handled by a store with users,
   and what is in flight was in flight before. *)
LEMMA HandledInTime ==
  ASSUME TypeOK, EmptyIsNew, NEW c \in requests, Handle(c)
  PROVE  /\ requests' \subseteq requests /\ (overtaken => overtaken')
         /\ ~overtaken' => ~overtaken /\ Users # {}
<1>1. c.epoch \in Nat /\ resets \in Nat
  BY DEF TypeOK, Claims
<1>2. Users = {} /\ ~overtaken => c.epoch # resets
  BY <1>1 DEF EmptyIsNew
<1> QED
  BY <1>2 DEF Handle

(* A new token is of the present reset. *)
LEMMA ClaimsOfNow ==
  ASSUME NEW u, NEW r
  PROVE  /\ ClaimsOf(u).epoch = resets /\ ClaimsOf(u).gen = generation
         /\ [ClaimsOf(u) EXCEPT !.role = r].epoch = resets
         /\ [ClaimsOf(u) EXCEPT !.role = r].gen = generation
BY DEF ClaimsOf

(* An administrator remains.  Without users the only thing a store lets happen
   is the setup, which makes one; with users, the guards of updateUser() and
   deleteUser() spare the last. *)
LEMMA AdministratorStep ==
  TypeOK /\ EmptyIsNew /\ AdministratorRemains /\ [Next]_vars
    => EmptyIsNew' /\ AdministratorRemains'
<1> SUFFICES ASSUME TypeOK, EmptyIsNew, AdministratorRemains, [Next]_vars
             PROVE  EmptyIsNew' /\ AdministratorRemains'
    OBVIOUS
<1> USE DEF accounts, invites, process, logins
<1>a. ASSUME role' = role PROVE Users' = Users /\ Admins' = Admins
  BY <1>a DEF Users, Exists, Admins
<1>b. ASSUME NEW u \in Ids, NEW a, NEW r \in Roles, Insert(u, a, r)
      PROVE  u \in Users' /\ (r = "admin" => u \in Admins') /\ Admins \subseteq Admins'
  BY <1>b DEF Insert, Users, Exists, Admins, TypeOK
<1>c. resets \in Nat /\ \A c \in tokens \cup requests : c.epoch \in Nat
  BY DEF TypeOK, Claims
<1>d. ASSUME NEW claims, claims.epoch = resets, resets' = resets,
             tokens' \subseteq tokens \cup {claims}, requests' \subseteq requests
      PROVE  \A c \in tokens' \cup requests' : c.epoch <= resets'
  BY <1>c, <1>d DEF EmptyIsNew
<1>e. ASSUME resets' = resets, tokens' \subseteq tokens,
             requests' \subseteq requests \cup tokens
      PROVE  /\ \A c \in tokens' \cup requests' : c.epoch <= resets'
             /\ ~overtaken /\ Users = {} =>
                  \A c \in tokens' \cup requests' : c.epoch < resets'
  BY <1>e DEF EmptyIsNew
<1>1. ASSUME NEW u \in Ids, NEW a \in Emails, Setup(u, a)
      PROVE  EmptyIsNew' /\ AdministratorRemains'
  <2>1. u \in Users' /\ u \in Admins'
    BY <1>1, <1>b DEF Setup, Roles
  <2>2. tokens' \subseteq tokens \cup {[ClaimsOf(u) EXCEPT !.role = "admin"]}
        /\ requests' = requests /\ resets' = resets
    BY <1>1 DEF Setup, SignIn
  <2> QED
    BY <2>1, <2>2, <1>d, ClaimsOfNow DEF EmptyIsNew, AdministratorRemains
<1>2. ASSUME NEW u \in Ids, Login(u) PROVE EmptyIsNew' /\ AdministratorRemains'
  <2>1. u \in Users /\ Users' = Users /\ Admins' = Admins /\ overtaken' = overtaken
    BY <1>2, <1>a DEF Login, Users
  <2>2. tokens' \subseteq tokens \cup {ClaimsOf(u)} /\ requests' = requests /\ resets' = resets
    BY <1>2 DEF Login, SignIn
  <2> QED
    BY <2>1, <2>2, <1>d, ClaimsOfNow DEF EmptyIsNew, AdministratorRemains
<1>3. ASSUME NEW s \in Sessions, Refresh(s) PROVE EmptyIsNew' /\ AdministratorRemains'
  <2>1. /\ Users' = Users /\ Admins' = Admins /\ overtaken' = overtaken
        /\ requests' = requests /\ resets' = resets /\ invite' = invite
    BY <1>3, <1>a DEF Refresh
  <2>2. session[s] \in Ids
    BY <1>3 DEF Refresh, TypeOK
  <2>3. CASE Exists(session[s]) /\ tokens' = tokens \cup {ClaimsOf(session[s])}
    <3>1. session[s] \in Users
      BY <2>2, <2>3 DEF Users
    <3> QED
      BY <2>1, <2>3, <3>1, <1>d, ClaimsOfNow DEF EmptyIsNew, AdministratorRemains
  <2>4. CASE tokens' = tokens
    BY <2>1, <2>4, <1>e DEF EmptyIsNew, AdministratorRemains
  <2> QED
    BY <1>3, <2>3, <2>4 DEF Refresh, SignIn
<1>4. ASSUME role' = role, invite' = invite, resets' = resets, overtaken' = overtaken,
             tokens' \subseteq tokens, requests' \subseteq requests \cup tokens
      PROVE  EmptyIsNew' /\ AdministratorRemains'
  BY <1>4, <1>a, <1>e DEF EmptyIsNew, AdministratorRemains
<1>5. ASSUME NEW s \in Sessions, Logout(s) PROVE EmptyIsNew' /\ AdministratorRemains'
  BY <1>4, <1>5 DEF Logout
<1>6. ASSUME NEW c \in tokens, ExpireToken(c) \/ Authenticate(c)
      PROVE  EmptyIsNew' /\ AdministratorRemains'
  BY <1>4, <1>6 DEF ExpireToken, Authenticate
<1>7. ASSUME NEW c \in requests, Handle(c), tokens' = tokens, resets' = resets,
             ~overtaken' => Users' # {} /\ Admins' # {}
      PROVE  EmptyIsNew' /\ AdministratorRemains'
  BY <1>7, <1>e, HandledInTime DEF EmptyIsNew, AdministratorRemains
<1>8. ASSUME NEW c \in requests, NEW u \in Ids, NEW a \in Emails, NEW r \in Roles,
             CreateUser(c, u, a, r)
      PROVE  EmptyIsNew' /\ AdministratorRemains'
  <2>1. u \in Users' /\ Admins \subseteq Admins'
    BY <1>8, <1>b DEF CreateUser
  <2>2. Handle(c) /\ tokens' = tokens /\ resets' = resets
    BY <1>8 DEF CreateUser
  <2> QED
    BY <2>1, <2>2, <1>7, HandledInTime DEF AdministratorRemains
<1>9. ASSUME NEW c \in requests, NEW u \in Ids, NEW a \in Emails, NEW r \in Roles,
             NEW change \in {0, 1}, UpdateUser(c, u, a, r, change)
      PROVE  EmptyIsNew' /\ AdministratorRemains'
  <2>1. Handle(c) /\ tokens' = tokens /\ resets' = resets
    BY <1>9 DEF UpdateUser
  <2>2. u \in Users' /\ (r = "admin" => u \in Admins') /\ Admins \ {u} \subseteq Admins'
    BY <1>9 DEF UpdateUser, Users, Exists, Admins, TypeOK
  <2>3. r # "admin" => Admins # {u}
    BY <1>9 DEF UpdateUser
  <2>4. Admins # {} /\ Admins # {u} => \E v \in Admins : v # u
    OBVIOUS
  <2>5. ~overtaken' => Admins # {}
    BY <2>1, HandledInTime DEF AdministratorRemains
  <2>6. ~overtaken' => Users' # {} /\ Admins' # {}
    BY <2>2, <2>3, <2>4, <2>5
  <2> QED
    BY <2>1, <2>6, <1>7
<1>10. ASSUME NEW c \in requests, NEW u \in Ids, DeleteUser(c, u)
       PROVE  EmptyIsNew' /\ AdministratorRemains'
  <2>1. Handle(c) /\ tokens' = tokens /\ resets' = resets
    BY <1>10 DEF DeleteUser
  <2>2. Admins \ {u} \subseteq Admins' /\ Admins' \subseteq Users'
    BY <1>10 DEF DeleteUser, Users, Exists, Admins, Roles, TypeOK
  <2>3. Admins # {u} /\ (Admins # {} => \E v \in Admins : v # u)
    BY <1>10 DEF DeleteUser
  <2>4. ~overtaken' => Admins # {}
    BY <2>1, HandledInTime DEF AdministratorRemains
  <2>5. ~overtaken' => Users' # {} /\ Admins' # {}
    BY <2>2, <2>3, <2>4
  <2> QED
    BY <2>1, <2>5, <1>7
<1>11. ASSUME NEW c \in requests, Handle(c), role' = role, tokens' = tokens, resets' = resets
       PROVE  EmptyIsNew' /\ AdministratorRemains'
  BY <1>11, <1>a, <1>7, HandledInTime DEF AdministratorRemains
<1>12. ASSUME NEW c \in requests, NEW i \in Invites,
              (\E a \in Emails, r \in Roles : Invite(c, i, a, r)) \/ Revoke(c, i)
       PROVE  EmptyIsNew' /\ AdministratorRemains'
  BY <1>11, <1>12 DEF Invite, Revoke
<1>13. ASSUME NEW c \in requests, StartReset(c) PROVE EmptyIsNew' /\ AdministratorRemains'
  BY <1>11, <1>13 DEF StartReset
<1>14. ASSUME NEW i \in Invites, ExpireInvite(i) PROVE EmptyIsNew' /\ AdministratorRemains'
  <2>1. /\ Users' = Users /\ Admins' = Admins /\ overtaken' = overtaken
        /\ tokens' = tokens /\ requests' = requests /\ resets' = resets
    BY <1>14, <1>a DEF ExpireInvite
  <2>2. \A j \in Invites : invite'[j].status = "pending" => invite[j].status = "pending"
    BY <1>14 DEF ExpireInvite, Dead, TypeOK
  <2> QED
    BY <2>1, <2>2, <1>e DEF EmptyIsNew, AdministratorRemains
<1>15. ASSUME NEW i \in Invites, NEW u \in Ids, Accept(i, u)
       PROVE  EmptyIsNew' /\ AdministratorRemains'
  <2>1. /\ invite[i].status = "pending" /\ overtaken' = overtaken
        /\ requests' = requests /\ resets' = resets
    BY <1>15 DEF Accept
  <2>2. ~overtaken => Users # {} /\ Admins # {}
    BY <2>1 DEF EmptyIsNew, AdministratorRemains
  <2>3. CASE UNCHANGED <<accounts, made, logins>>
    BY <2>1, <2>2, <2>3, <1>a, <1>e DEF EmptyIsNew, AdministratorRemains
  <2>4. CASE Insert(u, invite[i].email, invite[i].role)
             /\ SignIn(u, [ClaimsOf(u) EXCEPT !.role = invite[i].role], session, 0)
    <3>1. invite[i].role \in Roles
      BY DEF TypeOK
    <3>2. u \in Users' /\ Admins \subseteq Admins'
      BY <2>4, <3>1, <1>b
    <3>3. tokens' \subseteq tokens \cup {[ClaimsOf(u) EXCEPT !.role = invite[i].role]}
      BY <2>4 DEF SignIn
    <3> QED
      BY <2>1, <2>2, <3>2, <3>3, <1>d, ClaimsOfNow DEF EmptyIsNew, AdministratorRemains
  <2> QED
    BY <1>15, <2>3, <2>4 DEF Accept
<1>16. ASSUME FinishReset PROVE EmptyIsNew' /\ AdministratorRemains'
  <2>1. Users' = {}
    BY <1>16 DEF FinishReset, Users, Exists, Roles, TypeOK
  <2>2. tokens' = tokens /\ requests' = requests /\ resets' = resets + 1
    BY <1>16 DEF FinishReset
  <2>3. \A c \in tokens \cup requests : c.epoch < resets'
    BY <2>2, <1>c DEF EmptyIsNew
  <2>4. \A j \in Invites : invite'[j].status # "pending"
    BY <1>16 DEF FinishReset, Dead, TypeOK
  <2>5. \A c \in tokens' \cup requests' : c.epoch <= resets' /\ c.epoch < resets'
    BY <2>2, <2>3, <1>c
  <2> QED
    BY <2>1, <2>4, <2>5 DEF EmptyIsNew, AdministratorRemains
<1>17. ASSUME Restart PROVE EmptyIsNew' /\ AdministratorRemains'
  BY <1>4, <1>17 DEF Restart
<1>18. ASSUME UNCHANGED vars PROVE EmptyIsNew' /\ AdministratorRemains'
  BY <1>4, <1>18 DEF vars
<1>19. ASSUME NEW c \in requests, Administrate(c) PROVE EmptyIsNew' /\ AdministratorRemains'
   <2>1. CASE \E u \in Ids, a \in Emails, r \in Roles : CreateUser(c, u, a, r)
    BY <2>1, <1>8
  <2>2. CASE \E u \in Ids, a \in Emails, r \in Roles, change \in {0, 1} :
               UpdateUser(c, u, a, r, change)
    BY <2>2, <1>9
  <2> QED
    BY <1>10, <1>12, <1>13, <1>19, <2>1, <2>2 DEF Administrate
<1> QED
  BY <1>1, <1>2, <1>3, <1>5, <1>6, <1>14, <1>15, <1>16, <1>17, <1>18, <1>19 DEF Next

(* Sessions follow passwords: a step that keeps or ends sessions must leave the
   users of those it keeps, and their passwords, ... *)
LEMMA SessionsKept ==
  ASSUME TypeOK, FirstPasswords, SessionsFollowPasswords,
         issued' = issued, vintage' = vintage,
         \A s \in Sessions : session'[s] # Nobody =>
           session'[s] = session[s] /\ role'[session[s]] \in Roles
             /\ password'[session[s]] = password[session[s]],
         \A u \in Ids : role'[u] = "none" => role[u] = "none" /\ password'[u] = password[u]
  PROVE  FirstPasswords' /\ SessionsFollowPasswords'
BY DEF FirstPasswords, SessionsFollowPasswords, Exists

(* ... and one that signs in u must do so under u's present password. *)
LEMMA SessionsOpened ==
  ASSUME TypeOK, FirstPasswords, SessionsFollowPasswords,
         NEW u \in Ids, NEW claims, NEW left \in [Sessions -> Ids \cup {Nobody}],
         SignIn(u, claims, left, password[u]),
         \A s \in Sessions : left[s] # Nobody => left[s] = session[s],
         password' = password, role'[u] \in Roles,
         \A v \in Ids : role[v] \in Roles => role'[v] \in Roles,
         \A v \in Ids : role'[v] = "none" => role[v] = "none"
  PROVE  FirstPasswords' /\ SessionsFollowPasswords'
<1>1. PICK s \in Sessions \ issued :
        /\ session' = [left EXCEPT ![s] = u]
        /\ issued' = issued \cup {s}
        /\ vintage' = [vintage EXCEPT ![s] = password[u]]
  BY DEF SignIn
<1>2. ASSUME NEW t \in Sessions, session'[t] # Nobody
      PROVE  /\ t \in issued'
             /\ role'[session'[t]] \in Roles /\ vintage'[t] = password'[session'[t]]
  <2>1. CASE t = s
    BY <1>1, <2>1 DEF TypeOK
  <2>2. CASE t # s
    <3>1. session'[t] = session[t] /\ session[t] # Nobody /\ session[t] \in Ids
      BY <1>1, <1>2, <2>2 DEF TypeOK
    <3>2. t \in issued /\ role[session[t]] \in Roles /\ vintage[t] = password[session[t]]
      BY <3>1 DEF FirstPasswords, SessionsFollowPasswords, Exists
    <3> QED
      BY <1>1, <2>2, <3>1, <3>2 DEF TypeOK
  <2> QED
    BY <2>1, <2>2
<1>3. FirstPasswords'
  BY <1>2 DEF FirstPasswords
<1> QED
  BY <1>2, <1>3 DEF SessionsFollowPasswords, Exists

(* No session outlives the password it was opened with. *)
LEMMA SessionStep ==
  TypeOK /\ FirstPasswords /\ SessionsFollowPasswords /\ [Next]_vars
    => FirstPasswords' /\ SessionsFollowPasswords'
<1> SUFFICES ASSUME TypeOK, FirstPasswords, SessionsFollowPasswords, [Next]_vars
             PROVE  FirstPasswords' /\ SessionsFollowPasswords'
    OBVIOUS
<1> USE AccountsAssumption DEF accounts, invites, process, logins
<1>a. session \in [Sessions -> Ids \cup {Nobody}]
  BY DEF TypeOK
<1>b. \A s \in Sessions : session[s] # Nobody => session[s] \in Ids /\ role[session[s]] \in Roles
  BY DEF TypeOK, SessionsFollowPasswords, Exists
<1>c. ASSUME NEW u \in Ids, NEW a, NEW r \in Roles, Insert(u, a, r)
      PROVE  /\ password[u] = 0 /\ password' = password /\ role'[u] \in Roles
             /\ \A v \in Ids : role[v] \in Roles => role'[v] \in Roles
             /\ \A v \in Ids : role'[v] = "none" => role[v] = "none"
  BY <1>c DEF Insert, FirstPasswords, TypeOK, Roles
<1>d. ASSUME UNCHANGED <<role, password, session, issued, vintage>>
      PROVE  FirstPasswords' /\ SessionsFollowPasswords'
  BY <1>b, <1>d, SessionsKept
<1>1. ASSUME NEW u \in Ids, NEW a \in Emails, Setup(u, a)
      PROVE  FirstPasswords' /\ SessionsFollowPasswords'
  <2>1. Insert(u, a, "admin") /\ "admin" \in Roles
        /\ SignIn(u, [ClaimsOf(u) EXCEPT !.role = "admin"], session, 0)
    BY <1>1 DEF Setup, Roles
  <2> QED
    BY <2>1, <1>a, <1>c, SessionsOpened
<1>2. ASSUME NEW u \in Ids, Login(u) PROVE FirstPasswords' /\ SessionsFollowPasswords'
  <2>1. Exists(u) /\ SignIn(u, ClaimsOf(u), session, password[u])
        /\ role' = role /\ password' = password
    BY <1>2 DEF Login
  <2> QED
    BY <2>1, <1>a, SessionsOpened DEF Exists
<1>3. ASSUME NEW s \in Sessions, Refresh(s) PROVE FirstPasswords' /\ SessionsFollowPasswords'
  <2> DEFINE u == session[s]
             left == [session EXCEPT ![s] = Nobody]
  <2>1. /\ u \in Ids /\ left \in [Sessions -> Ids \cup {Nobody}]
        /\ \A t \in Sessions : left[t] # Nobody => left[t] = session[t]
        /\ role' = role /\ password' = password
    BY <1>3 DEF Refresh, TypeOK
  <2>2. CASE Exists(u) /\ SignIn(u, ClaimsOf(u), left, password[u])
    BY <2>1, <2>2, SessionsOpened DEF Exists
  <2>3. CASE session' = left /\ UNCHANGED <<tokens, issued, vintage>>
    BY <2>1, <2>3, <1>b, SessionsKept
  <2> QED
    BY <1>3, <2>2, <2>3 DEF Refresh
<1>4. ASSUME NEW s \in Sessions, Logout(s) PROVE FirstPasswords' /\ SessionsFollowPasswords'
  <2>1. \A t \in Sessions : session'[t] # Nobody => session'[t] = session[t]
    BY <1>4 DEF Logout, TypeOK
  <2> QED
    BY <1>4, <2>1, <1>b, SessionsKept DEF Logout
<1>5. ASSUME NEW c \in requests, NEW u \in Ids, NEW a \in Emails, NEW r \in Roles,
             CreateUser(c, u, a, r)
      PROVE  FirstPasswords' /\ SessionsFollowPasswords'
  <2>1. /\ Insert(u, a, r)
        /\ session' = session /\ issued' = issued /\ vintage' = vintage
    BY <1>5 DEF CreateUser
  <2> QED
    BY <2>1, <1>b, <1>c, SessionsKept
<1>6. ASSUME NEW c \in requests, NEW u \in Ids, NEW a \in Emails, NEW r \in Roles,
             NEW change \in {0, 1}, UpdateUser(c, u, a, r, change)
      PROVE  FirstPasswords' /\ SessionsFollowPasswords'
  <2>1. /\ role' = [role EXCEPT ![u] = r] /\ role[u] \in Roles
        /\ password' = [password EXCEPT ![u] = @ + change]
        /\ session' = IF change = 0 THEN session
                      ELSE [s \in Sessions |-> IF session[s] = u THEN Nobody ELSE session[s]]
        /\ issued' = issued /\ vintage' = vintage
    BY <1>6 DEF UpdateUser, Exists
  <2>2. \A v \in Ids : role'[v] = "none" => role[v] = "none" /\ password'[v] = password[v]
    BY <2>1 DEF TypeOK, Roles
  <2>3. \A v \in Ids : role[v] \in Roles => role'[v] \in Roles
    BY <2>1 DEF TypeOK
  <2>4. change = 0 => password' = password
    BY <2>1 DEF TypeOK
  <2>5. \A s \in Sessions : session'[s] # Nobody =>
          session'[s] = session[s] /\ (change = 1 => session[s] # u)
    BY <2>1
  <2>6. \A s \in Sessions : session'[s] # Nobody =>
          password'[session[s]] = password[session[s]]
    BY <2>1, <2>4, <2>5, <1>b DEF TypeOK
  <2> QED
    BY <2>1, <2>2, <2>3, <2>5, <2>6, <1>b, SessionsKept
<1>7. ASSUME NEW c \in requests, NEW u \in Ids, DeleteUser(c, u)
      PROVE  FirstPasswords' /\ SessionsFollowPasswords'
  <2>1. /\ role' = [role EXCEPT ![u] = "gone"] /\ password' = password
        /\ session' = [s \in Sessions |-> IF session[s] = u THEN Nobody ELSE session[s]]
        /\ issued' = issued /\ vintage' = vintage
    BY <1>7 DEF DeleteUser
  <2>2. \A s \in Sessions : session'[s] # Nobody => session'[s] = session[s] /\ session[s] # u
    BY <2>1
  <2>3. \A v \in Ids : (v # u => role'[v] = role[v]) /\ (role'[v] = "none" => role[v] = "none")
    BY <2>1 DEF TypeOK
  <2> QED
    BY <2>1, <2>2, <2>3, <1>b, SessionsKept
<1>8. ASSUME NEW i \in Invites, NEW u \in Ids, Accept(i, u)
      PROVE  FirstPasswords' /\ SessionsFollowPasswords'
  <2>1. CASE UNCHANGED <<accounts, made, logins>>
    BY <2>1, <1>d
  <2>2. CASE Insert(u, invite[i].email, invite[i].role)
             /\ SignIn(u, [ClaimsOf(u) EXCEPT !.role = invite[i].role], session, 0)
    <3>1. invite[i].role \in Roles
      BY DEF TypeOK
    <3> QED
      BY <2>2, <3>1, <1>a, <1>c, SessionsOpened
  <2> QED
    BY <1>8, <2>1, <2>2 DEF Accept
<1>9. ASSUME FinishReset PROVE FirstPasswords' /\ SessionsFollowPasswords'
  <2>1. /\ password' = password /\ issued' = issued /\ vintage' = vintage
        /\ \A s \in Sessions : session'[s] = Nobody
    BY <1>9 DEF FinishReset
  <2>2. \A v \in Ids : role'[v] = "none" => role[v] = "none"
    BY <1>9 DEF FinishReset
  <2> QED
    BY <2>1, <2>2, SessionsKept
<1>10. ASSUME NEW c \in requests, Administrate(c)
       PROVE  FirstPasswords' /\ SessionsFollowPasswords'
  <2>1. CASE \E u \in Ids, a \in Emails, r \in Roles : CreateUser(c, u, a, r)
    BY <2>1, <1>5
  <2>2. CASE \E u \in Ids, a \in Emails, r \in Roles, change \in {0, 1} :
               UpdateUser(c, u, a, r, change)
    BY <2>2, <1>6
  <2>3. CASE \E u \in Ids : DeleteUser(c, u)
    BY <2>3, <1>7
  <2>4. CASE (\E i \in Invites, a \in Emails, r \in Roles : Invite(c, i, a, r))
               \/ (\E i \in Invites : Revoke(c, i)) \/ StartReset(c)
    BY <2>4, <1>d DEF Invite, Revoke, StartReset
  <2> QED
    BY <1>10, <2>1, <2>2, <2>3, <2>4 DEF Administrate
<1>11. ASSUME \/ \E c \in tokens : ExpireToken(c) \/ Authenticate(c)
              \/ \E i \in Invites : ExpireInvite(i)
              \/ Restart \/ UNCHANGED vars
       PROVE  FirstPasswords' /\ SessionsFollowPasswords'
  BY <1>11, <1>d DEF ExpireToken, Authenticate, ExpireInvite, Restart, vars
<1> QED
  BY <1>1, <1>2, <1>3, <1>4, <1>8, <1>9, <1>10, <1>11 DEF Next

(* An account is made for an address nobody has. *)
LEMMA InsertedOnce ==
  ASSUME TypeOK, NEW u \in Ids, NEW a \in Emails, NEW r \in Roles, Insert(u, a, r),
         \A v, w \in Users : email[v] = email[w] => v = w
  PROVE  \A v, w \in Users' : email'[v] = email'[w] => v = w
<1>1. /\ \A v \in Users' : v # u => v \in Users /\ email'[v] = email[v]
      /\ email'[u] = a /\ \A v \in Users : email[v] # a
  BY DEF Insert, Taken, Users, Exists, TypeOK
<1> QED
  BY <1>1

(* Invitations and addresses.  The parts of the invariant are disturbed by few
   actions each; what leaves the rows alone leaves it alone. *)
LEMMA InvitationStep ==
  TypeOK /\ MadeOnAccept /\ InvitationsSound /\ [Next]_vars
    => MadeOnAccept' /\ InvitationsSound'
<1> SUFFICES ASSUME TypeOK, MadeOnAccept, InvitationsSound, [Next]_vars
             PROVE  MadeOnAccept' /\ InvitationsSound'
    OBVIOUS
<1> USE AccountsAssumption DEF accounts, invites, process, logins
<1> DEFINE Single(j) == /\ \A u, v \in made[j] : u = v
                        /\ invite[j].status # "accepted" => made[j] = {}
           Distinct == \A u, v \in Users : email[u] = email[v] => u = v
           OnePending == \A i, j \in Invites :
             invite[i].status = "pending" /\ invite[j].status = "pending"
               /\ invite[i].email = invite[j].email => i = j
<1>a. (\A j \in Invites : Single(j)) /\ Distinct /\ OnePending
  BY DEF MadeOnAccept, InvitationsSound
<1>b. ASSUME (\A j \in Invites : Single(j)'), Distinct', OnePending'
      PROVE  MadeOnAccept' /\ InvitationsSound'
  BY <1>b DEF MadeOnAccept, InvitationsSound
<1>c. ASSUME role' = role, email' = email PROVE Distinct'
  BY <1>a, <1>c DEF Users, Exists
<1>d. ASSUME invite' = invite PROVE OnePending'
  BY <1>a, <1>d
<1>e. ASSUME invite' = invite, made' = made PROVE \A j \in Invites : Single(j)'
  BY <1>a, <1>e
<1> HIDE DEF Single, Distinct, OnePending
<1>1. ASSUME NEW u \in Ids, NEW a \in Emails, NEW r \in Roles, Insert(u, a, r) PROVE Distinct'
  BY <1>1, <1>a, InsertedOnce DEF Distinct
<1>2. ASSUME NEW u \in Ids, NEW a \in Emails, Setup(u, a)
      PROVE  MadeOnAccept' /\ InvitationsSound'
  <2>1. Insert(u, a, "admin") /\ "admin" \in Roles /\ invite' = invite /\ made' = made
    BY <1>2 DEF Setup, Roles
  <2> QED
    BY <2>1, <1>1, <1>b, <1>d, <1>e
<1>3. ASSUME NEW c \in requests, NEW u \in Ids, NEW a \in Emails, NEW r \in Roles,
             CreateUser(c, u, a, r)
      PROVE  MadeOnAccept' /\ InvitationsSound'
  <2>1. Insert(u, a, r) /\ invite' = invite /\ made' = made
    BY <1>3 DEF CreateUser
  <2> QED
    BY <2>1, <1>1, <1>b, <1>d, <1>e
<1>4. ASSUME NEW c \in requests, NEW u \in Ids, NEW a \in Emails, NEW r \in Roles,
             NEW change \in {0, 1}, UpdateUser(c, u, a, r, change)
      PROVE  MadeOnAccept' /\ InvitationsSound'
  <2>1. /\ u \in Users /\ (a # email[u] => \A v \in Users : email[v] # a)
        /\ invite' = invite /\ made' = made
    BY <1>4 DEF UpdateUser, Taken, Users
  <2>2. /\ email'[u] = a
        /\ \A v \in Users' : v \in Users /\ (v # u => email'[v] = email[v])
    BY <1>4 DEF UpdateUser, Users, Exists, TypeOK
  <2>3. Distinct'
    BY <2>1, <2>2, <1>a DEF Distinct
  <2> QED
    BY <2>1, <2>3, <1>b, <1>d, <1>e
<1>5. ASSUME NEW c \in requests, NEW u \in Ids, DeleteUser(c, u)
      PROVE  MadeOnAccept' /\ InvitationsSound'
  <2>1. invite' = invite /\ made' = made /\ email' = email
    BY <1>5 DEF DeleteUser
  <2>2. \A v \in Users' : v \in Users
    BY <1>5 DEF DeleteUser, Users, Exists, Roles, TypeOK
  <2>3. Distinct'
    BY <2>1, <2>2, <1>a DEF Distinct
  <2> QED
    BY <2>1, <2>3, <1>b, <1>d, <1>e
<1>6. ASSUME NEW c \in requests, NEW i \in Invites, NEW a \in Emails, NEW r \in Roles,
             Invite(c, i, a, r)
      PROVE  MadeOnAccept' /\ InvitationsSound'
  <2>1. role' = role /\ email' = email /\ made' = made /\ invite[i].status = "none"
    BY <1>6 DEF Invite
  <2>2. /\ invite'[i].status = "pending" /\ invite'[i].email = a
        /\ \A j \in Invites : j # i =>
             /\ invite'[j].email = invite[j].email
             /\ invite'[j].status \in {invite[j].status, "dead"}
             /\ invite'[j].status = "pending" => invite[j].email # a
             /\ invite'[j].status # "accepted" => invite[j].status # "accepted"
    BY <1>6 DEF Invite, Dead, TypeOK
  <2>3. OnePending'
    BY <2>2, <1>a DEF OnePending
  <2>4. \A j \in Invites : Single(j)'
    BY <2>1, <2>2, <1>a DEF Single
  <2> QED
    BY <2>1, <2>3, <2>4, <1>b, <1>c
<1>7. ASSUME NEW i \in Invites, invite[i].status = "pending", invite' = [invite EXCEPT ![i] = Dead(i)],
             role' = role, email' = email, made' = made
      PROVE  MadeOnAccept' /\ InvitationsSound'
  <2>1. \A j \in Invites : /\ invite'[j].email = invite[j].email
                           /\ invite'[j].status \in {invite[j].status, "dead"}
                           /\ invite'[j].status # "accepted" => invite[j].status # "accepted"
    BY <1>7 DEF Dead, TypeOK
  <2>2. OnePending'
    BY <2>1, <1>a DEF OnePending
  <2>3. \A j \in Invites : Single(j)'
    BY <2>1, <1>7, <1>a DEF Single
  <2> QED
    BY <2>2, <2>3, <1>7, <1>b, <1>c
<1>8. ASSUME NEW i \in Invites, NEW u \in Ids, Accept(i, u)
      PROVE  MadeOnAccept' /\ InvitationsSound'
  <2>1. /\ invite[i].status = "pending" /\ invite'[i].status = "accepted"
        /\ \A j \in Invites : j # i => invite'[j] = invite[j]
    BY <1>8 DEF Accept, TypeOK
  <2>2. OnePending'
    BY <2>1, <1>a DEF OnePending
  <2>3. CASE UNCHANGED <<accounts, made, logins>>
    <3>1. \A j \in Invites : Single(j)'
      BY <2>1, <2>3, <1>a DEF Single
    <3> QED
      BY <2>2, <2>3, <3>1, <1>b, <1>c
  <2>4. CASE Insert(u, invite[i].email, invite[i].role) /\ made' = [made EXCEPT ![i] = @ \cup {u}]
    <3>1. invite[i].email \in Emails /\ invite[i].role \in Roles
      BY DEF TypeOK
    <3>2. Distinct'
      BY <2>4, <3>1, <1>1
    <3>3. made[i] = {} /\ made'[i] = {u} /\ \A j \in Invites : j # i => made'[j] = made[j]
      BY <2>1, <2>4, <1>a DEF Single, TypeOK
    <3>4. \A j \in Invites : Single(j)'
      BY <2>1, <3>3, <1>a DEF Single
    <3> QED
      BY <2>2, <3>2, <3>4, <1>b
  <2> QED
    BY <1>8, <2>3, <2>4 DEF Accept
<1>9. ASSUME FinishReset PROVE MadeOnAccept' /\ InvitationsSound'
  <2>1. made' = made /\ \A j \in Invites :
          /\ invite'[j].status # "pending"
          /\ invite'[j].status # "accepted" => invite[j].status # "accepted"
    BY <1>9 DEF FinishReset, Dead, TypeOK
  <2>2. Users' = {}
    BY <1>9 DEF FinishReset, Users, Exists, Roles, TypeOK
  <2>3. Distinct' /\ OnePending'
    BY <2>1, <2>2 DEF Distinct, OnePending
  <2>4. \A j \in Invites : Single(j)'
    BY <2>1, <1>a DEF Single
  <2> QED
    BY <2>3, <2>4, <1>b
<1>10. ASSUME UNCHANGED <<role, email, invite, made>> PROVE MadeOnAccept' /\ InvitationsSound'
  BY <1>10, <1>b, <1>c, <1>d, <1>e
<1>11. ASSUME NEW c \in requests, Administrate(c) PROVE MadeOnAccept' /\ InvitationsSound'
  <2>1. CASE \E u \in Ids, a \in Emails, r \in Roles : CreateUser(c, u, a, r)
    BY <2>1, <1>3
  <2>2. CASE \E u \in Ids, a \in Emails, r \in Roles, change \in {0, 1} :
               UpdateUser(c, u, a, r, change)
    BY <2>2, <1>4
  <2>3. CASE \E u \in Ids : DeleteUser(c, u)
    BY <2>3, <1>5
  <2>4. CASE \E i \in Invites, a \in Emails, r \in Roles : Invite(c, i, a, r)
    BY <2>4, <1>6
  <2>5. CASE \E i \in Invites : Revoke(c, i)
    BY <2>5, <1>7 DEF Revoke
  <2>6. CASE StartReset(c)
    BY <2>6, <1>10 DEF StartReset
  <2> QED
    BY <1>11, <2>1, <2>2, <2>3, <2>4, <2>5, <2>6 DEF Administrate
<1>12. ASSUME NEW i \in Invites, ExpireInvite(i) PROVE MadeOnAccept' /\ InvitationsSound'
  BY <1>7, <1>12 DEF ExpireInvite
<1>13. ASSUME \/ \E u \in Ids : Login(u)
              \/ \E s \in Sessions : Refresh(s) \/ Logout(s)
              \/ \E c \in tokens : ExpireToken(c) \/ Authenticate(c)
              \/ Restart \/ UNCHANGED vars
       PROVE  MadeOnAccept' /\ InvitationsSound'
  BY <1>10, <1>13 DEF Login, Refresh, Logout, ExpireToken, Authenticate, Restart, vars
<1> QED
  BY <1>2, <1>8, <1>9, <1>11, <1>12, <1>13 DEF Next

(* Within one process generations and resets are counted together, so that a
   token of the present generation is of the present reset. *)
LEMMA GenerationStep ==
  TypeOK /\ GenerationsGrow /\ ResetRevokes /\ [Next]_vars
    => GenerationsGrow' /\ ResetRevokes'
<1> SUFFICES ASSUME TypeOK, GenerationsGrow, ResetRevokes, [Next]_vars
             PROVE  GenerationsGrow' /\ ResetRevokes'
    OBVIOUS
<1> USE DEF accounts, invites, process, logins
<1>a. generation \in Nat /\ boots \in Nat /\ \A c \in tokens : c.gen \in Nat
  BY DEF TypeOK, Claims
<1>1. ASSUME UNCHANGED <<generation, resets, boots>>,
             \A c \in tokens' : c \in tokens \/ (c.gen = generation /\ c.epoch = resets)
      PROVE  GenerationsGrow' /\ ResetRevokes'
  BY <1>1, <1>a DEF GenerationsGrow, ResetRevokes
<1>2. ASSUME NEW u, NEW r, UNCHANGED <<generation, resets, boots>>,
             tokens' = tokens \cup {ClaimsOf(u)}
               \/ tokens' = tokens \cup {[ClaimsOf(u) EXCEPT !.role = r]}
      PROVE  GenerationsGrow' /\ ResetRevokes'
  <2> DEFINE k == [ClaimsOf(u) EXCEPT !.role = r]
  <2>1. ClaimsOf(u).gen = generation /\ ClaimsOf(u).epoch = resets
    BY ClaimsOfNow
  <2>2. k.gen = generation /\ k.epoch = resets
    BY ClaimsOfNow
  <2>3. ASSUME NEW c \in tokens' PROVE c \in tokens \/ c = ClaimsOf(u) \/ c = k
    BY <1>2, <2>3
  <2> HIDE DEF k
  <2>4. \A c \in tokens' : c \in tokens \/ (c.gen = generation /\ c.epoch = resets)
    BY <2>1, <2>2, <2>3
  <2> QED
    BY <1>1, <1>2, <2>4
<1>3. ASSUME NEW u \in Ids, NEW a \in Emails, Setup(u, a)
      PROVE  GenerationsGrow' /\ ResetRevokes'
  BY <1>2, <1>3 DEF Setup, SignIn
<1>4. ASSUME NEW u \in Ids, Login(u) PROVE GenerationsGrow' /\ ResetRevokes'
  BY <1>2, <1>4 DEF Login, SignIn
<1>5. ASSUME NEW s \in Sessions, Refresh(s) PROVE GenerationsGrow' /\ ResetRevokes'
  <2>1. UNCHANGED <<generation, resets, boots>>
    BY <1>5 DEF Refresh
  <2>2. tokens' = tokens \/ tokens' = tokens \cup {ClaimsOf(session[s])}
    BY <1>5 DEF Refresh, SignIn
  <2> QED
    BY <2>1, <2>2, <1>1, ClaimsOfNow
<1>6. ASSUME NEW i \in Invites, NEW u \in Ids, Accept(i, u)
      PROVE  GenerationsGrow' /\ ResetRevokes'
  <2>1. UNCHANGED <<generation, resets, boots>>
    BY <1>6 DEF Accept
  <2>2. \/ tokens' = tokens
        \/ tokens' = tokens \cup {[ClaimsOf(u) EXCEPT !.role = invite[i].role]}
    BY <1>6 DEF Accept, SignIn
  <2> QED
    BY <2>1, <2>2, <1>1, ClaimsOfNow
<1>7. ASSUME UNCHANGED <<generation, resets, boots>>, tokens' \subseteq tokens
      PROVE  GenerationsGrow' /\ ResetRevokes'
  BY <1>1, <1>7
<1>8. ASSUME NEW c \in requests, Administrate(c) PROVE GenerationsGrow' /\ ResetRevokes'
  BY <1>7, <1>8
  DEF Administrate, CreateUser, UpdateUser, DeleteUser, Invite, Revoke, StartReset
<1>9. ASSUME \/ \E s \in Sessions : Logout(s)
             \/ \E c \in tokens : ExpireToken(c) \/ Authenticate(c)
             \/ \E i \in Invites : ExpireInvite(i)
             \/ UNCHANGED vars
      PROVE  GenerationsGrow' /\ ResetRevokes'
  BY <1>7, <1>9 DEF Logout, ExpireToken, Authenticate, ExpireInvite, vars
<1>10. ASSUME FinishReset PROVE GenerationsGrow' /\ ResetRevokes'
  BY <1>10, <1>a DEF FinishReset, GenerationsGrow, ResetRevokes
<1>11. ASSUME Restart PROVE GenerationsGrow' /\ ResetRevokes'
  BY <1>11, <1>a DEF Restart, GenerationsGrow, ResetRevokes
<1> QED
  BY <1>3, <1>4, <1>5, <1>6, <1>8, <1>9, <1>10, <1>11 DEF Next

-----------------------------------------------------------------------------
(* What follows for every behaviour *)

(* A server without accounts satisfies the invariant. *)
LEMMA AccountsStart == Init => IInv
<1> SUFFICES ASSUME Init PROVE IInv
    OBVIOUS
<1>1. TypeOK
  <2>1. PICK a \in Emails :
          /\ email = [u \in Ids |-> a]
          /\ invite = [i \in Invites |-> [status |-> "none", email |-> a, role |-> "member"]]
    BY DEF Init
  <2>2. invite \in [Invites -> [status : InviteStatuses, email : Emails, role : Roles]]
    BY <2>1 DEF Roles, InviteStatuses
  <2>3. role \in [Ids -> Roles \cup {"none", "gone"}] /\ email \in [Ids -> Emails]
    BY <2>1 DEF Init
  <2>4. /\ password \in [Ids -> Nat] /\ session \in [Sessions -> Ids \cup {Nobody}]
        /\ vintage \in [Sessions -> Nat] /\ made \in [Invites -> SUBSET Ids]
    BY DEF Init
  <2>5. /\ generation \in Nat \ {0} /\ resetting \in Nat /\ resets \in Nat /\ boots \in Nat
    BY DEF Init
  <2>6. issued = {} /\ tokens = {} /\ requests = {} /\ overtaken = FALSE
    BY DEF Init
  <2> QED
    BY <2>2, <2>3, <2>4, <2>5, <2>6 DEF TypeOK
<1>2. Users = {}
  BY DEF Init, Users, Exists, Roles
<1>3. EmptyIsNew /\ AdministratorRemains
  BY <1>2 DEF Init, EmptyIsNew, AdministratorRemains
<1>4. MadeOnAccept /\ InvitationsSound
  BY <1>2 DEF Init, MadeOnAccept, InvitationsSound
<1>5. FirstPasswords /\ SessionsFollowPasswords
  BY DEF Init, FirstPasswords, SessionsFollowPasswords
<1>6. GenerationsGrow /\ ResetRevokes
  BY DEF Init, GenerationsGrow, ResetRevokes
<1> QED
  BY <1>1, <1>3, <1>4, <1>5, <1>6 DEF IInv

(* The inductive invariant of accounts, sessions and invitations: its parts
   need each other's types and nothing else. *)
THEOREM AccountsInvariance == Spec => []IInv
<1>1. Init => IInv
  BY AccountsStart
<1>2. IInv /\ [Next]_vars => IInv'
  BY TypeStep, AdministratorStep, InvitationStep, SessionStep, GenerationStep DEF IInv
<1> QED
  BY <1>1, <1>2, PTL DEF Spec

(* The last administrator is neither demoted nor deleted, whatever claims the
   requests in flight carry (auth.service.ts:134, 153). *)
THEOREM AnAdministratorRemains == Spec => []AdministratorRemains
BY AccountsInvariance, PTL DEF IInv

(* An invitation is used once, and addresses are unique
   (invitations.service.ts:138). *)
THEOREM InvitationsAreSound == Spec => []InvitationsSound
BY AccountsInvariance, PTL DEF IInv

(* A session ends with the password it was opened with (auth.service.ts:143). *)
THEOREM SessionsFollow == Spec => []SessionsFollowPasswords
BY AccountsInvariance, PTL DEF IInv

(* No token outlives a reset while the process remembers its generation
   (plugins/auth.ts:45). *)
THEOREM ResetsRevoke == Spec => []ResetRevokes
BY AccountsInvariance, PTL DEF IInv
=============================================================================
