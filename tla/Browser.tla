------------------------------- MODULE Browser -------------------------------
(***************************************************************************)
(* The session of one browser: its tabs, the refresh cookie they share and *)
(* the single-use refresh tokens of the server (web/src/lib/api.ts,        *)
(* auth.routes.ts).  Every fetch is a request that is served and a reply   *)
(* that arrives, in any order, and either may be lost.  The access token   *)
(* of a tab is that of the user it shows; a 401 may come at any time.      *)
(***************************************************************************)
EXTENDS Naturals, Sequences, FiniteSets

CONSTANTS
  Tabs, Users, Calls,
  Nobody,      \* the user of a page that is signed out
  Closed,      \* the sender of a request whose page is gone
  MaxSignIns, MaxFaults   \* bounds: sign-ins; reloads, losses and revocations

VARIABLES
  live,        \* refresh tokens that are rows of the sessions table
  owner,       \* the user each refresh token was issued to, by number
  jar,         \* the refresh cookie, 0 when there is none
  user,        \* the user a tab shows, and whose access token it holds
  ready,       \* tabs whose first refresh has settled
  requests,    \* requests that are not served
  replies,     \* replies that have not arrived
  calls,       \* calls of api() outside /api/auth
  \* auxiliary
  spender,     \* the tab each refresh token was exchanged by
  raced,       \* a logout was under way beside a refresh or a sign-in
  signIns, reloads, lost, revoked

server   == <<live, owner, spender>>
messages == <<requests, replies>>
counters == <<signIns, reloads, lost, revoked>>
vars     == <<server, jar, user, ready, messages, calls, raced, counters>>

Tokens   == 1 .. Len(owner)
Senders  == Tabs \cup {Closed}
Kinds    == {"refresh", "signin", "logout"}
Requests == [kind : Kinds, tab : Senders, token : Nat, user : Users \cup {Nobody}]
Replies  == [kind : Kinds, tab : Senders, token : Nat, sent : Nat]
Statuses == {"idle", "sent", "waiting", "retried", "done"}

TypeOK ==
  /\ owner \in Seq(Users) /\ spender \in Seq(Senders \cup {Nobody})
  /\ Len(spender) = Len(owner) /\ live \subseteq Tokens
  /\ jar \in {0} \cup Tokens
  /\ user \in [Tabs -> Users \cup {Nobody}] /\ ready \in [Tabs -> BOOLEAN]
  /\ requests \subseteq Requests /\ replies \subseteq Replies
  /\ calls \in [Calls -> [status : Statuses, tab : Tabs]]
  /\ raced \in BOOLEAN
  /\ {signIns, reloads, lost, revoked} \subseteq Nat

RefreshRequest(t, k) == [kind |-> "refresh", tab |-> t, token |-> k, user |-> Nobody]

Faults == reloads + lost + revoked

(* Something of the given kinds is under way from t. *)
Under(t, kinds) == \E m \in requests \cup replies : m.tab = t /\ m.kind \in kinds

(* Pages are loaded, and bootstrapSession() asks for a refresh. *)
Init ==
  /\ live = {} /\ owner = <<>> /\ spender = <<>> /\ jar = 0
  /\ user = [t \in Tabs |-> Nobody] /\ ready = [t \in Tabs |-> FALSE]
  /\ requests = {RefreshRequest(t, 0) : t \in Tabs} /\ replies = {}
  /\ calls = [c \in Calls |-> [status |-> "idle", tab |-> CHOOSE t \in Tabs : TRUE]]
  /\ raced = FALSE
  /\ signIns = 0 /\ reloads = 0 /\ lost = 0 /\ revoked = 0

(* raced, for the messages that are under way after a step. *)
Races(now) ==
  raced' = (raced \/ \E m, n \in now : m.kind = "logout" /\ n.kind # "logout")

Send(m) ==
  /\ requests' = requests \cup {m}
  /\ Races(requests \cup replies \cup {m})

-----------------------------------------------------------------------------
(* What the user does *)

(* LoginPage, SetupPage and InvitePage, which no session keeps away. *)
SignIn(t, u) ==
  /\ signIns < MaxSignIns /\ ~Under(t, {"signin"})
  /\ Send([kind |-> "signin", tab |-> t, token |-> 0, user |-> u])
  /\ signIns' = signIns + 1
  /\ UNCHANGED <<server, jar, user, ready, replies, calls, reloads, lost, revoked>>

Logout(t) ==
  /\ user[t] # Nobody /\ ~Under(t, {"logout"})
  /\ Send([kind |-> "logout", tab |-> t, token |-> jar, user |-> Nobody])
  /\ UNCHANGED <<server, jar, user, ready, replies, calls, counters>>

(* A reload or a visit of an invitation link: the memory of the page is lost,
   what it sent is not. *)
Reload(t) ==
  /\ Faults < MaxFaults /\ reloads' = reloads + 1
  /\ LET gone(S) == {[m EXCEPT !.tab = IF @ = t THEN Closed ELSE @] : m \in S}
         sent == gone(requests) \cup {RefreshRequest(t, jar)}
     IN  /\ requests' = sent /\ replies' = gone(replies)
         /\ Races(sent \cup gone(replies))
  /\ user' = [user EXCEPT ![t] = Nobody] /\ ready' = [ready EXCEPT ![t] = FALSE]
  /\ calls' = [c \in Calls |-> IF calls[c].tab = t /\ calls[c].status # "idle"
                                 THEN [calls[c] EXCEPT !.status = "done"] ELSE calls[c]]
  /\ spender' = [k \in Tokens |-> IF spender[k] = t THEN Closed ELSE spender[k]]
  /\ UNCHANGED <<live, owner, jar, signIns, lost, revoked>>

-----------------------------------------------------------------------------
(* api() *)

Call(t, c) ==
  /\ user[t] # Nobody /\ calls[c].status = "idle"
  /\ calls' = [calls EXCEPT ![c] = [status |-> "sent", tab |-> t]]
  /\ UNCHANGED <<server, jar, user, ready, messages, raced, counters>>

(* An answer other than 401, a failure of the network, or any answer to the
   second attempt. *)
Answer(c) ==
  /\ calls[c].status \in {"sent", "retried"}
  /\ calls' = [calls EXCEPT ![c].status = "done"]
  /\ UNCHANGED <<server, jar, user, ready, messages, raced, counters>>

(* 401: the call waits for the refresh in flight, or starts one. *)
Unauthorized(c) ==
  LET t == calls[c].tab
  IN  /\ calls[c].status = "sent"
      /\ calls' = [calls EXCEPT ![c].status = "waiting"]
      /\ IF Under(t, {"refresh"}) THEN UNCHANGED <<requests, raced>>
                                  ELSE Send(RefreshRequest(t, jar))
      /\ UNCHANGED <<server, jar, user, ready, replies, counters>>

-----------------------------------------------------------------------------
(* The server *)

Reply(m, token) ==
  /\ requests' = requests \ {m}
  /\ replies' = replies \cup {[kind |-> m.kind, tab |-> m.tab, token |-> token, sent |-> m.token]}

Issue(u, left) ==
  /\ owner' = Append(owner, u)
  /\ live' = left \cup {Len(owner) + 1}

(* Fault: a refresh leaves the row of the old token behind. *)
RotateKeeps(m) ==
  IF m.token \in live
    THEN /\ Issue(owner[m.token], live)
         /\ spender' = [Append(spender, Nobody) EXCEPT ![m.token] = m.tab]
         /\ Reply(m, Len(owner) + 1)
    ELSE Reply(m, 0) /\ UNCHANGED server

(* Fault: a token that comes twice ends every session of its user. *)
RotateSuspicious(m) ==
  IF m.token \in live
    THEN /\ Issue(owner[m.token], live \ {m.token})
         /\ spender' = [Append(spender, Nobody) EXCEPT ![m.token] = m.tab]
         /\ Reply(m, Len(owner) + 1)
    ELSE /\ Reply(m, 0)
         /\ live' = {k \in live : m.token # 0 => owner[k] # owner[m.token]}
         /\ UNCHANGED <<owner, spender>>

(* POST /api/auth/refresh: the token is exchanged, or refused with a 401 that
   says nothing of the cookie. *)
Rotate(m) ==
  IF m.token \in live
    THEN /\ Issue(owner[m.token], live \ {m.token})
         /\ spender' = [Append(spender, Nobody) EXCEPT ![m.token] = m.tab]
         /\ Reply(m, Len(owner) + 1)
    ELSE Reply(m, 0) /\ UNCHANGED server

Serve(m) ==
  /\ m \in requests
  /\ \/ m.kind = "refresh" /\ Rotate(m)
     \/ /\ m.kind = "signin"
        /\ Issue(m.user, live) /\ spender' = Append(spender, Nobody)
        /\ Reply(m, Len(owner) + 1)
     \/ /\ m.kind = "logout"
        /\ live' = live \ {m.token} /\ Reply(m, 0)
        /\ UNCHANGED <<owner, spender>>
  /\ UNCHANGED <<jar, user, ready, calls, raced, counters>>

(* Thirty days, another password, a factory reset. *)
Revoke(k) ==
  /\ k \in live /\ Faults < MaxFaults
  /\ live' = live \ {k} /\ revoked' = revoked + 1
  /\ UNCHANGED <<owner, spender, jar, user, ready, messages, calls, raced, signIns, reloads,
                 lost>>

-----------------------------------------------------------------------------
(* What arrives in a tab *)

(* tryRefresh() of t ends: its calls go on as u, or fail and sign the page out. *)
Refreshed(t, u) ==
  LET waiting == {c \in Calls : calls[c].tab = t /\ calls[c].status = "waiting"}
  IN  /\ ready' = [ready EXCEPT ![t] = TRUE]
      /\ user' = [user EXCEPT ![t] = IF u # Nobody THEN u
                                     ELSE IF waiting # {} THEN Nobody ELSE @]
      /\ calls' = [c \in Calls |->
                     IF c \in waiting
                       THEN [calls[c] EXCEPT !.status = IF u # Nobody THEN "retried" ELSE "done"]
                       ELSE calls[c]]

Becomes(t, u) == user' = [user EXCEPT ![t] = u] /\ UNCHANGED <<ready, calls>>

(* The browser stores the cookie of the reply, the page applies what it says. *)
Deliver(r) ==
  /\ r \in replies /\ replies' = replies \ {r}
  /\ jar' = IF r.kind = "refresh" /\ r.token = 0 THEN jar ELSE r.token
  /\ IF r.tab = Closed THEN UNCHANGED <<user, ready, calls>>
     ELSE CASE r.kind = "refresh" -> Refreshed(r.tab, IF r.token = 0 THEN Nobody ELSE owner[r.token])
            [] r.kind = "signin"  -> Becomes(r.tab, owner[r.token])
            [] r.kind = "logout"  -> Becomes(r.tab, Nobody)
  /\ UNCHANGED <<server, requests, raced, counters>>

(* Fault: the promise of the refresh is never settled. *)
FailedForgotten(t, kind) ==
  CASE kind = "logout" -> Becomes(t, Nobody)
    [] OTHER           -> UNCHANGED <<user, ready, calls>>

(* fetch() rejects in t. *)
Failed(t, kind) ==
  CASE kind = "refresh" -> Refreshed(t, Nobody)
    [] kind = "logout"  -> Becomes(t, Nobody)
    [] kind = "signin"  -> UNCHANGED <<user, ready, calls>>

(* A message is lost; the cookie of a reply may have been stored all the same. *)
Lose(m) ==
  /\ m.tab # Closed => Faults < MaxFaults
  /\ lost' = IF m.tab = Closed /\ lost > 0 THEN lost ELSE lost + 1
  /\ requests' = requests \ {m} /\ replies' = replies \ {m}
  /\ \/ UNCHANGED jar
     \/ /\ m \in replies
        /\ jar' = IF m.kind = "refresh" /\ m.token = 0 THEN jar ELSE m.token
  /\ IF m.tab = Closed THEN UNCHANGED <<user, ready, calls>> ELSE Failed(m.tab, m.kind)
  /\ UNCHANGED <<server, raced, signIns, reloads, revoked>>

-----------------------------------------------------------------------------
Next ==
  \/ \E t \in Tabs, u \in Users : SignIn(t, u)
  \/ \E t \in Tabs : Logout(t) \/ Reload(t)
  \/ \E t \in Tabs, c \in Calls : Call(t, c)
  \/ \E c \in Calls : Answer(c) \/ Unauthorized(c)
  \/ \E m \in requests : Serve(m)
  \/ \E r \in replies : Deliver(r)
  \/ \E m \in requests \cup replies : Lose(m)
  \/ \E k \in live : Revoke(k)

Spec == Init /\ [][Next]_vars

(* The server serves and the network delivers, or reports a failure. *)
Network ==
  \/ \E m \in requests : Serve(m)
  \/ \E r \in replies : Deliver(r)
  \/ \E c \in Calls : Answer(c)

FairSpec == Spec /\ WF_vars(Network)

-----------------------------------------------------------------------------
(* Properties *)

(* However many tabs refresh at once, the browser keeps its session: a cookie
   it holds is live, or the live one or the end of the session is on its way.
   A page is refused a refresh because another page was first, never because of
   itself: one page sends each token once (auth.service.ts:107, api.ts:36). *)
SessionKept ==
  lost = 0 /\ revoked = 0 /\ ~raced =>
    /\ jar # 0 => jar \in live \/ \E r \in replies : r.token \in live \/ r.kind = "logout"
    /\ \A r \in replies :
         r.kind = "refresh" /\ r.token = 0 /\ r.sent # 0 /\ r.tab # Closed
           => spender[r.sent] \notin {Nobody, r.tab}

(* Who signed in once holds every session that is live: rotation and logout
   leave none behind (auth.service.ts:108, auth.routes.ts:108-111). *)
NoSessionLeftBehind ==
  signIns = 1 /\ lost = 0 /\ ~raced =>
    live \subseteq {jar} \cup {r.token : r \in replies}

(* The browser keeps the session it has, and leaves none behind. *)
SessionsAreSound == SessionKept /\ NoSessionLeftBehind

(* Once nobody reloads any more every page is ready and no call waits for a
   refresh, whatever was lost (api.ts:44, 107). *)
PagesSettle ==
  <>[]((\A t \in Tabs : ready[t]) /\ (\A c \in Calls : calls[c].status # "waiting"))
=============================================================================
