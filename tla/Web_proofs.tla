----------------------------- MODULE Web_proofs -----------------------------
(***************************************************************************)
(* The browser keeps its session and leaves none behind; no page goes on   *)
(* showing what its own change has replaced; a form stores what was typed  *)
(* and no more; what is dropped is what the dialog showed; the SQL page    *)
(* keeps what is typed; and the grid changes the rows that were picked:    *)
(* for any number of tabs, calls, requests, schemas, connections, rows and *)
(* changes.                                                                *)
(***************************************************************************)
EXTENDS MCWeb, DataGrid, SequenceTheorems, FiniteSetTheorems, TLAPS

-----------------------------------------------------------------------------
(* What is on its way and what is stored agree in kind, and a token whose row is
   there has not been exchanged. *)
Known ==
  /\ \A m \in requests :
       /\ m.token \in {0} \cup B!Tokens
       /\ m.kind = "signin" => m.user \in Users
  /\ \A r \in replies :
       /\ r.token \in {0} \cup B!Tokens /\ r.sent \in {0} \cup B!Tokens
       /\ r.kind = "signin" => r.token # 0
       /\ r.kind = "logout" => r.token = 0
  /\ \A k \in live : spender[k] = Nobody

(* A page has one refresh under way. *)
OneRefresh ==
  \A m, n \in requests \cup replies :
    m.kind = "refresh" /\ n.kind = "refresh" /\ m.tab = n.tab /\ m.tab # Closed => m = n

(* A token that is on its way to the browser is in nobody's hands yet. *)
UnseenTokens ==
  \A r \in replies : r.token # 0 =>
    /\ jar # r.token /\ spender[r.token] = Nobody
    /\ revoked = 0 => r.token \in live
    /\ \A m \in requests : m.token # r.token
    /\ \A q \in replies : q.sent # r.token /\ (q.token = r.token => q = r)

(* A page that has exchanged a token does not send it again: the next one is on
   its way. *)
SpentOnce ==
  lost = 0 => \A t \in Tabs, k \in B!Tokens : spender[k] = t =>
    /\ \A m \in requests : m.kind = "refresh" /\ m.tab = t => m.token # k
    /\ jar = k => \E r \in replies : r.kind = "refresh" /\ r.tab = t /\ r.token # 0

(* A logout that met no refresh and no sign-in is alone on the network. *)
Apart ==
  ~raced => \A m, n \in requests \cup replies : m.kind = "logout" => n.kind = "logout"

(* A token whose row is gone, and which no page exchanged, was logged out. *)
LoggedOut ==
  lost = 0 /\ revoked = 0 /\ ~raced =>
    \A k \in B!Tokens \ live : spender[k] = Nobody =>
      /\ \A m \in requests : m.kind = "refresh" => m.token # k
      /\ jar = k => \E r \in replies : r.kind = "logout"

(* Who signed in once has one session, that of the newest token. *)
OneSession ==
  signIns <= 1 =>
    /\ live \subseteq {Len(owner)}
    /\ \A r \in replies : r.token # 0 => r.token = Len(owner)
    /\ \A m \in requests : m.kind = "signin" =>
         /\ signIns = 1 /\ owner = <<>>
         /\ \A n \in requests : n.kind = "signin" => m = n
    /\ signIns = 0 => owner = <<>>

(* That session is in the jar or on its way to it, and a logout ends it. *)
Held ==
  signIns <= 1 /\ lost = 0 /\ ~raced =>
    /\ live \subseteq {jar} \cup {r.token : r \in replies}
    /\ \A m \in requests : m.kind = "logout" => live \subseteq {m.token}
    /\ \A r \in replies : r.kind = "logout" => live = {}

(* The inductive invariant of the browser. *)
SessionInv ==
  /\ B!TypeOK /\ Known /\ OneRefresh /\ UnseenTokens /\ SpentOnce
  /\ Apart /\ LoggedOut /\ OneSession /\ Held /\ B!SessionKept

-----------------------------------------------------------------------------
(* At first there is no session and nothing under way. *)
LEMMA BrowserInit == B!Init => SessionInv
<1> SUFFICES ASSUME B!Init PROVE SessionInv
    OBVIOUS
<1> USE TabsAssumption DEF B!Init
<1>1. B!Tokens = {} /\ \A m \in requests : m \in B!Requests /\ m.kind = "refresh" /\ m.token = 0
  BY DEF B!Tokens, B!RefreshRequest, B!Requests, B!Kinds, B!Senders
<1>2. B!TypeOK
  <2>1. (CHOOSE t \in Tabs : TRUE) \in Tabs
    OBVIOUS
  <2>2. calls \in [ApiCalls -> [status : B!Statuses, tab : Tabs]]
    BY <2>1 DEF B!Statuses
  <2>3. owner \in Seq(Users) /\ spender \in Seq(B!Senders \cup {Nobody}) /\ Len(spender) = Len(owner)
    OBVIOUS
  <2>4. requests \subseteq B!Requests
    BY <1>1
  <2>5. replies \subseteq B!Replies /\ raced \in BOOLEAN
    OBVIOUS
  <2>7. {signIns, reloads, lost, revoked} \subseteq Nat
    OBVIOUS
  <2>6. user \in [Tabs -> Users \cup {Nobody}] /\ ready \in [Tabs -> BOOLEAN]
    OBVIOUS
  <2> QED
    BY <1>1, <2>2, <2>3, <2>4, <2>5, <2>6, <2>7 DEF B!TypeOK
<1>3. OneRefresh
  BY DEF OneRefresh, B!RefreshRequest
<1>4. Known /\ UnseenTokens /\ SpentOnce /\ Apart /\ LoggedOut /\ OneSession /\ Held /\ B!SessionKept
  BY <1>1 DEF Known, UnseenTokens, SpentOnce, Apart, LoggedOut, OneSession, Held, B!SessionKept
<1> QED
  BY <1>2, <1>3, <1>4 DEF SessionInv

(* What is under way is a request or a reply. *)
LEMMA MessagesDiffer == ASSUME B!TypeOK PROVE requests \cap replies = {}
<1>1. ASSUME NEW m \in B!Requests PROVE "sent" \notin DOMAIN m
  BY DEF B!Requests
<1>2. ASSUME NEW r \in B!Replies PROVE "sent" \in DOMAIN r
  BY DEF B!Replies
<1> QED
  BY <1>1, <1>2 DEF B!TypeOK

(* An element of a sequence. *)
LEMMA ElementOf == ASSUME NEW X, NEW s \in Seq(X), NEW i \in 1 .. Len(s) PROVE s[i] \in X
OBVIOUS

(* One element of a sequence is replaced. *)
LEMMA Replaced ==
  ASSUME NEW X, NEW s \in Seq(X), NEW i \in 1 .. Len(s), NEW x \in X, NEW z, z = [s EXCEPT ![i] = x]
  PROVE  z \in Seq(X) /\ Len(z) = Len(s) /\ \A k \in 1 .. Len(s) : z[k] = IF k = i THEN x ELSE s[k]
OBVIOUS

(* What is sent carries the cookie as it is, and no page has two refreshes. *)
LEMMA SendStep ==
  ASSUME SessionInv, NEW m \in B!Requests, B!Send(m), UNCHANGED <<B!server, jar, replies, lost, revoked>>,
         m.kind = "signin" => /\ m.user \in Users /\ m.token = 0 /\ signIns' = signIns + 1,
         m.kind # "signin" => m.token = jar /\ UNCHANGED signIns,
         m.kind = "refresh" => m.tab \in Tabs /\ ~B!Under(m.tab, {"refresh"}),
         user' \in [Tabs -> Users \cup {Nobody}], ready' \in [Tabs -> BOOLEAN],
         calls' \in [ApiCalls -> [status : B!Statuses, tab : Tabs]], reloads' \in Nat
  PROVE  SessionInv'
<1> USE TabsAssumption DEF SessionInv, B!server
<1>0. /\ requests' = requests \cup {m} /\ UNCHANGED <<B!Tokens, replies>>
      /\ requests \subseteq B!Requests /\ replies \subseteq B!Replies /\ jar \in {0} \cup B!Tokens
      /\ raced' = (raced \/ \E x, n \in requests \cup replies \cup {m} :
                              x.kind = "logout" /\ n.kind # "logout")
  BY DEF B!Send, B!Races, B!Tokens, B!TypeOK
<1>1. B!TypeOK'
  BY <1>0 DEF B!TypeOK, B!Tokens
<1>2. Known'
  BY <1>0 DEF Known, B!Tokens
<1>3. OneRefresh'
  BY <1>0 DEF OneRefresh, B!Under
<1>4. UnseenTokens'
  <2>1. \A r \in replies : r.token # 0 => m.token # r.token
    BY <1>0 DEF UnseenTokens
  <2> QED
    BY <1>0, <2>1 DEF UnseenTokens
<1>5. SpentOnce'
  <2> SUFFICES ASSUME lost = 0, NEW t \in Tabs, NEW k \in B!Tokens, spender[k] = t,
                      m.kind = "refresh", m.tab = t
               PROVE  m.token # k
      BY <1>0 DEF SpentOnce
  <2>1. \A r \in replies : ~(r.kind = "refresh" /\ r.tab = t)
    BY DEF B!Under
  <2> QED
    BY <2>1 DEF SpentOnce
<1>6. Apart'
  BY <1>0 DEF Apart
<1>7. LoggedOut'
  <2> SUFFICES ASSUME lost = 0, revoked = 0, ~raced', NEW k \in B!Tokens \ live, spender[k] = Nobody,
                      m.kind = "refresh", m.token = k
               PROVE  FALSE
      BY <1>0 DEF LoggedOut
  <2>1. \E r \in replies : r.kind = "logout"
    BY <1>0 DEF LoggedOut
  <2> QED
    BY <1>0, <2>1
<1>8. OneSession'
  <2>1. CASE m.kind = "signin"
    <3> SUFFICES ASSUME signIns' <= 1 PROVE OneSession'
        BY DEF OneSession
    <3>1. signIns = 0 /\ signIns' = 1
      BY <2>1 DEF B!TypeOK
    <3>2. owner = <<>> /\ \A n \in requests : n.kind # "signin"
      BY <3>1 DEF OneSession
    <3> QED
      BY <1>0, <3>1, <3>2 DEF OneSession
  <2>2. CASE m.kind # "signin"
    BY <1>0, <2>2 DEF OneSession
  <2> QED
    BY <2>1, <2>2
<1>9. Held'
  <2> SUFFICES ASSUME signIns' <= 1, lost = 0, ~raced' PROVE Held'
      BY DEF Held
  <2>1. signIns <= 1 /\ ~raced
    BY <1>0 DEF B!TypeOK
  <2>2. ASSUME m.kind = "logout" PROVE live \subseteq {m.token}
    <3>1. \A r \in replies : r.kind = "logout" /\ r.token = 0
      BY <1>0, <2>2 DEF Known
    <3> QED
      BY <1>0, <2>1, <2>2, <3>1 DEF Held, B!TypeOK, B!Tokens
  <2> QED
    BY <1>0, <2>1, <2>2 DEF Held
<1>10. B!SessionKept'
  BY <1>0 DEF B!SessionKept
<1> QED
  BY <1>1, <1>2, <1>3, <1>4, <1>5, <1>6, <1>7, <1>8, <1>9, <1>10

(* The calls of a page change neither the session nor what is under way. *)
LEMMA StayStep ==
  ASSUME SessionInv, UNCHANGED <<B!server, jar, B!messages, raced, signIns, lost, revoked>>,
         user' \in [Tabs -> Users \cup {Nobody}], ready' \in [Tabs -> BOOLEAN],
         calls' \in [ApiCalls -> [status : B!Statuses, tab : Tabs]], reloads' \in Nat
  PROVE  SessionInv'
<1> USE DEF SessionInv, B!server, B!messages
<1>1. UNCHANGED B!Tokens
  BY DEF B!Tokens
<1>2. B!TypeOK' /\ Known'
  BY <1>1 DEF B!TypeOK, Known
<1>3. OneRefresh' /\ UnseenTokens' /\ SpentOnce'
  BY <1>1 DEF OneRefresh, UnseenTokens, SpentOnce
<1>4. Apart' /\ LoggedOut' /\ OneSession' /\ Held' /\ B!SessionKept'
  BY <1>1 DEF Apart, LoggedOut, OneSession, Held, B!SessionKept
<1> QED
  BY <1>2, <1>3, <1>4

(* A reload leaves the messages of the page under way, from nobody. *)
LEMMA ReloadStep ==
  ASSUME SessionInv, NEW t \in Tabs, B!Reload(t)
  PROVE  SessionInv'
<1> USE TabsAssumption DEF SessionInv
<1> DEFINE Gone(m) == [m EXCEPT !.tab = IF @ = t THEN Closed ELSE @]
<1> DEFINE new == B!RefreshRequest(t, jar)
<1>0. /\ UNCHANGED <<B!Tokens, live, owner, jar, signIns, lost, revoked>>
      /\ jar \in {0} \cup B!Tokens /\ live \subseteq B!Tokens /\ B!Tokens \subseteq Nat /\ 0 \notin B!Tokens
      /\ requests' = {Gone(m) : m \in requests} \cup {new}
      /\ replies' = {Gone(m) : m \in replies}
      /\ raced' = (raced \/ \E m, n \in requests' \cup replies' : m.kind = "logout" /\ n.kind # "logout")
      /\ spender' = [k \in B!Tokens |-> IF spender[k] = t THEN Closed ELSE spender[k]]
      /\ Len(spender) = Len(owner)
  BY DEF B!Reload, B!Races, B!Tokens, B!TypeOK
<1>1. new \in B!Requests /\ new.kind = "refresh" /\ new.tab = t /\ new.token = jar
  BY <1>0 DEF B!RefreshRequest, B!Requests, B!Kinds, B!Senders
<1>2. ASSUME NEW m \in requests
      PROVE  /\ Gone(m) \in B!Requests
             /\ Gone(m).kind = m.kind /\ Gone(m).token = m.token /\ Gone(m).user = m.user
             /\ Gone(m).tab = IF m.tab = t THEN Closed ELSE m.tab
             /\ m.tab # t => Gone(m) = m
  BY DEF B!TypeOK, B!Requests, B!Senders
<1>3. ASSUME NEW m \in replies
      PROVE  /\ Gone(m) \in B!Replies
             /\ Gone(m).kind = m.kind /\ Gone(m).token = m.token /\ Gone(m).sent = m.sent
             /\ Gone(m).tab = IF m.tab = t THEN Closed ELSE m.tab
             /\ m.tab # t => Gone(m) = m
  BY DEF B!TypeOK, B!Replies, B!Senders
<1> HIDE DEF Gone, new
<1>4. /\ \A q \in requests' : q = new \/ \E m \in requests : q = Gone(m)
      /\ \A q \in replies' : \E m \in replies : q = Gone(m)
      /\ \A m \in replies : Gone(m) \in replies'
  BY <1>0
<1>5. \A k \in B!Tokens : spender'[k] = IF spender[k] = t THEN Closed ELSE spender[k]
  BY <1>0
<1>6. B!TypeOK'
  <2>1. requests' \subseteq B!Requests /\ replies' \subseteq B!Replies
    BY <1>1, <1>2, <1>3, <1>4
  <2>2. spender' \in Seq(B!Senders \cup {Nobody}) /\ Len(spender') = Len(owner)
    BY <1>0 DEF B!TypeOK, B!Tokens, B!Senders
  <2>3. calls' \in [ApiCalls -> [status : B!Statuses, tab : Tabs]]
    BY DEF B!Reload, B!TypeOK, B!Statuses
  <2>4. raced' \in BOOLEAN
    BY <1>0 DEF B!TypeOK
  <2> QED
    BY <1>0, <2>1, <2>2, <2>3, <2>4 DEF B!TypeOK, B!Reload
<1>7. Known'
  BY <1>0, <1>1, <1>2, <1>3, <1>4, <1>5 DEF Known
<1>8. OneRefresh'
  BY <1>1, <1>2, <1>3, <1>4 DEF OneRefresh
<1>9. UnseenTokens'
  <2> SUFFICES ASSUME NEW r \in replies, Gone(r).token # 0
               PROVE  /\ jar # r.token /\ spender'[r.token] = Nobody
                      /\ revoked = 0 => r.token \in live
                      /\ \A m \in requests' : m.token # r.token
                      /\ \A q \in replies' : q.sent # r.token /\ (q.token = r.token => q = Gone(r))
      BY <1>0, <1>3, <1>4 DEF UnseenTokens
  <2>1. r.token \in B!Tokens /\ r.token # 0
    BY <1>3 DEF Known
  <2> QED
    BY <1>0, <1>1, <1>2, <1>3, <1>4, <1>5, <2>1 DEF UnseenTokens
<1>10. SpentOnce'
  <2> SUFFICES ASSUME lost = 0, NEW s \in Tabs, NEW k \in B!Tokens, spender'[k] = s
               PROVE  /\ \A m \in requests' : m.kind = "refresh" /\ m.tab = s => m.token # k
                      /\ jar = k => \E r \in replies' : r.kind = "refresh" /\ r.tab = s /\ r.token # 0
      BY <1>0 DEF SpentOnce
  <2>1. s # t /\ spender[k] = s
    BY <1>5
  <2>2. ASSUME NEW m \in requests', m.kind = "refresh", m.tab = s PROVE m.token # k
    BY <1>1, <1>2, <1>4, <2>1, <2>2 DEF SpentOnce
  <2>3. ASSUME jar = k PROVE \E r \in replies' : r.kind = "refresh" /\ r.tab = s /\ r.token # 0
    <3>1. PICK r \in replies : r.kind = "refresh" /\ r.tab = s /\ r.token # 0
      BY <2>1, <2>3 DEF SpentOnce
    <3> QED
      BY <1>3, <1>4, <2>1, <3>1
  <2> QED
    BY <2>2, <2>3
<1>11. Apart'
  BY <1>0 DEF Apart
<1>12. LoggedOut'
  <2> SUFFICES ASSUME lost = 0, revoked = 0, ~raced', NEW k \in B!Tokens \ live, spender'[k] = Nobody
               PROVE  /\ \A m \in requests' : m.kind = "refresh" => m.token # k
                      /\ jar = k => \E r \in replies' : r.kind = "logout"
      BY <1>0 DEF LoggedOut
  <2>1. spender[k] = Nobody /\ ~raced
    BY <1>0, <1>5
  <2>2. ASSUME jar = k PROVE \E r \in replies' : r.kind = "logout"
    BY <1>3, <1>4, <2>1, <2>2 DEF LoggedOut
  <2>3. jar # k
    BY <1>0, <1>1, <2>2
  <2> QED
    BY <1>1, <1>2, <1>4, <2>1, <2>2, <2>3 DEF LoggedOut
<1>13. OneSession'
  BY <1>0, <1>1, <1>2, <1>3, <1>4 DEF OneSession
<1>14. Held'
  <2> SUFFICES ASSUME signIns <= 1, lost = 0, ~raced' PROVE Held'
      BY <1>0 DEF Held
  <2>1. ~raced
    BY <1>0
  <2>2. live \subseteq {jar} \cup {r.token : r \in replies'}
    BY <1>3, <1>4, <2>1 DEF Held
  <2> QED
    BY <1>0, <1>1, <1>2, <1>3, <1>4, <2>1, <2>2 DEF Held
<1>15. B!SessionKept'
  <2> SUFFICES ASSUME lost = 0, revoked = 0, ~raced' PROVE B!SessionKept'
      BY <1>0 DEF B!SessionKept
  <2>1. ~raced
    BY <1>0
  <2>2. jar # 0 => jar \in live \/ \E r \in replies' : r.token \in live \/ r.kind = "logout"
    BY <1>3, <1>4, <2>1 DEF B!SessionKept
  <2>3. ASSUME NEW r \in replies', r.kind = "refresh", r.token = 0, r.sent # 0, r.tab # Closed
        PROVE  spender'[r.sent] \notin {Nobody, r.tab}
    <3>1. PICK m \in replies : r = Gone(m)
      BY <1>4
    <3>2. m = r /\ r.tab # t /\ r.sent \in B!Tokens /\ r.tab \in Tabs
      BY <1>3, <2>3, <3>1 DEF Known, B!TypeOK, B!Replies, B!Senders
    <3> QED
      BY <1>5, <2>1, <2>3, <3>2 DEF B!SessionKept
  <2> QED
    BY <1>0, <2>2, <2>3 DEF B!SessionKept
<1> QED
  BY <1>6, <1>7, <1>8, <1>9, <1>10, <1>11, <1>12, <1>13, <1>14, <1>15

(* Tokens that are ended from outside are live no more; nothing is said of them. *)
LEMMA RevokeStep ==
  ASSUME SessionInv, NEW k \in live, B!Revoke(k)
  PROVE  SessionInv'
<1> USE DEF SessionInv, B!Revoke, B!messages
<1>1. /\ UNCHANGED B!Tokens /\ live' \subseteq live /\ revoked' # 0 /\ revoked' \in Nat
  BY DEF B!Tokens, B!TypeOK
<1>2. B!TypeOK' /\ Known'
  BY <1>1 DEF B!TypeOK, Known
<1>3. OneRefresh' /\ UnseenTokens' /\ SpentOnce'
  BY <1>1 DEF OneRefresh, UnseenTokens, SpentOnce
<1>4. Apart' /\ LoggedOut' /\ OneSession' /\ Held' /\ B!SessionKept'
  BY <1>1 DEF Apart, LoggedOut, OneSession, Held, B!SessionKept
<1> QED
  BY <1>2, <1>3, <1>4

(* A new token is unknown to everybody until its reply arrives. *)
LEMMA IssueStep ==
  ASSUME SessionInv, NEW m \in requests, NEW u \in Users, m.kind \in {"refresh", "signin"},
         NEW gone, gone = IF m.kind = "refresh" THEN {m.token} ELSE {}, gone \subseteq live,
         B!Issue(u, live \ gone), B!Reply(m, Len(owner) + 1),
         spender' = IF m.kind = "refresh" THEN [Append(spender, Nobody) EXCEPT ![m.token] = m.tab]
                                          ELSE Append(spender, Nobody),
         UNCHANGED <<jar, user, ready, calls, raced, B!counters>>
  PROVE  SessionInv'
<1> USE TabsAssumption DEF SessionInv, B!counters
<1> DEFINE n == Len(owner) + 1
<1> DEFINE r == [kind |-> m.kind, tab |-> m.tab, token |-> n, sent |-> m.token]
<1>0. /\ requests' = requests \ {m} /\ replies' = replies \cup {r}
      /\ owner' \in Seq(Users) /\ Len(owner') = n /\ n \in Nat \ {0}
      /\ B!Tokens' = B!Tokens \cup {n} /\ n \notin B!Tokens /\ 0 \notin B!Tokens
      /\ live' = (live \ gone) \cup {n} /\ live \subseteq B!Tokens /\ B!Tokens \subseteq Nat
      /\ m \in B!Requests /\ m.token \in {0} \cup B!Tokens /\ jar \in {0} \cup B!Tokens
      /\ gone \subseteq B!Tokens
  BY DEF B!Issue, B!Reply, B!Tokens, B!TypeOK, Known
<1>1. r \in B!Replies /\ r.kind = m.kind /\ r.tab = m.tab /\ r.token = n /\ r.sent = m.token
  BY <1>0 DEF B!Replies, B!Requests
<1> HIDE DEF r
<1>2. /\ spender' \in Seq(B!Senders \cup {Nobody}) /\ Len(spender') = n /\ spender'[n] = Nobody
      /\ \A k \in B!Tokens : spender'[k] = IF k \in gone THEN m.tab ELSE spender[k]
  <2>1. m.tab \in B!Senders /\ spender \in Seq(B!Senders \cup {Nobody}) /\ Len(spender) = n - 1
    BY <1>0 DEF B!TypeOK, B!Requests
  <2>2. /\ Append(spender, Nobody) \in Seq(B!Senders \cup {Nobody}) /\ Len(Append(spender, Nobody)) = n
        /\ Append(spender, Nobody)[n] = Nobody
        /\ \A k \in B!Tokens : Append(spender, Nobody)[k] = spender[k]
    BY <2>1 DEF B!Tokens
  <2>3. CASE m.kind = "refresh"
    <3> DEFINE longer == Append(spender, Nobody)
    <3>1. /\ m.token \in 1 .. Len(longer) /\ gone = {m.token} /\ n \notin gone
          /\ spender' = [longer EXCEPT ![m.token] = m.tab]
      BY <1>0, <2>2, <2>3 DEF B!Tokens
    <3>2. /\ longer \in Seq(B!Senders \cup {Nobody}) /\ B!Tokens \cup {n} = 1 .. Len(longer)
          /\ Len(longer) = n /\ longer[n] = Nobody /\ \A k \in B!Tokens : longer[k] = spender[k]
      BY <1>0, <2>2 DEF B!Tokens
    <3> HIDE DEF longer
    <3> DEFINE X == B!Senders \cup {Nobody}
    <3>3. m.tab \in X
      BY <2>1
    <3> HIDE DEF X
    <3>4. /\ spender' \in Seq(X) /\ Len(spender') = Len(longer)
          /\ \A k \in 1 .. Len(longer) : spender'[k] = IF k = m.token THEN m.tab ELSE longer[k]
      <4>1. longer \in Seq(X)
        BY <3>2 DEF X
      <4> DEFINE i == m.token
      <4> DEFINE x == m.tab
      <4> DEFINE z == spender'
      <4>2. i \in 1 .. Len(longer) /\ x \in X /\ z = [longer EXCEPT ![i] = x]
        BY <3>1, <3>3
      <4> HIDE DEF i, x, z
      <4>3. z \in Seq(X) /\ Len(z) = Len(longer)
            /\ \A k \in 1 .. Len(longer) : z[k] = IF k = i THEN x ELSE longer[k]
        BY <4>1, <4>2, Replaced
      <4> QED
        BY <4>3 DEF i, x, z
    <3> QED
      BY <3>1, <3>2, <3>4 DEF X
  <2>4. CASE m.kind # "refresh"
    BY <2>2, <2>4
  <2> QED
    BY <2>3, <2>4
<1> HIDE DEF n
<1>3. B!TypeOK'
  BY <1>0, <1>1, <1>2 DEF B!TypeOK
<1>4. Known'
  BY <1>0, <1>1, <1>2 DEF Known
<1>5. OneRefresh'
  BY <1>0, <1>1, MessagesDiffer DEF OneRefresh
<1>6. UnseenTokens'
  <2> SUFFICES ASSUME NEW q \in replies', q.token # 0
               PROVE  /\ jar # q.token /\ spender'[q.token] = Nobody
                      /\ revoked = 0 => q.token \in live'
                      /\ \A x \in requests' : x.token # q.token
                      /\ \A x \in replies' : x.sent # q.token /\ (x.token = q.token => x = q)
      BY DEF UnseenTokens
  <2>1. CASE q = r
    BY <1>0, <1>1, <1>2, <2>1 DEF Known
  <2>2. CASE q \in replies
    <3>1. q.token \in B!Tokens /\ q.token \notin gone
      BY <1>0, <2>2 DEF Known, UnseenTokens
    <3> QED
      BY <1>0, <1>1, <1>2, <2>2, <3>1 DEF UnseenTokens
  <2> QED
    BY <1>0, <2>1, <2>2
<1>7. SpentOnce'
  <2> SUFFICES ASSUME lost = 0, NEW t \in Tabs, NEW k \in B!Tokens', spender'[k] = t
               PROVE  /\ \A x \in requests' : x.kind = "refresh" /\ x.tab = t => x.token # k
                      /\ jar = k => \E q \in replies' : q.kind = "refresh" /\ q.tab = t /\ q.token # 0
      BY DEF SpentOnce
  <2>1. k \in B!Tokens
    BY <1>0, <1>2
  <2>2. CASE k \in gone
    <3>1. m.tab = t /\ m.kind = "refresh"
      BY <1>2, <2>1, <2>2
    <3>2. \A x \in requests' : ~(x.kind = "refresh" /\ x.tab = t)
      BY <1>0, <3>1 DEF OneRefresh
    <3> QED
      BY <1>0, <1>1, <3>1, <3>2
  <2>3. CASE k \notin gone
    <3>1. spender[k] = t
      BY <1>2, <2>1, <2>3
    <3> QED
      BY <1>0, <2>1, <3>1 DEF SpentOnce
  <2> QED
    BY <2>2, <2>3
<1>8. Apart'
  BY <1>0, <1>1 DEF Apart
<1>9. LoggedOut'
  <2> SUFFICES ASSUME lost = 0, revoked = 0, ~raced, NEW k \in B!Tokens' \ live', spender'[k] = Nobody
               PROVE  /\ \A x \in requests' : x.kind = "refresh" => x.token # k
                      /\ jar = k => \E q \in replies' : q.kind = "logout"
      BY DEF LoggedOut
  <2>1. k \in B!Tokens \ live
    BY <1>0, <1>2 DEF B!Requests, B!Senders
  <2> QED
    BY <1>0, <1>2, <2>1 DEF LoggedOut
<1>10. OneSession'
  <2> SUFFICES ASSUME signIns <= 1 PROVE OneSession'
      BY DEF OneSession
  <2>1. live' \subseteq {n}
    BY <1>0 DEF OneSession, B!Tokens
  <2>2. signIns # 0
    BY <1>0 DEF OneSession, B!Tokens
  <2>3. \A x \in requests' : x.kind # "signin"
    BY <1>0 DEF OneSession, B!Tokens
  <2>4. \A q \in replies : q.token = 0
    BY <1>0 DEF OneSession, UnseenTokens, Known, B!Tokens
  <2> QED
    BY <1>0, <1>1, <2>1, <2>2, <2>3, <2>4 DEF OneSession
<1>11. Held'
  <2> SUFFICES ASSUME signIns <= 1, lost = 0, ~raced PROVE Held'
      BY DEF Held
  <2>1. live' \subseteq {n}
    BY <1>0 DEF OneSession, B!Tokens
  <2>2. /\ \A x \in requests' : x.kind # "logout"
        /\ \A x \in replies' : x.kind # "logout"
    BY <1>0, <1>1 DEF Apart
  <2> QED
    BY <1>0, <1>1, <2>1, <2>2 DEF Held
<1>12. B!SessionKept'
  <2> SUFFICES ASSUME lost = 0, revoked = 0, ~raced PROVE B!SessionKept'
      BY DEF B!SessionKept
  <2>1. jar # 0 => jar \in live' \/ \E q \in replies' : q.token \in live' \/ q.kind = "logout"
    BY <1>0, <1>1
  <2>2. ASSUME NEW q \in replies', q.kind = "refresh", q.token = 0, q.sent # 0, q.tab # Closed
        PROVE  spender'[q.sent] \notin {Nobody, q.tab}
    <3>1. q \in replies /\ q.sent \in B!Tokens
      BY <1>0, <1>1, <2>2 DEF Known
    <3>2. spender[q.sent] \notin {Nobody, q.tab} /\ q.sent \notin gone
      BY <2>2, <3>1 DEF B!SessionKept, Known
    <3> QED
      BY <1>0, <1>2, <3>1, <3>2, <2>2
  <2> QED
    BY <2>1, <2>2 DEF B!SessionKept
<1> QED
  BY <1>3, <1>4, <1>5, <1>6, <1>7, <1>8, <1>9, <1>10, <1>11, <1>12

(* A refusal, and the end of a session, add a reply that gives no token. *)
LEMMA EndStep ==
  ASSUME SessionInv, NEW m \in requests, m.kind \in {"refresh", "logout"}, B!Reply(m, 0),
         IF m.kind = "refresh" THEN m.token \notin live /\ UNCHANGED live ELSE live' = live \ {m.token},
         UNCHANGED <<owner, spender, jar, user, ready, calls, raced, B!counters>>
  PROVE  SessionInv'
<1> USE TabsAssumption DEF SessionInv, B!counters
<1> DEFINE r == [kind |-> m.kind, tab |-> m.tab, token |-> 0, sent |-> m.token]
<1>0. /\ requests' = requests \ {m} /\ replies' = replies \cup {r}
      /\ UNCHANGED B!Tokens /\ B!Tokens \subseteq Nat /\ 0 \notin B!Tokens
      /\ live' \subseteq live /\ live \subseteq B!Tokens
      /\ m \in B!Requests /\ m.token \in {0} \cup B!Tokens /\ jar \in {0} \cup B!Tokens
      /\ \A k \in live \ live' : m.kind = "logout" /\ k = m.token
  BY DEF B!Reply, B!Tokens, B!TypeOK, Known
<1>1. r \in B!Replies /\ r.kind = m.kind /\ r.tab = m.tab /\ r.token = 0 /\ r.sent = m.token
  BY <1>0 DEF B!Replies, B!Requests
<1> HIDE DEF r
<1>2. B!TypeOK'
  BY <1>0, <1>1 DEF B!TypeOK
<1>3. Known'
  BY <1>0, <1>1 DEF Known
<1>4. OneRefresh'
  BY <1>0, <1>1, MessagesDiffer DEF OneRefresh
<1>5. UnseenTokens'
  BY <1>0, <1>1 DEF UnseenTokens
<1>6. SpentOnce'
  BY <1>0, <1>1 DEF SpentOnce
<1>7. Apart'
  BY <1>0, <1>1 DEF Apart
<1>8. LoggedOut'
  <2> SUFFICES ASSUME lost = 0, revoked = 0, ~raced, NEW k \in B!Tokens \ live', spender[k] = Nobody
               PROVE  /\ \A x \in requests' : x.kind = "refresh" => x.token # k
                      /\ jar = k => \E q \in replies' : q.kind = "logout"
      BY <1>0 DEF LoggedOut
  <2>1. CASE k \in live
    BY <1>0, <1>1, <2>1 DEF Apart
  <2>2. CASE k \notin live
    BY <1>0, <2>2 DEF LoggedOut
  <2> QED
    BY <2>1, <2>2
<1>9. OneSession'
  BY <1>0, <1>1 DEF OneSession
<1>10. Held'
  <2> SUFFICES ASSUME signIns <= 1, lost = 0, ~raced PROVE Held'
      BY DEF Held
  <2>1. m.kind = "logout" => live' = {}
    BY <1>0 DEF Held
  <2> QED
    BY <1>0, <1>1, <2>1 DEF Held
<1>11. B!SessionKept'
  <2> SUFFICES ASSUME lost = 0, revoked = 0, ~raced PROVE B!SessionKept'
      BY DEF B!SessionKept
  <2>1. jar # 0 => jar \in live' \/ \E q \in replies' : q.token \in live' \/ q.kind = "logout"
    <3>1. CASE m.kind = "logout"
      BY <1>0, <1>1, <3>1
    <3>2. CASE m.kind = "refresh"
      BY <1>0, <3>2 DEF B!SessionKept
    <3> QED
      BY <3>1, <3>2
  <2>2. ASSUME m.kind = "refresh", m.token # 0, m.tab # Closed
        PROVE  spender[m.token] \notin {Nobody, m.tab}
    <3>1. m.tab \in Tabs /\ m.token \in B!Tokens \ live
      BY <1>0, <2>2 DEF B!Requests, B!Senders
    <3> QED
      BY <2>2, <3>1 DEF SpentOnce, LoggedOut
  <2> QED
    BY <1>0, <1>1, <2>1, <2>2 DEF B!SessionKept
<1> QED
  BY <1>2, <1>3, <1>4, <1>5, <1>6, <1>7, <1>8, <1>9, <1>10, <1>11

(* The server takes a request. *)
LEMMA ServeStep ==
  ASSUME SessionInv, NEW m \in requests, B!Serve(m)
  PROVE  SessionInv'
<1>1. m \in B!Requests /\ live \subseteq 1 .. Len(owner) /\ owner \in Seq(Users)
  BY DEF SessionInv, B!TypeOK, B!Tokens
<1>2. CASE m.kind = "refresh" /\ m.token \in live
  <2>1. owner[m.token] \in Users
    <3>1. m.token \in 1 .. Len(owner)
      BY <1>1, <1>2
    <3> QED
      BY <1>1, <3>1, ElementOf
  <2> USE DEF B!Serve, B!server
  <2>2. /\ B!Issue(owner[m.token], live \ {m.token}) /\ B!Reply(m, Len(owner) + 1)
        /\ spender' = [Append(spender, Nobody) EXCEPT ![m.token] = m.tab]
        /\ UNCHANGED <<jar, user, ready, calls, raced, B!counters>>
    BY <1>2 DEF B!Rotate
  <2> HIDE DEF B!Serve, B!server
  <2>3. {m.token} \subseteq live /\ {m.token} = IF m.kind = "refresh" THEN {m.token} ELSE {}
    BY <1>2
  <2>4. m.kind \in {"refresh", "signin"}
        /\ spender' = IF m.kind = "refresh" THEN [Append(spender, Nobody) EXCEPT ![m.token] = m.tab]
                                            ELSE Append(spender, Nobody)
    BY <1>2, <2>2
  <2> QED
    BY <2>1, <2>2, <2>3, <2>4, IssueStep
<1>3. CASE m.kind = "refresh" /\ m.token \notin live
  BY <1>3, EndStep DEF B!Rotate, B!Serve, B!server
<1>4. CASE m.kind = "signin"
  <2>1. m.user \in Users /\ live \ {} = live
    BY <1>4 DEF Known, SessionInv
  <2> QED
    BY <1>4, <2>1, IssueStep DEF B!Serve, B!server
<1>5. CASE m.kind = "logout"
  BY <1>5, EndStep DEF B!Serve, B!server
<1> QED
  BY <1>1, <1>2, <1>3, <1>4, <1>5 DEF B!Requests, B!Kinds

(* What a page makes of an answer keeps its type. *)
LEMMA PageTypes ==
  ASSUME B!TypeOK, NEW t \in Tabs, NEW u \in Users \cup {Nobody}, B!Refreshed(t, u) \/ B!Becomes(t, u)
  PROVE  /\ user' \in [Tabs -> Users \cup {Nobody}] /\ ready' \in [Tabs -> BOOLEAN]
         /\ calls' \in [ApiCalls -> [status : B!Statuses, tab : Tabs]]
<1> USE DEF B!TypeOK
<1>1. CASE B!Becomes(t, u)
  BY <1>1 DEF B!Becomes
<1>2. CASE B!Refreshed(t, u)
  <2>1. ASSUME NEW c \in ApiCalls
        PROVE  /\ [calls[c] EXCEPT !.status = "retried"] \in [status : B!Statuses, tab : Tabs]
               /\ [calls[c] EXCEPT !.status = "done"] \in [status : B!Statuses, tab : Tabs]
    BY DEF B!Statuses
  <2> QED
    BY <1>2, <2>1 DEF B!Refreshed
<1> QED
  BY <1>1, <1>2

(* The page that hears of it keeps its types when an answer arrives or fails. *)
LEMMA HearsTypes ==
  ASSUME SessionInv,
         \/ \E r \in replies : B!Deliver(r)
         \/ \E m \in requests \cup replies : B!Lose(m)
  PROVE  /\ user' \in [Tabs -> Users \cup {Nobody}] /\ ready' \in [Tabs -> BOOLEAN]
         /\ calls' \in [ApiCalls -> [status : B!Statuses, tab : Tabs]]
<1> USE DEF SessionInv
<1>1. ASSUME UNCHANGED <<user, ready, calls>>
      PROVE  /\ user' \in [Tabs -> Users \cup {Nobody}] /\ ready' \in [Tabs -> BOOLEAN]
             /\ calls' \in [ApiCalls -> [status : B!Statuses, tab : Tabs]]
  BY <1>1 DEF B!TypeOK
<1>2. ASSUME NEW r \in replies, B!Deliver(r), r.tab # Closed
      PROVE  \E t \in Tabs, u \in Users \cup {Nobody} : B!Refreshed(t, u) \/ B!Becomes(t, u)
  <2>1. r.tab \in Tabs /\ r.kind \in B!Kinds /\ owner \in Seq(Users)
    BY <1>2 DEF B!TypeOK, B!Replies, B!Senders
  <2>2. r.token # 0 => owner[r.token] \in Users
    BY <2>1 DEF Known, B!Tokens
  <2>3. CASE r.kind = "refresh"
    BY <1>2, <2>1, <2>2, <2>3 DEF B!Deliver
  <2>4. CASE r.kind = "signin"
    BY <1>2, <2>1, <2>2, <2>4 DEF B!Deliver, Known
  <2>5. CASE r.kind = "logout"
    BY <1>2, <2>1, <2>5 DEF B!Deliver
  <2> QED
    BY <2>1, <2>3, <2>4, <2>5 DEF B!Kinds
<1>3. ASSUME NEW m \in requests \cup replies, B!Lose(m), m.tab # Closed
      PROVE  \/ UNCHANGED <<user, ready, calls>>
             \/ \E t \in Tabs, u \in Users \cup {Nobody} : B!Refreshed(t, u) \/ B!Becomes(t, u)
  <2>1. m.tab \in Tabs /\ m.kind \in B!Kinds
    BY <1>3 DEF B!TypeOK, B!Requests, B!Replies, B!Senders
  <2> QED
    BY <1>3, <2>1 DEF B!Lose, B!Failed, B!Kinds
<1> QED
  BY <1>1, <1>2, <1>3, PageTypes DEF B!Deliver, B!Lose

(* An answer arrives: its token, if it has one, is in the jar, and is live. *)
LEMMA DeliverStep ==
  ASSUME SessionInv, NEW r \in replies, B!Deliver(r)
  PROVE  SessionInv'
<1> USE TabsAssumption DEF SessionInv
<1> DEFINE kept == r.kind = "refresh" /\ r.token = 0
<1>0. /\ replies' = replies \ {r} /\ jar' = (IF kept THEN jar ELSE r.token)
      /\ UNCHANGED <<live, owner, spender, requests, raced, signIns, reloads, lost, revoked, B!Tokens>>
      /\ r.token \in {0} \cup B!Tokens /\ 0 \notin B!Tokens /\ live \subseteq B!Tokens
      /\ r.kind = "logout" => r.token = 0
      /\ r.kind = "signin" => r.token # 0
      /\ r.kind \in {"refresh", "signin", "logout"}
  BY DEF B!Deliver, B!server, B!counters, B!Tokens, B!TypeOK, Known, B!Replies, B!Kinds
<1> HIDE DEF kept
<1>k. kept <=> r.kind = "refresh" /\ r.token = 0
  BY DEF kept
<1>1. B!TypeOK'
  BY <1>0, HearsTypes DEF B!TypeOK
<1>2. Known' /\ OneRefresh' /\ Apart' /\ OneSession'
  BY <1>0 DEF Known, OneRefresh, Apart, OneSession
<1>3. UnseenTokens'
  BY <1>0, <1>k DEF UnseenTokens
<1>4. SpentOnce'
  <2> SUFFICES ASSUME lost = 0, NEW t \in Tabs, NEW k \in B!Tokens, spender[k] = t, jar' = k
               PROVE  \E q \in replies' : q.kind = "refresh" /\ q.tab = t /\ q.token # 0
      BY <1>0 DEF SpentOnce
  <2>1. kept /\ jar = k
    BY <1>0 DEF UnseenTokens
  <2> QED
    BY <1>0, <1>k, <2>1 DEF SpentOnce
<1>5. LoggedOut'
  <2> SUFFICES ASSUME lost = 0, revoked = 0, ~raced, NEW k \in B!Tokens \ live, spender[k] = Nobody, jar' = k
               PROVE  \E q \in replies' : q.kind = "logout"
      BY <1>0 DEF LoggedOut
  <2>1. kept /\ jar = k
    BY <1>0 DEF UnseenTokens
  <2> QED
    BY <1>0, <1>k, <2>1 DEF LoggedOut
<1>6. Held'
  <2> SUFFICES ASSUME signIns <= 1, lost = 0, ~raced PROVE Held'
      BY <1>0 DEF Held
  <2>1. live \subseteq {jar'} \cup {q.token : q \in replies'}
    <3> SUFFICES ASSUME NEW k \in live, \A q \in replies' : q.token # k PROVE jar' = k
        OBVIOUS
    <3>1. k = jar \/ \E q \in replies : q.token = k
      BY DEF Held
    <3>2. CASE r.token = k
      BY <1>0, <1>k, <3>2
    <3>3. CASE r.token # k
      <4>1. k = jar
        BY <1>0, <3>1, <3>3
      <4>2. r.token = 0
        BY <1>0, <3>3 DEF UnseenTokens, OneSession, B!Tokens
      <4>3. r.kind # "logout"
        BY DEF Held
      <4> QED
        BY <1>0, <1>k, <4>1, <4>2, <4>3
    <3> QED
      BY <3>2, <3>3
  <2> QED
    BY <1>0, <2>1 DEF Held
<1>7. B!SessionKept'
  <2> SUFFICES ASSUME lost = 0, revoked = 0, ~raced PROVE B!SessionKept'
      BY <1>0 DEF B!SessionKept
  <2>1. jar' # 0 => jar' \in live \/ \E q \in replies' : q.token \in live \/ q.kind = "logout"
    <3>1. CASE kept
      BY <1>0, <1>k, <3>1 DEF B!SessionKept
    <3>2. CASE ~kept
      BY <1>0, <1>k, <3>2 DEF UnseenTokens
    <3> QED
      BY <3>1, <3>2
  <2> QED
    BY <1>0, <2>1 DEF B!SessionKept
<1> QED
  BY <1>1, <1>2, <1>3, <1>4, <1>5, <1>6, <1>7

(* A loss is remembered; the cookie of the answer may be stored all the same. *)
LEMMA LoseStep ==
  ASSUME SessionInv, NEW m \in requests \cup replies, B!Lose(m)
  PROVE  SessionInv'
<1> USE TabsAssumption DEF SessionInv
<1>0. /\ requests' = requests \ {m} /\ replies' = replies \ {m}
      /\ UNCHANGED <<live, owner, spender, raced, signIns, reloads, revoked, B!Tokens>>
      /\ lost' \in Nat \ {0}
      /\ \/ jar' = jar
         \/ m \in replies /\ jar' = m.token
      /\ jar' \in {0} \cup B!Tokens
      /\ 0 \notin B!Tokens
  BY DEF B!Lose, B!server, B!Tokens, B!TypeOK, Known
<1>1. B!TypeOK'
  BY <1>0, HearsTypes DEF B!TypeOK
<1>2. Known' /\ OneRefresh' /\ Apart' /\ OneSession'
  BY <1>0 DEF Known, OneRefresh, Apart, OneSession
<1>3. UnseenTokens'
  BY <1>0 DEF UnseenTokens
<1>4. SpentOnce' /\ LoggedOut' /\ Held' /\ B!SessionKept'
  BY <1>0 DEF SpentOnce, LoggedOut, Held, B!SessionKept
<1> QED
  BY <1>1, <1>2, <1>3, <1>4

(* The inductive invariant of the sessions of a browser. *)
THEOREM BrowserInvariance == B!Spec => []SessionInv
<1>1. SessionInv /\ [B!Next]_B!vars => SessionInv'
  <2> SUFFICES ASSUME SessionInv, [B!Next]_B!vars PROVE SessionInv'
      OBVIOUS
  <2>1. B!TypeOK
    BY DEF SessionInv
  <2>2. ASSUME NEW t \in Tabs, NEW u \in Users, B!SignIn(t, u) PROVE SessionInv'
    <3> DEFINE m == [kind |-> "signin", tab |-> t, token |-> 0, user |-> u]
    <3>1. m \in B!Requests /\ m.kind = "signin" /\ m.user = u /\ m.token = 0
      BY DEF B!Requests, B!Kinds, B!Senders
    <3>2. B!Send(m) /\ signIns' = signIns + 1
          /\ UNCHANGED <<B!server, jar, replies, lost, revoked, user, ready, calls, reloads>>
      BY <2>2 DEF B!SignIn
    <3> HIDE DEF m
    <3> QED
      BY <2>1, <3>1, <3>2, SendStep DEF B!TypeOK
  <2>3. ASSUME NEW t \in Tabs, B!Logout(t) PROVE SessionInv'
    <3> DEFINE m == [kind |-> "logout", tab |-> t, token |-> jar, user |-> Nobody]
    <3>1. m \in B!Requests /\ m.kind = "logout" /\ m.token = jar
      BY <2>1 DEF B!Requests, B!Kinds, B!Senders, B!TypeOK, B!Tokens
    <3>2. B!Send(m) /\ UNCHANGED <<B!server, jar, replies, user, ready, calls, B!counters>>
      BY <2>3 DEF B!Logout
    <3> HIDE DEF m
    <3> QED
      BY <2>1, <3>1, <3>2, SendStep DEF B!TypeOK, B!counters
  <2>4. ASSUME NEW t \in Tabs, B!Reload(t) PROVE SessionInv'
    BY <2>4, ReloadStep
  <2>5. ASSUME NEW t \in Tabs, NEW c \in ApiCalls, B!Call(t, c) PROVE SessionInv'
    BY <2>1, <2>5, StayStep DEF B!Call, B!TypeOK, B!Statuses, B!counters
  <2>6. ASSUME NEW c \in ApiCalls, B!Answer(c) PROVE SessionInv'
    BY <2>1, <2>6, StayStep DEF B!Answer, B!TypeOK, B!Statuses, B!counters
  <2>7. ASSUME NEW c \in ApiCalls, B!Unauthorized(c) PROVE SessionInv'
    <3> DEFINE t == calls[c].tab
    <3> DEFINE m == B!RefreshRequest(t, jar)
    <3>1. t \in Tabs /\ calls' \in [ApiCalls -> [status : B!Statuses, tab : Tabs]]
      BY <2>1, <2>7 DEF B!Unauthorized, B!TypeOK, B!Statuses
    <3>2. CASE B!Under(t, {"refresh"})
      BY <2>1, <2>7, <3>1, <3>2, StayStep DEF B!Unauthorized, B!TypeOK, B!counters, B!messages
    <3>3. CASE ~B!Under(t, {"refresh"})
      <4>1. m \in B!Requests /\ m.kind = "refresh" /\ m.token = jar /\ m.tab = t
        BY <2>1, <3>1 DEF B!RefreshRequest, B!Requests, B!Kinds, B!Senders, B!TypeOK, B!Tokens
      <4>2. B!Send(m) /\ UNCHANGED <<B!server, jar, replies, user, ready, B!counters>>
        BY <2>7, <3>3 DEF B!Unauthorized
      <4> HIDE DEF m, t
      <4> QED
        BY <2>1, <3>1, <3>3, <4>1, <4>2, SendStep DEF B!TypeOK, B!counters
    <3> QED
      BY <3>2, <3>3
  <2>8. ASSUME NEW m \in requests, B!Serve(m) PROVE SessionInv'
    BY <2>8, ServeStep
  <2>9. ASSUME NEW r \in replies, B!Deliver(r) PROVE SessionInv'
    BY <2>9, DeliverStep
  <2>10. ASSUME NEW m \in requests \cup replies, B!Lose(m) PROVE SessionInv'
    BY <2>10, LoseStep
  <2>11. ASSUME NEW k \in live, B!Revoke(k) PROVE SessionInv'
    BY <2>11, RevokeStep
  <2>12. CASE UNCHANGED B!vars
    BY <2>1, <2>12, StayStep DEF B!vars, B!TypeOK, B!counters
  <2> QED
    BY <2>2, <2>3, <2>4, <2>5, <2>6, <2>7, <2>8, <2>9, <2>10, <2>11, <2>12 DEF B!Next
<1> QED
  BY <1>1, BrowserInit, PTL DEF B!Spec

(* The browser keeps the session it has and leaves none behind: without a lost
   message, a revocation or a logout beside a refresh, whatever is in the jar is live
   or its successor is on its way (api.ts:36, auth.service.ts:107). *)
THEOREM BrowserKeepsItsSession == B!Spec => []SessionsAreSound
<1>1. SessionInv => SessionsAreSound
  BY DEF SessionInv, SessionsAreSound, B!SessionsAreSound, B!NoSessionLeftBehind, Held
<1> QED
  BY <1>1, BrowserInvariance, PTL

-----------------------------------------------------------------------------
(* Which queries read an item, from the tables of what the answers tell. *)
Reader(w, q) ==
  /\ w = "databases" => q \in {"databases", "search", "overview", "clusterDatabases"}
  /\ w = "schemas" => q \in {"schemas", "search"}
  /\ w = "relations" => q \in {"schemas", "tables", "autocomplete", "search", "erd"}
  /\ w = "names" => q \in {"tables", "structure", "autocomplete", "search", "erd"}
  /\ w = "comments" => q \in {"tables", "structure"}
  /\ w = "columns" => q \in {"structure", "rows", "autocomplete", "search", "erd"}
  /\ w = "constraints" => q \in {"structure", "erd"}
  /\ w = "indexes" => q \in {"structure"}
  /\ w = "triggers" => q \in {"structure"}
  /\ w = "incoming" => q \in {"structure", "elsewhere"}
  /\ w = "rows" => q \in {"rows"}
  /\ w = "routines" => q \in {"routines", "search"}
  /\ w = "sequences" => q \in {"sequences"}
  /\ w = "connections" => q \in {"connections"}
  /\ w = "history" => q \in {"history"}
  /\ w = "saved" => q \in {"saved"}
  /\ w = "roles" => q \in {"pgRoles"}
  /\ w = "grants" => q \in {"grants"}
  /\ w = "backups" => q \in {"backups"}
  /\ w = "schedules" => q \in {"schedules"}
  /\ w = "bundles" => q \in {"bundles"}
  /\ w = "backup" => q \in {"backup"}
  /\ w = "inspections" => q \in {"inspection"}
  /\ w = "users" => q \in {"users"}
  /\ w = "invitations" => q \in {"invitations"}
  /\ w = "delivery" => q \in {"deliverySettings", "deliveryChannels", "telegramInfo"}
  /\ w = "target" => q \in {"target"}

(* A table of queries reads no more than that. *)
Named(T) == \A q \in DOMAIN T : \A w \in T[q] : Reader(w, q)

(* What several tables read is what each of them reads. *)
LEMMA ListedTogether ==
  ASSUME NEW tables, \A t \in tables : Named(t)
  PROVE  Named(S!Together(tables))
BY DEF Named, S!Together

(* The queries of every table read what Reader tells. *)
LEMMA WhoReads == \A q \in S!Queries : \A w \in S!Reads[q] : Reader(w, q)
<1>1. Named(S!CatalogReads)
  BY DEF Named, Reader, S!CatalogReads
<1>2. Named(S!StructureReads)
  BY DEF Named, Reader, S!StructureReads
<1>3. Named(S!ObjectReads)
  BY DEF Named, Reader, S!ObjectReads
<1>4. Named(S!SearchReads)
  BY DEF Named, Reader, S!SearchReads
<1>5. Named(S!DiagramReads)
  BY DEF Named, Reader, S!DiagramReads
<1>6. Named(S!OverviewReads)
  BY DEF Named, Reader, S!OverviewReads
<1>7. Named(S!ListReads)
  BY DEF Named, Reader, S!ListReads
<1>8. Named(S!Reads)
  BY <1>1, <1>2, <1>3, <1>4, <1>5, <1>6, <1>7, ListedTogether DEF S!Reads
<1> QED
  BY <1>8 DEF Named, S!Queries

(* KnownGaps, as a condition on the query and the change. *)
IsGap(q, c) ==
  \/ q \in {"erd", "search", "elsewhere"}
  \/ q = "schemas" /\ c \in {"createTable", "dropTable"}
  \/ q \in {"tables", "routines"} /\ c = "dropSchema"
  \/ q \in {"structure", "rows", "grants", "sequences", "autocomplete"} /\ c \in {"dropTable", "dropSchema"}
  \/ q = "autocomplete" /\ c \in {"dropColumn", "dropGridColumn"}
  \/ q = "sequences" /\ c = "truncate"
  \/ q \in {"overview", "clusterDatabases"} /\ c \in {"makeDatabase", "loseDatabase"}
  \/ q = "clusterDatabases" /\ c \in {"createDatabase", "dropDatabase"}
  \/ q = "history" /\ c = "executeInline"
  \/ q = "schedules" /\ c = "runSchedule"
  \/ q \in {"backup", "inspection"} /\ c = "deleteBackup"

(* Every gap is listed. *)
LEMMA GapsAreKnown ==
  ASSUME NEW q, NEW c \in DOMAIN S!Changes, IsGap(q, c)
  PROVE  <<q, c>> \in S!KnownGaps
BY DEF IsGap, S!KnownGaps

(* Every change of a table invalidates, or fills in, the queries that read what it
   writes, but for the gaps. *)
Covered(T) ==
  \A c \in DOMAIN T : \A w \in T[c].writes : \A q :
    Reader(w, q) => q \in T[c].drops \cup T[c].sets \/ IsGap(q, c)

(* Tables that are covered are covered together. *)
LEMMA CoveredTogether ==
  ASSUME NEW tables, \A t \in tables : Covered(t)
  PROVE  Covered(S!Together(tables))
BY DEF Covered, S!Together

(* The buttons of the structure view. *)
LEMMA StructureChangesCovered == Covered(S!StructureChanges)
<1> DEFINE Told(c) == \A w \in S!StructureChanges[c].writes : \A q :
                       Reader(w, q) => q \in S!StructureChanges[c].drops \cup S!StructureChanges[c].sets \/ IsGap(q, c)
<1>1. Told("dropTable")
  BY DEF Reader, IsGap, S!StructureChanges, S!Change, S!Leading, S!OfTable, S!InvalidateAll
<1>2. Told("dropIndex")
  BY DEF Reader, IsGap, S!StructureChanges, S!Change, S!Leading, S!OfTable, S!InvalidateAll
<1>3. Told("dropTrigger")
  BY DEF Reader, IsGap, S!StructureChanges, S!Change, S!Leading, S!OfTable, S!InvalidateAll
<1>4. Told("truncate")
  BY DEF Reader, IsGap, S!StructureChanges, S!Change, S!Leading, S!OfTable, S!InvalidateAll
<1>5. Told("refreshMatview")
  BY DEF Reader, IsGap, S!StructureChanges, S!Change, S!Leading, S!OfTable, S!InvalidateAll
<1>6. Told("dropColumn")
  BY DEF Reader, IsGap, S!StructureChanges, S!Change, S!Leading, S!OfTable, S!InvalidateAll
<1>7. Told("dropConstraint")
  BY DEF Reader, IsGap, S!StructureChanges, S!Change, S!Leading, S!OfTable, S!InvalidateAll
<1>8. DOMAIN S!StructureChanges = {"dropTable", "dropIndex", "dropTrigger", "truncate", "refreshMatview", "dropColumn", "dropConstraint"}
  BY DEF S!StructureChanges
<1> HIDE DEF Told
<1>9. \A c \in DOMAIN S!StructureChanges : Told(c)
  BY <1>1, <1>2, <1>3, <1>4, <1>5, <1>6, <1>7, <1>8
<1> QED
  BY <1>9 DEF Told, Covered

(* The grid. *)
LEMMA GridChangesCovered == Covered(S!GridChanges)
<1> DEFINE Told(c) == \A w \in S!GridChanges[c].writes : \A q :
                       Reader(w, q) => q \in S!GridChanges[c].drops \cup S!GridChanges[c].sets \/ IsGap(q, c)
<1>1. Told("changeRows")
  BY DEF Reader, IsGap, S!GridChanges, S!Change, S!Leading, S!OfTable, S!InvalidateAll
<1>2. Told("dropGridColumn")
  BY DEF Reader, IsGap, S!GridChanges, S!Change, S!Leading, S!OfTable, S!InvalidateAll
<1>3. DOMAIN S!GridChanges = {"changeRows", "dropGridColumn"}
  BY DEF S!GridChanges
<1> HIDE DEF Told
<1>4. \A c \in DOMAIN S!GridChanges : Told(c)
  BY <1>1, <1>2, <1>3
<1> QED
  BY <1>4 DEF Told, Covered

(* The menus of the tree. *)
LEMMA TreeChangesCovered == Covered(S!TreeChanges)
<1> DEFINE Told(c) == \A w \in S!TreeChanges[c].writes : \A q :
                       Reader(w, q) => q \in S!TreeChanges[c].drops \cup S!TreeChanges[c].sets \/ IsGap(q, c)
<1>1. Told("dropDatabase")
  BY DEF Reader, IsGap, S!TreeChanges, S!Change, S!Leading, S!OfTable, S!InvalidateAll
<1>2. Told("dropSchema")
  BY DEF Reader, IsGap, S!TreeChanges, S!Change, S!Leading, S!OfTable, S!InvalidateAll
<1>3. DOMAIN S!TreeChanges = {"dropDatabase", "dropSchema"}
  BY DEF S!TreeChanges
<1> HIDE DEF Told
<1>4. \A c \in DOMAIN S!TreeChanges : Told(c)
  BY <1>1, <1>2, <1>3
<1> QED
  BY <1>4 DEF Told, Covered

(* The forms of the tree. *)
LEMMA TreeFormsCovered == Covered(S!TreeForms)
<1> DEFINE Told(c) == \A w \in S!TreeForms[c].writes : \A q :
                       Reader(w, q) => q \in S!TreeForms[c].drops \cup S!TreeForms[c].sets \/ IsGap(q, c)
<1>1. Told("createSchema")
  BY DEF Reader, IsGap, S!TreeForms, S!Change, S!Leading, S!OfTable, S!InvalidateAll
<1>2. Told("createDatabase")
  BY DEF Reader, IsGap, S!TreeForms, S!Change, S!Leading, S!OfTable, S!InvalidateAll
<1>3. DOMAIN S!TreeForms = {"createSchema", "createDatabase"}
  BY DEF S!TreeForms
<1> HIDE DEF Told
<1>4. \A c \in DOMAIN S!TreeForms : Told(c)
  BY <1>1, <1>2, <1>3
<1> QED
  BY <1>4 DEF Told, Covered

(* The page of the backups. *)
LEMMA BackupChangesCovered == Covered(S!BackupChanges)
<1> DEFINE Told(c) == \A w \in S!BackupChanges[c].writes : \A q :
                       Reader(w, q) => q \in S!BackupChanges[c].drops \cup S!BackupChanges[c].sets \/ IsGap(q, c)
<1>1. Told("deleteBackup")
  BY DEF Reader, IsGap, S!BackupChanges, S!Change, S!Leading, S!OfTable, S!InvalidateAll
<1>2. Told("deleteSchedule")
  BY DEF Reader, IsGap, S!BackupChanges, S!Change, S!Leading, S!OfTable, S!InvalidateAll
<1>3. Told("runSchedule")
  BY DEF Reader, IsGap, S!BackupChanges, S!Change, S!Leading, S!OfTable, S!InvalidateAll
<1>4. DOMAIN S!BackupChanges = {"deleteBackup", "deleteSchedule", "runSchedule"}
  BY DEF S!BackupChanges
<1> HIDE DEF Told
<1>5. \A c \in DOMAIN S!BackupChanges : Told(c)
  BY <1>1, <1>2, <1>3, <1>4
<1> QED
  BY <1>5 DEF Told, Covered

(* The page that looks into a backup. *)
LEMMA InspectChangesCovered == Covered(S!InspectChanges)
<1> DEFINE Told(c) == \A w \in S!InspectChanges[c].writes : \A q :
                       Reader(w, q) => q \in S!InspectChanges[c].drops \cup S!InspectChanges[c].sets \/ IsGap(q, c)
<1>1. Told("startInspection")
  BY DEF Reader, IsGap, S!InspectChanges, S!Change, S!Leading, S!OfTable, S!InvalidateAll
<1>2. Told("closeInspection")
  BY DEF Reader, IsGap, S!InspectChanges, S!Change, S!Leading, S!OfTable, S!InvalidateAll
<1>3. DOMAIN S!InspectChanges = {"startInspection", "closeInspection"}
  BY DEF S!InspectChanges
<1> HIDE DEF Told
<1>4. \A c \in DOMAIN S!InspectChanges : Told(c)
  BY <1>1, <1>2, <1>3
<1> QED
  BY <1>4 DEF Told, Covered

(* The forms invalidate by one rule. *)
LEMMA DdlFormsCovered == Covered(S!DdlForms)
<1>1. Covered(S!CreateTableForm)
  BY DEF Covered, Reader, IsGap, S!CreateTableForm, S!Change, S!Leading, S!OfTable, S!DdlInvalidates
<1>2. Covered(S!ColumnForm)
  BY DEF Covered, Reader, IsGap, S!ColumnForm, S!Change, S!Leading, S!OfTable, S!DdlInvalidates
<1>3. Covered(S!RenameForm)
  BY DEF Covered, Reader, IsGap, S!RenameForm, S!Change, S!Leading, S!OfTable, S!DdlInvalidates
<1>4. Covered(S!IndexForm)
  BY DEF Covered, Reader, IsGap, S!IndexForm, S!Change, S!Leading, S!OfTable, S!DdlInvalidates
<1>5. Covered(S!SequenceForm)
  BY DEF Covered, Reader, IsGap, S!SequenceForm, S!Change, S!Leading, S!OfTable, S!DdlInvalidates
<1>6. Covered(S!ReferenceForm)
  BY DEF Covered, Reader, IsGap, S!ReferenceForm, S!Change, S!Leading, S!OfTable, S!DdlInvalidates
<1>7. Covered(S!CheckForm)
  BY DEF Covered, Reader, IsGap, S!CheckForm, S!Change, S!Leading, S!OfTable, S!DdlInvalidates
<1>8. Covered(S!CommentForm)
  BY DEF Covered, Reader, IsGap, S!CommentForm, S!Change, S!Leading, S!OfTable, S!DdlInvalidates
<1>9. Covered(S!RestartForm)
  BY DEF Covered, Reader, IsGap, S!RestartForm, S!Change, S!Leading, S!OfTable, S!DdlInvalidates
<1> QED
  BY <1>1, <1>2, <1>3, <1>4, <1>5, <1>6, <1>7, <1>8, <1>9, CoveredTogether DEF
     S!DdlForms
(* So do all other pages, each for its own change. *)
LEMMA ChangesCovered == Covered(S!Changes)
<1>1. Covered(S!RoutineChanges)
  BY DEF Covered, Reader, IsGap, S!RoutineChanges, S!Change, S!Leading, S!OfTable, S!DdlInvalidates
<1>2. Covered(S!SequenceChanges)
  BY DEF Covered, Reader, IsGap, S!SequenceChanges, S!Change, S!Leading, S!OfTable, S!DdlInvalidates
<1>3. Covered(S!GrantChanges)
  BY DEF Covered, Reader, IsGap, S!GrantChanges, S!Change, S!Leading, S!OfTable, S!DdlInvalidates
<1>4. Covered(S!GrantForm)
  BY DEF Covered, Reader, IsGap, S!GrantForm, S!Change, S!Leading, S!OfTable, S!DdlInvalidates
<1>5. Covered(S!RoleChanges)
  BY DEF Covered, Reader, IsGap, S!RoleChanges, S!Change, S!Leading, S!OfTable, S!DdlInvalidates
<1>6. Covered(S!RoleForm)
  BY DEF Covered, Reader, IsGap, S!RoleForm, S!Change, S!Leading, S!OfTable, S!DdlInvalidates
<1>7. Covered(S!OverviewChanges)
  BY DEF Covered, Reader, IsGap, S!OverviewChanges, S!Change, S!Leading, S!OfTable, S!DdlInvalidates
<1>8. Covered(S!OverviewForm)
  BY DEF Covered, Reader, IsGap, S!OverviewForm, S!Change, S!Leading, S!OfTable, S!DdlInvalidates
<1>9. Covered(S!SqlChanges)
  BY DEF Covered, Reader, IsGap, S!SqlChanges, S!Change, S!Leading, S!OfTable, S!DdlInvalidates
<1>10. Covered(S!HistoryChanges)
  BY DEF Covered, Reader, IsGap, S!HistoryChanges, S!Change, S!Leading, S!OfTable, S!DdlInvalidates
<1>11. Covered(S!SavedChanges)
  BY DEF Covered, Reader, IsGap, S!SavedChanges, S!Change, S!Leading, S!OfTable, S!DdlInvalidates
<1>12. Covered(S!SaveForm)
  BY DEF Covered, Reader, IsGap, S!SaveForm, S!Change, S!Leading, S!OfTable, S!DdlInvalidates
<1>13. Covered(S!InlineChanges)
  BY DEF Covered, Reader, IsGap, S!InlineChanges, S!Change, S!Leading, S!OfTable, S!DdlInvalidates
<1>14. Covered(S!BackupForm)
  BY DEF Covered, Reader, IsGap, S!BackupForm, S!Change, S!Leading, S!OfTable, S!DdlInvalidates
<1>15. Covered(S!ScheduleForm)
  BY DEF Covered, Reader, IsGap, S!ScheduleForm, S!Change, S!Leading, S!OfTable, S!DdlInvalidates
<1>16. Covered(S!ClusterChanges)
  BY DEF Covered, Reader, IsGap, S!ClusterChanges, S!Change, S!Leading, S!OfTable, S!DdlInvalidates
<1>17. Covered(S!ClusterForm)
  BY DEF Covered, Reader, IsGap, S!ClusterForm, S!Change, S!Leading, S!OfTable, S!DdlInvalidates
<1>18. Covered(S!ConnectionChanges)
  BY DEF Covered, Reader, IsGap, S!ConnectionChanges, S!Change, S!Leading, S!OfTable, S!DdlInvalidates
<1>19. Covered(S!HomeChanges)
  BY DEF Covered, Reader, IsGap, S!HomeChanges, S!Change, S!Leading, S!OfTable, S!DdlInvalidates
<1>20. Covered(S!UserChanges)
  BY DEF Covered, Reader, IsGap, S!UserChanges, S!Change, S!Leading, S!OfTable, S!DdlInvalidates
<1>21. Covered(S!UserForm)
  BY DEF Covered, Reader, IsGap, S!UserForm, S!Change, S!Leading, S!OfTable, S!DdlInvalidates
<1>22. Covered(S!InviteChanges)
  BY DEF Covered, Reader, IsGap, S!InviteChanges, S!Change, S!Leading, S!OfTable, S!DdlInvalidates
<1>23. Covered(S!TargetChanges)
  BY DEF Covered, Reader, IsGap, S!TargetChanges, S!Change, S!Leading, S!OfTable, S!DdlInvalidates
<1>24. Covered(S!DeliveryChanges)
  BY DEF Covered, Reader, IsGap, S!DeliveryChanges, S!Change, S!Leading, S!OfTable, S!DdlInvalidates
<1> QED
  BY <1>1, <1>2, <1>3, <1>4, <1>5, <1>6, <1>7, <1>8, <1>9, <1>10, <1>11, <1>12,
     <1>13, <1>14, <1>15, <1>16, <1>17, <1>18, <1>19, <1>20, <1>21, <1>22,
     <1>23, <1>24, StructureChangesCovered, GridChangesCovered,
     TreeChangesCovered, TreeFormsCovered, BackupChangesCovered,
     InspectChangesCovered, DdlFormsCovered, CoveredTogether DEF S!Changes
(* A query that a change makes old is invalidated or filled in, unless it is a gap. *)
LEMMA ChangesAreTold ==
  ASSUME NEW q \in S!Queries, NEW c \in DOMAIN S!Changes, S!Affected(q, c), <<q, c>> \notin S!KnownGaps
  PROVE  q \in S!Changes[c].drops \cup S!Changes[c].sets
<1>1. ~IsGap(q, c)
  BY GapsAreKnown
<1> QED
  BY <1>1, ChangesCovered, WhoReads DEF Covered, S!Affected

(* The query is affected by the change.  Once the change is acknowledged, data from
   before it are marked, or overtaken; and an answer from before it was on its way. *)
ScreensInv ==
  /\ query \in S!Queries /\ change \in DOMAIN S!Changes /\ S!Affected(query, change)
  /\ mounted \in BOOLEAN /\ dirty \in BOOLEAN
  /\ mutation = "done" /\ fetching = "before" => overtaken
  /\ mutation = "done" /\ copy = "before" /\ ~overtaken /\ <<query, change>> \notin S!KnownGaps => dirty
  /\ mounted /\ dirty /\ fetching = "none" => failed

(* At first there is no answer. *)
LEMMA ScreensInit == S!Init => ScreensInv
BY DEF S!Init, ScreensInv, S!Mountings

(* A page is turned: a marked query is fetched when it is mounted. *)
LEMMA OpenStep == ASSUME ScreensInv, NEW v \in S!Views, S!Open(v) PROVE ScreensInv'
<1>1. PICK shown \in S!Mountings(v), stale \in BOOLEAN :
        /\ mounted' = shown
        /\ fetching' = IF shown /\ ~mounted THEN S!Mount(fetching, copy, dirty, stale) ELSE fetching
  BY DEF S!Open
<1>2. shown \in BOOLEAN
  BY DEF S!Mountings
<1>3. /\ UNCHANGED <<query, change, copy, dirty, mutation, overtaken>>
      /\ failed' = (failed /\ fetching' = "none")
  BY DEF S!Open
<1>4. fetching' # fetching => fetching' = "asked"
  BY <1>1 DEF S!Mount
<1>5. mounted' /\ dirty /\ fetching' = "none" => mounted /\ fetching = "none"
  BY <1>1, <1>2 DEF S!Mount, ScreensInv
<1> QED
  BY <1>1, <1>2, <1>3, <1>4, <1>5 DEF ScreensInv, S!Affected

(* A fetch is read, answered or lost. *)
LEMMA FetchStep == ASSUME ScreensInv, S!Read \/ S!Arrive \/ S!FetchFails PROVE ScreensInv'
<1>1. CASE S!Read
  BY <1>1 DEF S!Read, S!Made, ScreensInv, S!Affected
<1>2. CASE S!Arrive
  BY <1>2 DEF S!Arrive, ScreensInv, S!Affected
<1>3. CASE S!FetchFails
  BY <1>3 DEF S!FetchFails, ScreensInv, S!Affected
<1> QED
  BY <1>1, <1>2, <1>3

(* The change is sent, made or refused, and its answer may be lost. *)
LEMMA CallStep == ASSUME ScreensInv, S!Submit \/ S!Serve \/ S!LoseReply PROVE ScreensInv'
<1>1. UNCHANGED <<query, change, mounted, S!cached, overtaken, failed>> /\ mutation' # "done"
  BY DEF S!Submit, S!Serve, S!LoseReply
<1> QED
  BY <1>1 DEF ScreensInv, S!Affected, S!cached

(* The change is acknowledged: what it makes old is marked, fetched or filled in. *)
LEMMA ReplyStep == ASSUME ScreensInv, S!Reply PROVE ScreensInv'
<1> DEFINE c      == S!Changes[change]
           marked == query \in c.drops
           filled == query \in c.sets
           under  == IF marked THEN S!Refetch ELSE fetching
           v      == IF c.opens = "stay" THEN place ELSE c.opens
<1>1. /\ copy' = IF filled THEN "after" ELSE copy
      /\ dirty' = (marked \/ (dirty /\ ~filled))
      /\ failed' = (failed /\ fetching' = "none")
      /\ overtaken' = (fetching' = "before")
      /\ UNCHANGED <<query, change>>
  BY DEF S!Reply
<1>2. PICK shown \in IF v = place THEN {mounted} ELSE S!Mountings(v), stale \in BOOLEAN :
        /\ mounted' = shown
        /\ fetching' = IF shown /\ ~mounted THEN S!Mount(under, copy', dirty', stale) ELSE under
  BY DEF S!Reply
<1>3. shown \in BOOLEAN
  BY <1>2 DEF S!Mountings, ScreensInv
<1>4. <<query, change>> \notin S!KnownGaps => marked \/ filled
  BY ChangesAreTold DEF ScreensInv
<1>5. under = "none" /\ mounted => ~marked /\ fetching = "none"
  BY DEF S!Refetch
<1>6. ~marked => under = fetching
  OBVIOUS
<1> HIDE DEF marked, filled, under, v, c
<1>7. mounted' /\ dirty' /\ fetching' = "none" => failed'
  <2> SUFFICES ASSUME mounted', dirty', fetching' = "none" PROVE failed
    BY <1>1
  <2>1. mounted /\ under = "none"
    BY <1>2, <1>3 DEF S!Mount, ScreensInv
  <2> QED
    BY <2>1, <1>1, <1>5 DEF ScreensInv
<1>8. <<query, change>> \notin S!KnownGaps /\ copy' = "before" => dirty'
  BY <1>1, <1>4
<1>9. dirty' \in BOOLEAN
  BY <1>1 DEF marked
<1> QED
  BY <1>1, <1>2, <1>3, <1>7, <1>8, <1>9 DEF ScreensInv, S!Affected

(* The inductive invariant holds, however many pages are opened and whichever fetches
   overlap the change. *)
THEOREM ScreensInvariance == S!Spec => []ScreensInv
<1>1. ScreensInv /\ [S!Next]_S!vars => ScreensInv'
  <2> SUFFICES ASSUME ScreensInv, [S!Next]_S!vars PROVE ScreensInv'
    OBVIOUS
  <2>1. CASE UNCHANGED S!vars
    BY <2>1 DEF ScreensInv, S!vars, S!cached, S!Affected
  <2> QED
    BY <2>1, OpenStep, FetchStep, CallStep, ReplyStep DEF S!Next
<1> QED
  BY <1>1, ScreensInit, PTL DEF S!Spec

(* Once a change has been acknowledged no page goes on showing what it replaced, but
   for the gaps: for every query and every change of the application, and however many
   pages are opened meanwhile. *)
THEOREM ChangesAreShown == S!Spec => []ShowsOwnChanges
<1>1. ScreensInv => ShowsOwnChanges
  BY DEF ScreensInv, ShowsOwnChanges, S!ShowsOwnChanges
<1> QED
  BY <1>1, ScreensInvariance, PTL

-----------------------------------------------------------------------------
(* The objects the forms edit. *)
AllForms == {F!Dialogs[name] : name \in DOMAIN F!Dialogs}

(* What was sent of an attribute the user left alone is the page's copy of it. *)
Copied(a) == form.sends = "all" /\ a \in form.shows \cup form.sealed /\ body[a] = F!Shown(a)

(* The page's copy and the fields. *)
FieldsInv ==
  /\ form \in AllForms /\ follow \subseteq F!Attributes(form)
  /\ creating \in BOOLEAN /\ exists \in BOOLEAN /\ left \in BOOLEAN
  /\ at \in {"open", "sent", "working", "stored", "done"}
  /\ DOMAIN stored = follow /\ DOMAIN opened = follow /\ DOMAIN draft = follow
  /\ DOMAIN theirs = follow
  /\ DOMAIN body \subseteq follow /\ since \subseteq follow
  /\ at = "working" /\ form.applies = "batch" => DOMAIN work = follow
  /\ \A a \in follow :
       /\ opened[a] \in IF creating THEN {F!Empty(a)} ELSE F!Firsts(a)
       /\ F!Typed(a) => a \in form.shows \cup form.secret /\ draft[a] \in F!Typeable(a)

(* The request: what the user typed is in it, and the rest is the copy. *)
RequestInv ==
  at # "open" =>
    /\ DOMAIN body # {}
    /\ \A a \in DOMAIN body : body[a] = draft[a] /\ (IF F!Typed(a) THEN a \in carried ELSE Copied(a))
    /\ \A a \in follow : F!Typed(a) => a \in DOMAIN body

(* What of it is stored... *)
Altering  == at = "working" /\ form.applies = "batch"
Enrolling == at = "working" /\ form.applies = "statements"
Took(row, a) == row[a] = draft[a] \/ (a = "email" /\ F!Fold(draft[a]) = row[a])

ProgressInv ==
  /\ at = "working" => form.applies # "row"
  /\ at \in {"stored", "done"} =>
       did = DOMAIN body /\ \A a \in follow : F!Typed(a) /\ a \notin over => Took(stored, a)
  /\ at = "sent" => did = {}
  /\ Altering =>
       /\ did = {} /\ todo \subseteq IF creating THEN {"add"} ELSE DOMAIN body
       /\ \A a \in follow : F!Typed(a) => "add" \in todo \/ a \in todo \/ work[a] = draft[a]
  /\ Enrolling =>
       \/ /\ todo = {"members"} /\ did = DOMAIN body \ F!Groups
          /\ \A a \in follow \ F!Groups : F!Typed(a) /\ a \notin over => stored[a] = draft[a]
       \/ /\ todo \subseteq DOMAIN body \cap F!Groups /\ DOMAIN body = did \cup todo
          /\ \A a \in follow : F!Typed(a) /\ a \notin over /\ a \notin todo => stored[a] = draft[a]

(* ...and what was not asked for. *)
OthersInv ==
  ~creating => \A a \in follow :
    /\ a \notin since => theirs[a] = opened[a]
    /\ \/ stored[a] = theirs[a] \/ a \in carried
       \/ a \in since \cap (form.shows \cup form.sealed) /\ form.sends = "all"
       \/ a = "color" /\ theirs[a] = "none"
    /\ Altering => work[a] = stored[a] \/ a \in carried

(* What was answered, and why. *)
CausesInv ==
  /\ at \in {"sent", "working", "stored"} => answer = "none"
  /\ answer = "ok" => at = "done"
  /\ at = "open" /\ form.applies # "statements" =>
       /\ answer \in {"refused", "unknown", "gone", "taken"} => did = {}
       /\ did \in {{}, DOMAIN body}
  /\ F!RefusedForACause
  /\ (at = "sent" \/ Altering) /\ creating /\ exists => left

(* A column has the name it was opened with until somebody renames it, and within the
   transaction until the last statement. *)
RenamesInv ==
  form.applies = "batch" /\ ~creating /\ "name" \in follow =>
    /\ stored["name"] = opened["name"] \/ "name" \in since \/ left \/ did # {}
    /\ Altering /\ todo # {} => work["name"] = stored["name"]

(* The inductive invariant. *)
FormInv ==
  FieldsInv /\ RequestInv /\ ProgressInv /\ OthersInv /\ CausesInv /\ RenamesInv

-----------------------------------------------------------------------------
(* What the forms have in common. *)
LEMMA FormTable ==
  ASSUME form \in AllForms
  PROVE  /\ form.applies \in {"row", "batch", "statements"} /\ form.sends \in {"all", "changes"}
         /\ form.sends = "changes" <=> form.applies = "batch"
         /\ form.shows \cap form.secret = {} /\ form.shows \cap form.hidden = {}
         /\ form.secret \cap form.hidden = {} /\ form.sealed \cap form.hidden = {}
         /\ form.sealed \cap form.secret = {} /\ form.sealed \cap form.shows = {}
         /\ F!Attributes(form) \cap {"add", "members"} = {}
         /\ form.applies # "statements" => F!Attributes(form) \cap F!Groups = {}
         /\ form.applies = "statements" => F!Groups \subseteq form.shows
         /\ form.applies # "row" => F!Attributes(form) \cap {"color", "email"} = {}
         /\ form.applies = "batch" =>
              /\ F!Attributes(form) = form.shows /\ form.shows = DOMAIN F!ActionOrder
              /\ form.secret = {}
         /\ "color" \in F!Attributes(form) => "color" \in form.shows
<1>1. CASE form = F!ColumnDialog
  <2>1. form = [shows |-> {"name", "type", "nullable", "default", "comment"}, secret |-> {},
                sealed |-> {}, hidden |-> {}, sends |-> "changes", applies |-> "batch"]
    BY <1>1 DEF F!ColumnDialog, F!WholeRow
  <2>2. DOMAIN F!ActionOrder = {"name", "type", "nullable", "default", "comment"}
    BY DEF F!ActionOrder
  <2> QED
    BY <2>1, <2>2 DEF F!Attributes, F!Groups
<1>2. CASE form = F!RoleDialog
  <2>1. form = [shows |-> {"login", "connLimit", "readers", "writers"}, secret |-> {"password"},
                sealed |-> {}, hidden |-> {"validUntil"}, sends |-> "all", applies |-> "statements"]
    BY <1>2 DEF F!RoleDialog, F!WholeRow
  <2> QED
    BY <2>1 DEF F!Attributes, F!Groups
<1>3. CASE form = F!ConnectionDialog
  <2>1. form = [shows |-> {"name", "readOnly", "color"}, secret |-> {"password"},
                sealed |-> {}, hidden |-> {"lastUsedAt"}, sends |-> "all", applies |-> "row"]
    BY <1>3 DEF F!ConnectionDialog, F!WholeRow
  <2> QED
    BY <2>1 DEF F!Attributes, F!Groups
<1>4. CASE form = F!ScheduleDialog
  <2>1. form = [shows |-> {"name", "cron"}, secret |-> {},
                sealed |-> {"connectionId"}, hidden |-> {"lastRunAt"}, sends |-> "all",
                applies |-> "row"]
    BY <1>4 DEF F!ScheduleDialog, F!WholeRow
  <2> QED
    BY <2>1 DEF F!Attributes, F!Groups
<1>5. CASE form = F!UserDialog
  <2>1. form = [shows |-> {"name", "email", "role"}, secret |-> {"password"},
                sealed |-> {}, hidden |-> {}, sends |-> "all", applies |-> "row"]
    BY <1>5 DEF F!UserDialog, F!WholeRow
  <2> QED
    BY <2>1 DEF F!Attributes, F!Groups
<1>6. CASE form = F!SaveQueryDialog
  <2>1. form = [shows |-> {"name", "shared"}, secret |-> {},
                sealed |-> {"sql"}, hidden |-> {"ownerId"}, sends |-> "all", applies |-> "row"]
    BY <1>6 DEF F!SaveQueryDialog, F!WholeRow
  <2> QED
    BY <2>1 DEF F!Attributes, F!Groups
<1>7. \/ form = F!ColumnDialog \/ form = F!RoleDialog \/ form = F!ConnectionDialog
      \/ form = F!ScheduleDialog \/ form = F!UserDialog \/ form = F!SaveQueryDialog
  <2>1. PICK name \in DOMAIN F!Dialogs : form = F!Dialogs[name]
    BY DEF AllForms
  <2>2. name \in {"column", "role", "connection", "schedule", "user", "query"}
    BY DEF F!Dialogs
  <2> QED
    BY <2>1, <2>2 DEF F!Dialogs
<1> QED
  BY <1>1, <1>2, <1>3, <1>4, <1>5, <1>6, <1>7

(* What a request writes is what the user typed, or what was there. *)
LEMMA WrittenIsKnown ==
  ASSUME FormInv, at # "open", ~creating, NEW a \in DOMAIN body
  PROVE  \/ body[a] = theirs[a] \/ a \in carried
         \/ a \in since \cap (form.shows \cup form.sealed) /\ form.sends = "all"
         \/ a = "color" /\ theirs[a] = "none"
<1>1. CASE F!Typed(a)
  BY <1>1 DEF FormInv, RequestInv
<1>2. CASE ~F!Typed(a)
  <2>1. a \in follow /\ form \in AllForms
    BY DEF FormInv, FieldsInv
  <2>2. form.sends = "all" /\ a \in form.shows \cup form.sealed /\ body[a] = F!Shown(a)
    BY <1>2 DEF FormInv, RequestInv, Copied
  <2>3. a \notin form.secret
    BY <2>1, <2>2, FormTable
  <2>4. body[a] = opened[a] \/ (a = "color" /\ opened[a] = "none")
    BY <2>2, <2>3 DEF F!Shown
  <2>5. a \notin since => theirs[a] = opened[a]
    BY <2>1 DEF FormInv, OthersInv
  <2> QED
    BY <2>2, <2>4, <2>5
<1> QED
  BY <1>1, <1>2

(* The user changes a field. *)
LEMMA EditStep ==
  ASSUME FormInv, NEW b \in follow, NEW v \in F!Typeable(b) \cup {F!Shown(b)}, F!Edit(b, v)
  PROVE  FormInv'
<1>0. /\ UNCHANGED <<form, follow, creating, opened, body>>
      /\ \A x : F!Shown(x)' = F!Shown(x)
  BY DEF F!Edit, F!Shown
<1>1. FieldsInv'
  <2>1. UNCHANGED <<exists, left, at, stored, theirs, since, work>> /\ at = "open"
    BY DEF F!Edit, F!server, F!aux
  <2>2. draft' = [draft EXCEPT ![b] = v] /\ b \in form.shows \cup form.secret
    BY DEF F!Edit
  <2>3. \A a \in follow : F!Typed(a)' => a \in form.shows \cup form.secret /\ draft'[a] \in F!Typeable(a)
    BY <1>0, <2>2 DEF FormInv, FieldsInv, F!Typed
  <2> QED
    BY <1>0, <2>1, <2>2, <2>3 DEF FormInv, FieldsInv, F!Empty, F!Firsts, F!Typeable
<1>2. RequestInv'
  BY <1>0 DEF FormInv, RequestInv, F!Edit
<1>3. ProgressInv'
  BY <1>0 DEF FormInv, ProgressInv, F!Edit, Altering, Enrolling
<1>4. OthersInv'
  BY <1>0 DEF FormInv, OthersInv, F!Edit, F!server, F!aux, Altering
<1>5. CausesInv'
  BY <1>0 DEF FormInv, CausesInv, F!Edit, F!server, F!aux, Altering, F!RefusedForACause
<1>6. RenamesInv'
  BY <1>0 DEF FormInv, RenamesInv, F!Edit, F!server, F!aux, Altering
<1> QED
  BY <1>1, <1>2, <1>3, <1>4, <1>5, <1>6 DEF FormInv

(* The request: what was typed is in it, and the rest of it is the copy. *)
LEMMA SaveStep ==
  ASSUME FormInv, F!Save
  PROVE  FormInv'
<1>0. /\ UNCHANGED <<form, follow, creating, opened, draft>>
      /\ \A x : F!Shown(x)' = F!Shown(x) /\ (F!Typed(x)' <=> F!Typed(x))
  <2>1. UNCHANGED <<form, follow, creating, opened, draft>>
    BY DEF F!Save
  <2> QED
    BY <2>1 DEF F!Shown, F!Typed
<1>1. FieldsInv'
  <2>1. UNCHANGED <<exists, stored, theirs, since, work>> /\ at' = "sent"
    BY DEF F!Save, F!server
  <2>2. DOMAIN body' \subseteq follow
    BY DEF F!Save, F!Sent, F!SentWhole, F!buildActions
  <2>3. left' \in BOOLEAN
    BY DEF F!Save
  <2> QED
    BY <1>0, <2>1, <2>2, <2>3 DEF FormInv, FieldsInv, F!Empty, F!Firsts, F!Typeable
<1>2. RequestInv'
  <2>1. /\ body' = [a \in F!Sent |-> draft[a]] /\ carried' = carried \cup {a \in F!Sent : F!Typed(a)}
        /\ F!Sent # {}
    BY DEF F!Save
  <2>2. form \in AllForms /\ follow \subseteq F!Attributes(form)
    BY DEF FormInv, FieldsInv
  <2>3. CASE form.sends = "changes"
    <3>1. F!Sent = {a \in follow : a \in form.shows /\ draft[a] # opened[a]}
      BY <2>3 DEF F!Sent, F!buildActions
    <3>2. \A a \in follow : a \in form.shows /\ F!Shown(a) = opened[a]
      BY <2>2, <2>3, FormTable DEF F!Shown
    <3> QED
      BY <1>0, <2>1, <3>1, <3>2 DEF RequestInv, F!Typed
  <2>4. CASE form.sends = "all"
    <3>1. F!Sent = {a \in follow \ form.hidden : a \in form.secret => draft[a] # "none"}
      BY <2>4 DEF F!Sent, F!SentWhole
    <3>2. \A a \in form.secret : F!Shown(a) = "none"
      BY <2>2, FormTable DEF F!Attributes, F!Shown
    <3>3. \A a \in follow : F!Typed(a) => a \in F!Sent
      BY <2>2, <3>1, <3>2, FormTable DEF FormInv, FieldsInv, F!Typed
    <3>4. \A a \in F!Sent : F!Typed(a) \/ (a \in form.shows \cup form.sealed /\ draft[a] = F!Shown(a))
      BY <2>2, <3>1, <3>2 DEF F!Typed, F!Attributes
    <3> QED
      BY <1>0, <2>1, <2>4, <3>1, <3>3, <3>4 DEF RequestInv, Copied
  <2> QED
    BY <2>2, <2>3, <2>4, FormTable
<1>3. ProgressInv'
  BY <1>0 DEF FormInv, ProgressInv, F!Save, Altering, Enrolling
<1>4. OthersInv'
  BY <1>0 DEF FormInv, OthersInv, F!Save, F!server, Altering
<1>5. CausesInv'
  BY <1>0 DEF FormInv, FieldsInv, CausesInv, F!Save, F!server, F!RefusedForACause
<1>6. RenamesInv'
  <2>1. UNCHANGED stored /\ UNCHANGED since /\ at' = "sent"
    BY DEF F!Save, F!server
  <2>2. left \/ did # {} => left'
    BY DEF F!Save
  <2> QED
    BY <1>0, <2>1, <2>2 DEF FormInv, RenamesInv, Altering
<1> QED
  BY <1>1, <1>2, <1>3, <1>4, <1>5, <1>6 DEF FormInv

(* An answer arrives, or is lost. *)
LEMMA AnswerStep ==
  ASSUME FormInv, F!Reply \/ F!LoseReply
  PROVE  FormInv'
<1>0. /\ UNCHANGED <<form, follow, creating, opened, draft, body>>
      /\ \A x : F!Shown(x)' = F!Shown(x) /\ (F!Typed(x)' <=> F!Typed(x)) /\ (Copied(x)' <=> Copied(x))
  <2>1. UNCHANGED <<form, follow, creating, opened, draft, body>>
    BY DEF F!Reply, F!LoseReply
  <2> QED
    BY <2>1 DEF F!Shown, F!Typed, Copied
<1>1. FieldsInv'
  BY <1>0 DEF FormInv, FieldsInv, F!Reply, F!LoseReply, F!server, F!aux
<1>2. RequestInv'
  BY <1>0 DEF FormInv, RequestInv, F!Reply, F!LoseReply, F!aux
<1>3. ProgressInv'
  BY <1>0 DEF FormInv, ProgressInv, F!Reply, F!LoseReply, F!server, F!aux, Altering, Enrolling, Took
<1>4. OthersInv'
  BY <1>0 DEF FormInv, OthersInv, F!Reply, F!LoseReply, F!server, F!aux, Altering
<1>5. CausesInv'
  BY <1>0 DEF FormInv, ProgressInv, CausesInv, F!Reply, F!LoseReply, Altering, F!RefusedForACause
<1>6. RenamesInv'
  BY <1>0 DEF FormInv, RenamesInv, F!Reply, F!LoseReply, F!server, F!aux, Altering
<1> QED
  BY <1>1, <1>2, <1>3, <1>4, <1>5, <1>6 DEF FormInv

(* Somebody else changes an attribute... *)
LEMMA AnotherStep ==
  ASSUME FormInv, NEW b \in follow, NEW v, F!Another(b, v)
  PROVE  FormInv'
<1>0. /\ UNCHANGED <<form, follow, creating, opened, draft, body>>
      /\ \A x : F!Shown(x)' = F!Shown(x) /\ (F!Typed(x)' <=> F!Typed(x)) /\ (Copied(x)' <=> Copied(x))
  <2>1. UNCHANGED <<form, follow, creating, opened, draft, body>>
    BY DEF F!Another
  <2> QED
    BY <2>1 DEF F!Shown, F!Typed, Copied
<1>1. FieldsInv'
  BY <1>0 DEF FormInv, FieldsInv, F!Another
<1>2. RequestInv'
  BY <1>0 DEF FormInv, RequestInv, F!Another
<1>3. ProgressInv'
  BY <1>0 DEF FormInv, ProgressInv, F!Another, Altering, Enrolling, Took
<1>4. OthersInv'
  BY <1>0 DEF FormInv, FieldsInv, OthersInv, F!Another, Altering
<1>5. CausesInv'
  BY <1>0 DEF FormInv, CausesInv, F!Another, Altering, F!RefusedForACause
<1>6. RenamesInv'
  BY <1>0 DEF FormInv, RenamesInv, F!Another, Altering
<1> QED
  BY <1>1, <1>2, <1>3, <1>4, <1>5, <1>6 DEF FormInv

(* ...or removes the object. *)
LEMMA RemovedStep ==
  ASSUME FormInv, F!RemovedByAnother
  PROVE  FormInv'
<1>0. /\ UNCHANGED <<form, follow, creating, opened, draft, body>>
      /\ \A x : F!Shown(x)' = F!Shown(x) /\ (F!Typed(x)' <=> F!Typed(x)) /\ (Copied(x)' <=> Copied(x))
  <2>1. UNCHANGED <<form, follow, creating, opened, draft, body>>
    BY DEF F!RemovedByAnother
  <2> QED
    BY <2>1 DEF F!Shown, F!Typed, Copied
<1>1. FieldsInv'
  <2>1. exists' \in BOOLEAN
    BY DEF F!RemovedByAnother
  <2>2. UNCHANGED <<left, at, stored, theirs, since, work>>
    BY DEF F!RemovedByAnother
  <2> QED
    BY <1>0, <2>1, <2>2 DEF FormInv, FieldsInv, F!Empty, F!Firsts, F!Typeable
<1>2. RequestInv'
  BY <1>0 DEF FormInv, RequestInv, F!RemovedByAnother
<1>3. ProgressInv'
  BY <1>0 DEF FormInv, ProgressInv, F!RemovedByAnother, Altering, Enrolling, Took
<1>4. OthersInv'
  BY <1>0 DEF FormInv, OthersInv, F!RemovedByAnother, Altering
<1>5. CausesInv'
  BY <1>0 DEF FormInv, CausesInv, F!RemovedByAnother, F!RefusedForACause
<1>6. RenamesInv'
  BY <1>0 DEF FormInv, RenamesInv, F!RemovedByAnother, Altering
<1> QED
  BY <1>1, <1>2, <1>3, <1>4, <1>5, <1>6 DEF FormInv

(* The request is refused, or fails before its first statement is through. *)
LEMMA RefuseStep ==
  ASSUME FormInv, F!Refuse
  PROVE  FormInv'
<1>0. /\ UNCHANGED <<form, follow, creating, opened, draft, body>>
      /\ \A x : F!Shown(x)' = F!Shown(x) /\ (F!Typed(x)' <=> F!Typed(x)) /\ (Copied(x)' <=> Copied(x))
  <2>1. UNCHANGED <<form, follow, creating, opened, draft, body>>
    BY DEF F!Refuse, F!Answer
  <2> QED
    BY <2>1 DEF F!Shown, F!Typed, Copied
<1>1. FieldsInv'
  BY <1>0 DEF FormInv, FieldsInv, F!Refuse, F!Answer, F!aux
<1>2. RequestInv'
  BY <1>0 DEF FormInv, RequestInv, F!Refuse, F!Answer
<1>3. ProgressInv'
  BY <1>0 DEF FormInv, ProgressInv, F!Refuse, F!Answer, Altering, Enrolling
<1>4. OthersInv'
  BY <1>0 DEF FormInv, OthersInv, F!Refuse, F!Answer, F!aux, Altering
<1>5. CausesInv'
  BY <1>0, FormTable DEF FormInv, FieldsInv, ProgressInv, CausesInv, F!Refuse, F!Answer,
     Altering, F!RefusedForACause
<1>6. RenamesInv'
  BY <1>0 DEF FormInv, RenamesInv, F!Refuse, F!aux
<1> QED
  BY <1>1, <1>2, <1>3, <1>4, <1>5, <1>6 DEF FormInv

(* One row: a value that is not taken differs in its letters only. *)
LEMMA StoreRowStep ==
  ASSUME FormInv, F!StoreRow
  PROVE  FormInv'
<1>0. /\ UNCHANGED <<form, follow, creating, opened, draft, body>>
      /\ \A x : F!Shown(x)' = F!Shown(x) /\ (F!Typed(x)' <=> F!Typed(x)) /\ (Copied(x)' <=> Copied(x))
  <2>1. UNCHANGED <<form, follow, creating, opened, draft, body>>
    BY DEF F!StoreRow, F!Answer
  <2> QED
    BY <2>1 DEF F!Shown, F!Typed, Copied
<1>1. FieldsInv'
  <2>1. exists' \in BOOLEAN
    BY DEF F!StoreRow, FormInv, FieldsInv
  <2>2. UNCHANGED <<left, theirs, since>> /\ at' \in {"open", "stored"}
    BY DEF F!StoreRow, F!Answer, F!aux
  <2>3. DOMAIN stored' = follow
    BY DEF F!StoreRow, F!Made, F!Merge, FormInv, FieldsInv
  <2> QED
    BY <1>0, <2>1, <2>2, <2>3 DEF FormInv, FieldsInv, F!Empty, F!Firsts, F!Typeable
<1>2. RequestInv'
  BY <1>0 DEF FormInv, RequestInv, F!StoreRow, F!aux
<1>3. ProgressInv'
  <2>1. CASE ~(exists \/ creating)
    BY <2>1 DEF ProgressInv, F!StoreRow, F!Answer, Altering, Enrolling
  <2>2. CASE exists \/ creating
    <3>1. /\ at' = "stored" /\ did' = DOMAIN body /\ UNCHANGED over
          /\ stored' = IF creating THEN F!Made ELSE F!Merge(stored, body)
      BY <2>2 DEF F!StoreRow, F!aux
    <3>2. ASSUME NEW a \in follow, F!Typed(a)
          PROVE  Took(stored, a)'
      <4>1. a \in DOMAIN body /\ body[a] = draft[a] /\ draft[a] \in F!Typeable(a) /\ a \in DOMAIN stored
        BY <3>2 DEF FormInv, FieldsInv, RequestInv, F!StoreRow
      <4>2. CASE creating
        BY <1>0, <3>1, <4>1, <4>2 DEF F!Made, Took
      <4>3. CASE ~creating /\ a = "email" /\ F!Fold(body[a]) = F!Fold(stored[a])
        <5>1. stored'[a] = stored[a]
          BY <3>1, <4>1, <4>3 DEF F!Merge
        <5>2. draft[a] \in {"mine", "OLD"}
          BY <4>1, <4>3 DEF F!Typeable, F!Groups
        <5> QED
          BY <1>0, <4>1, <4>3, <5>1, <5>2 DEF Took, F!Fold
      <4>4. CASE ~creating /\ ~(a = "email" /\ F!Fold(body[a]) = F!Fold(stored[a]))
        BY <1>0, <3>1, <4>1, <4>4 DEF F!Merge, Took
      <4> QED
        BY <4>2, <4>3, <4>4
    <3> QED
      BY <1>0, <3>1, <3>2 DEF ProgressInv, Altering, Enrolling
  <2> QED
    BY <2>1, <2>2
<1>4. OthersInv'
  <2>1. UNCHANGED <<theirs, since, carried>> /\ ~Altering'
    BY DEF F!StoreRow, F!Answer, Altering, F!aux
  <2>2. ASSUME ~creating, NEW a \in follow
        PROVE  stored'[a] = stored[a] \/ (a \in DOMAIN body /\ stored'[a] = body[a])
    BY <2>2 DEF F!StoreRow, F!Merge, FormInv, FieldsInv
  <2>3. at # "open"
    BY DEF F!StoreRow
  <2> QED
    BY <1>0, <2>1, <2>2, <2>3, WrittenIsKnown DEF FormInv, OthersInv
<1>5. CausesInv'
  BY <1>0 DEF FormInv, ProgressInv, CausesInv, F!StoreRow, F!Answer, Altering, F!RefusedForACause
<1>6. RenamesInv'
  BY <1>0 DEF FormInv, RenamesInv, F!StoreRow
<1> QED
  BY <1>1, <1>2, <1>3, <1>4, <1>5, <1>6 DEF FormInv

(* The transaction starts from what is there. *)
LEMMA BeginAlterStep ==
  ASSUME FormInv, F!BeginAlter
  PROVE  FormInv'
<1>0. /\ UNCHANGED <<form, follow, creating, opened, draft, body>>
      /\ \A x : F!Shown(x)' = F!Shown(x) /\ (F!Typed(x)' <=> F!Typed(x)) /\ (Copied(x)' <=> Copied(x))
  <2>1. UNCHANGED <<form, follow, creating, opened, draft, body>>
    BY DEF F!BeginAlter
  <2> QED
    BY <2>1 DEF F!Shown, F!Typed, Copied
<1>1. FieldsInv'
  BY <1>0 DEF FormInv, FieldsInv, F!BeginAlter, F!aux
<1>2. RequestInv'
  BY <1>0 DEF FormInv, RequestInv, F!BeginAlter, F!aux
<1>3. ProgressInv'
  BY <1>0 DEF FormInv, RequestInv, ProgressInv, F!BeginAlter, Enrolling
<1>4. OthersInv'
  BY <1>0 DEF FormInv, OthersInv, F!BeginAlter, F!aux
<1>5. CausesInv'
  BY <1>0 DEF FormInv, CausesInv, F!BeginAlter, F!aux, F!RefusedForACause
<1>6. RenamesInv'
  BY <1>0 DEF FormInv, RenamesInv, F!BeginAlter, F!aux
<1> QED
  BY <1>1, <1>2, <1>3, <1>4, <1>5, <1>6 DEF FormInv

(* A column that is added has what was sent. *)
LEMMA AddColumnStep ==
  ASSUME FormInv, F!AddColumn
  PROVE  FormInv'
<1>0. /\ UNCHANGED <<form, follow, creating, opened, draft, body>>
      /\ \A x : F!Shown(x)' = F!Shown(x) /\ (F!Typed(x)' <=> F!Typed(x)) /\ (Copied(x)' <=> Copied(x))
  <2>1. UNCHANGED <<form, follow, creating, opened, draft, body>>
    BY DEF F!AddColumn, F!Answer
  <2> QED
    BY <2>1 DEF F!Shown, F!Typed, Copied
<1>1. FieldsInv'
  <2>1. UNCHANGED <<exists, left, stored, theirs, since>> /\ at' \in {at, "open"}
    BY DEF F!AddColumn, F!Answer, F!aux
  <2>2. DOMAIN work' = follow \/ (work' = work /\ at' = "open")
    BY DEF F!AddColumn, F!Answer, F!Made
  <2> QED
    BY <1>0, <2>1, <2>2 DEF FormInv, FieldsInv, F!Empty, F!Firsts, F!Typeable
<1>2. RequestInv'
  BY <1>0 DEF FormInv, RequestInv, F!AddColumn, F!aux
<1>3. ProgressInv'
  <2>1. /\ at = "working" /\ todo = {"add"} /\ todo' = {}
        /\ UNCHANGED <<stored, did, over>> /\ at' \in {at, "open"}
        /\ work' = F!Made \/ at' = "open"
    BY DEF F!AddColumn, F!Answer, F!aux
  <2>2. \A a \in follow : F!Typed(a) => a \in DOMAIN body /\ body[a] = draft[a]
    BY <2>1 DEF FormInv, RequestInv
  <2>3. Altering
    BY <2>1, FormTable DEF FormInv, FieldsInv, ProgressInv, Altering, Enrolling, F!Groups
  <2> QED
    BY <1>0, <2>1, <2>2, <2>3 DEF FormInv, ProgressInv, Altering, Enrolling, F!Made
<1>4. OthersInv'
  BY <1>0, FormTable DEF FormInv, FieldsInv, ProgressInv, OthersInv, F!AddColumn, F!aux, Altering
<1>5. CausesInv'
  BY <1>0, FormTable DEF FormInv, FieldsInv, ProgressInv, CausesInv, F!AddColumn, F!Answer,
     F!aux, Altering, Enrolling, F!RefusedForACause
<1>6. RenamesInv'
  BY <1>0 DEF FormInv, RenamesInv, F!AddColumn, F!aux
<1> QED
  BY <1>1, <1>2, <1>3, <1>4, <1>5, <1>6 DEF FormInv

(* One statement; the one that renames is the last. *)
LEMMA AlterStep ==
  ASSUME FormInv, NEW b \in follow, F!Alter(b)
  PROVE  FormInv'
<1>0. /\ UNCHANGED <<form, follow, creating, opened, draft, body>>
      /\ \A x : F!Shown(x)' = F!Shown(x) /\ (F!Typed(x)' <=> F!Typed(x)) /\ (Copied(x)' <=> Copied(x))
  <2>1. UNCHANGED <<form, follow, creating, opened, draft, body>>
    BY DEF F!Alter, F!Answer
  <2> QED
    BY <2>1 DEF F!Shown, F!Typed, Copied
<1>1. FieldsInv'
  BY <1>0 DEF FormInv, FieldsInv, F!Alter, F!Answer, F!aux
<1>2. RequestInv'
  BY <1>0 DEF FormInv, RequestInv, F!Alter, F!aux
<1>3. ProgressInv'
  BY <1>0 DEF FormInv, FieldsInv, RequestInv, ProgressInv, F!Alter, F!Answer, Altering, Enrolling
<1>4. OthersInv'
  <2>1. UNCHANGED <<stored, theirs, since, carried>> /\ Altering
    BY DEF F!Alter, Altering, F!aux
  <2>2. b \in DOMAIN body => b \in carried
    BY <2>1, FormTable DEF FormInv, FieldsInv, RequestInv, Copied, Altering
  <2>3. ~creating => b \in DOMAIN body
    BY <2>1 DEF F!Alter, FormInv, ProgressInv
  <2>4. work' = work \/ work' = [work EXCEPT ![b] = body[b]]
    BY DEF F!Alter
  <2> QED
    BY <1>0, <2>1, <2>2, <2>3, <2>4 DEF FormInv, FieldsInv, OthersInv, Altering
<1>5. CausesInv'
  BY <1>0 DEF FormInv, ProgressInv, CausesInv, RenamesInv, F!Alter, F!Answer, F!aux, Altering,
     F!RefusedForACause
<1>6. RenamesInv'
  <2> SUFFICES ASSUME form.applies = "batch", ~creating, "name" \in follow
               PROVE  RenamesInv'
    BY <1>0 DEF RenamesInv
  <2>1. UNCHANGED <<stored, since, left, did>> /\ Altering
    BY DEF F!Alter, Altering, F!aux
  <2>2. ASSUME b = "name" PROVE todo \subseteq {"name"}
    <3>1. todo \subseteq DOMAIN F!ActionOrder
      BY <2>1, FormTable DEF FormInv, FieldsInv, ProgressInv
    <3>2. \A c \in todo : F!ActionOrder["name"] <= F!ActionOrder[c]
      BY <2>2 DEF F!Alter
    <3> QED
      BY <3>1, <3>2 DEF F!ActionOrder
  <2>3. \/ todo' = {}
        \/ work' = [work EXCEPT ![b] = body[b]] /\ todo' = todo \ {b}
    BY DEF F!Alter
  <2>4. Altering' /\ todo' # {} => work'["name"] = stored["name"]
    BY <2>1, <2>2, <2>3 DEF FormInv, FieldsInv, RenamesInv, Altering
  <2> QED
    BY <1>0, <2>1, <2>4 DEF FormInv, RenamesInv
<1> QED
  BY <1>1, <1>2, <1>3, <1>4, <1>5, <1>6 DEF FormInv

(* The transaction ends. *)
LEMMA CommitStep ==
  ASSUME FormInv, F!Commit
  PROVE  FormInv'
<1>0. /\ UNCHANGED <<form, follow, creating, opened, draft, body>>
      /\ \A x : F!Shown(x)' = F!Shown(x) /\ (F!Typed(x)' <=> F!Typed(x)) /\ (Copied(x)' <=> Copied(x))
  <2>1. UNCHANGED <<form, follow, creating, opened, draft, body>>
    BY DEF F!Commit
  <2> QED
    BY <2>1 DEF F!Shown, F!Typed, Copied
<1>1. FieldsInv'
  BY <1>0 DEF FormInv, FieldsInv, F!Commit, F!aux
<1>2. RequestInv'
  BY <1>0 DEF FormInv, RequestInv, F!Commit, F!aux
<1>3. ProgressInv'
  BY <1>0 DEF FormInv, ProgressInv, F!Commit, Altering, Took
<1>4. OthersInv'
  BY <1>0 DEF FormInv, OthersInv, F!Commit, F!aux, Altering
<1>5. CausesInv'
  BY <1>0 DEF FormInv, CausesInv, F!Commit, Altering, F!RefusedForACause
<1>6. RenamesInv'
  BY <1>0 DEF FormInv, RequestInv, RenamesInv, F!Commit
<1> QED
  BY <1>1, <1>2, <1>3, <1>4, <1>5, <1>6 DEF FormInv

(* A role without its memberships. *)
LEMMA StoreRoleStep ==
  ASSUME FormInv, F!StoreRole
  PROVE  FormInv'
<1>0. /\ UNCHANGED <<form, follow, creating, opened, draft, body>>
      /\ \A x : F!Shown(x)' = F!Shown(x) /\ (F!Typed(x)' <=> F!Typed(x)) /\ (Copied(x)' <=> Copied(x))
  <2>1. UNCHANGED <<form, follow, creating, opened, draft, body>>
    BY DEF F!StoreRole, F!Answer
  <2> QED
    BY <2>1 DEF F!Shown, F!Typed, Copied
<1>1. FieldsInv'
  <2>1. exists' \in BOOLEAN
    BY DEF F!StoreRole, FormInv, FieldsInv
  <2>2. UNCHANGED <<left, theirs, since>> /\ at' \in {"open", "working"}
    BY DEF F!StoreRole, F!Answer, F!aux
  <2>3. DOMAIN stored' = follow /\ form.applies # "batch"
    BY DEF F!StoreRole, FormInv, FieldsInv
  <2> QED
    BY <1>0, <2>1, <2>2, <2>3 DEF FormInv, FieldsInv, F!Empty, F!Firsts, F!Typeable
<1>2. RequestInv'
  BY <1>0 DEF FormInv, RequestInv, F!StoreRole, F!aux
<1>3. ProgressInv'
  BY <1>0 DEF FormInv, RequestInv, ProgressInv, F!StoreRole, F!Answer, Altering, Enrolling
<1>4. OthersInv'
  <2>1. UNCHANGED <<theirs, since, carried>> /\ ~Altering'
    BY <1>0 DEF F!StoreRole, Altering, F!aux
  <2>2. ASSUME ~creating, NEW a \in follow
        PROVE  stored'[a] = stored[a] \/ (a \in DOMAIN body /\ stored'[a] = body[a])
    BY <2>2 DEF F!StoreRole
  <2>3. at # "open"
    BY DEF F!StoreRole
  <2> QED
    BY <1>0, <2>1, <2>2, <2>3, WrittenIsKnown DEF FormInv, OthersInv
<1>5. CausesInv'
  BY <1>0 DEF FormInv, CausesInv, F!StoreRole, F!Answer, F!aux, Altering, F!RefusedForACause
<1>6. RenamesInv'
  BY <1>0 DEF FormInv, RenamesInv, F!StoreRole
<1> QED
  BY <1>1, <1>2, <1>3, <1>4, <1>5, <1>6 DEF FormInv

(* A membership that is not asked for is there already. *)
LEMMA ReadMembersStep ==
  ASSUME FormInv, F!ReadMembers
  PROVE  FormInv'
<1>0. /\ UNCHANGED <<form, follow, creating, opened, draft, body>>
      /\ \A x : F!Shown(x)' = F!Shown(x) /\ (F!Typed(x)' <=> F!Typed(x)) /\ (Copied(x)' <=> Copied(x))
  <2>1. UNCHANGED <<form, follow, creating, opened, draft, body>>
    BY DEF F!ReadMembers
  <2> QED
    BY <2>1 DEF F!Shown, F!Typed, Copied
<1>1. FieldsInv'
  BY <1>0 DEF FormInv, FieldsInv, F!ReadMembers, F!aux
<1>2. RequestInv'
  BY <1>0 DEF FormInv, RequestInv, F!ReadMembers, F!aux
<1>3. ProgressInv'
  <2> DEFINE named == F!Groups \cap DOMAIN body
  <2>1. /\ at = "working" /\ todo = {"members"}
        /\ todo' = {g \in named : IF creating THEN body[g] = "in" ELSE stored[g] # body[g]}
        /\ did' = did \cup (named \ todo') /\ UNCHANGED <<stored, at, over>>
    BY DEF F!ReadMembers, F!aux
  <2>2. Enrolling /\ ~Altering
    BY <2>1, FormTable DEF FormInv, FieldsInv, ProgressInv, Altering, Enrolling
  <2>3. /\ did = DOMAIN body \ F!Groups
        /\ \A a \in follow \ F!Groups : F!Typed(a) /\ a \notin over => stored[a] = draft[a]
    BY <2>1, <2>2 DEF FormInv, ProgressInv, F!Groups
  <2>4. todo' \subseteq named /\ DOMAIN body = did' \cup todo'
    BY <2>1, <2>3
  <2>5. ASSUME NEW a \in follow, F!Typed(a), a \notin over, a \notin todo'
        PROVE  stored[a] = draft[a]
    <3>1. CASE a \notin F!Groups
      BY <2>3, <2>5, <3>1
    <3>2. CASE a \in F!Groups
      <4>1. a \in named /\ body[a] = draft[a]
        BY <2>1, <2>5, <3>2 DEF FormInv, RequestInv
      <4>2. CASE creating
        <5>1. opened[a] = "out" /\ draft[a] \in {"in", "out"} /\ a # "color"
          BY <2>5, <3>2, <4>2 DEF FormInv, FieldsInv, F!Empty, F!Typeable, F!Groups
        <5>2. F!Shown(a) = "out"
          BY <2>2, <3>2, <5>1, FormTable DEF FormInv, FieldsInv, Enrolling, F!Shown
        <5> QED
          BY <2>1, <2>5, <4>1, <4>2, <5>1, <5>2 DEF F!Typed
      <4>3. CASE ~creating
        BY <2>1, <2>5, <4>1, <4>3
      <4> QED
        BY <4>2, <4>3
    <3> QED
      BY <3>1, <3>2
  <2> QED
    BY <1>0, <2>1, <2>2, <2>4, <2>5 DEF ProgressInv, Altering, Enrolling
<1>4. OthersInv'
  BY <1>0 DEF FormInv, OthersInv, F!ReadMembers, F!aux, Altering
<1>5. CausesInv'
  BY <1>0 DEF FormInv, CausesInv, F!ReadMembers, F!aux, Altering, F!RefusedForACause
<1>6. RenamesInv'
  BY <1>0 DEF FormInv, RenamesInv, F!ReadMembers, F!aux, Altering
<1> QED
  BY <1>1, <1>2, <1>3, <1>4, <1>5, <1>6 DEF FormInv

(* One membership. *)
LEMMA GrantMemberStep ==
  ASSUME FormInv, NEW b \in follow, F!GrantMember(b)
  PROVE  FormInv'
<1>0. /\ UNCHANGED <<form, follow, creating, opened, draft, body>>
      /\ \A x : F!Shown(x)' = F!Shown(x) /\ (F!Typed(x)' <=> F!Typed(x)) /\ (Copied(x)' <=> Copied(x))
  <2>1. UNCHANGED <<form, follow, creating, opened, draft, body>>
    BY DEF F!GrantMember, F!Answer
  <2> QED
    BY <2>1 DEF F!Shown, F!Typed, Copied
<1>1. FieldsInv'
  BY <1>0 DEF FormInv, FieldsInv, F!GrantMember, F!Answer, F!aux
<1>2. RequestInv'
  BY <1>0 DEF FormInv, RequestInv, F!GrantMember, F!aux
<1>3. ProgressInv'
  BY <1>0 DEF FormInv, FieldsInv, RequestInv, ProgressInv, CausesInv, F!GrantMember, F!Answer,
     F!aux, Altering, Enrolling, Took, F!RefusedForACause
<1>4. OthersInv'
  <2>1. UNCHANGED <<theirs, since, carried>> /\ ~Altering'
    BY <1>0 DEF F!GrantMember, Altering, F!aux
  <2>2. b \in DOMAIN body
    BY DEF F!GrantMember, FormInv, ProgressInv, Enrolling
  <2>3. ASSUME NEW a \in follow
        PROVE  stored'[a] = stored[a] \/ (a \in DOMAIN body /\ stored'[a] = body[a])
    BY <2>2 DEF F!GrantMember, FormInv, FieldsInv
  <2>4. at # "open"
    BY DEF F!GrantMember
  <2> QED
    BY <1>0, <2>1, <2>3, <2>4, WrittenIsKnown DEF FormInv, OthersInv
<1>5. CausesInv'
  BY <1>0 DEF FormInv, CausesInv, F!GrantMember, F!Answer, Altering, F!RefusedForACause
<1>6. RenamesInv'
  BY <1>0 DEF FormInv, RenamesInv, F!GrantMember
<1> QED
  BY <1>1, <1>2, <1>3, <1>4, <1>5, <1>6 DEF FormInv

(* All memberships are as they were asked for. *)
LEMMA RoleStoredStep ==
  ASSUME FormInv, F!RoleStored
  PROVE  FormInv'
<1>0. /\ UNCHANGED <<form, follow, creating, opened, draft, body>>
      /\ \A x : F!Shown(x)' = F!Shown(x) /\ (F!Typed(x)' <=> F!Typed(x)) /\ (Copied(x)' <=> Copied(x))
  <2>1. UNCHANGED <<form, follow, creating, opened, draft, body>>
    BY DEF F!RoleStored
  <2> QED
    BY <2>1 DEF F!Shown, F!Typed, Copied
<1>1. FieldsInv'
  BY <1>0 DEF FormInv, FieldsInv, F!RoleStored, F!server, F!aux
<1>2. RequestInv'
  BY <1>0 DEF FormInv, RequestInv, F!RoleStored, F!aux
<1>3. ProgressInv'
  BY <1>0 DEF FormInv, ProgressInv, F!RoleStored, F!server, F!aux, Altering, Enrolling, Took
<1>4. OthersInv'
  BY <1>0 DEF FormInv, OthersInv, F!RoleStored, F!server, F!aux, Altering
<1>5. CausesInv'
  BY <1>0 DEF FormInv, CausesInv, F!RoleStored, Altering, F!RefusedForACause
<1>6. RenamesInv'
  BY <1>0 DEF FormInv, RenamesInv, F!RoleStored
<1> QED
  BY <1>1, <1>2, <1>3, <1>4, <1>5, <1>6 DEF FormInv

-----------------------------------------------------------------------------
(* A form that has just been opened shows what there is. *)
LEMMA InitForm == F!Init => FormInv
<1> SUFFICES ASSUME F!Init PROVE FormInv
  OBVIOUS
<1>1. /\ form \in AllForms /\ follow \subseteq F!Attributes(form) /\ creating \in BOOLEAN
      /\ exists = ~creating /\ left = FALSE
  BY DEF F!Init, AllForms
<1>2. /\ DOMAIN stored = follow /\ opened = stored /\ theirs = stored
      /\ draft = [a \in follow |-> F!Shown(a)] /\ body = <<>>
      /\ \A a \in follow : stored[a] \in IF creating THEN {F!Empty(a)} ELSE F!Firsts(a)
  BY DEF F!Init
<1>3. /\ at = "open" /\ answer = "none" /\ did = {} /\ carried = {} /\ since = {} /\ over = {}
  BY DEF F!Init
<1>4. \A a \in follow : ~F!Typed(a)
  BY <1>2 DEF F!Typed
<1>5. DOMAIN body = {}
  BY <1>2
<1>6. FieldsInv
  BY <1>1, <1>2, <1>3, <1>4, <1>5 DEF FieldsInv
<1>7. RequestInv /\ ProgressInv
  BY <1>3 DEF RequestInv, ProgressInv, Altering, Enrolling
<1>8. OthersInv /\ CausesInv /\ RenamesInv
  BY <1>2, <1>3, <1>5 DEF OthersInv, CausesInv, RenamesInv, F!RefusedForACause, Altering
<1> QED
  BY <1>6, <1>7, <1>8 DEF FormInv

(* What the form, its request, the object and the answer have to do with one another,
   whatever others do to the object meanwhile (ddl-dialogs.tsx:228, pgroles.service.ts:44). *)
THEOREM FormInvariance == F!Spec => []FormInv
<1>1. F!Init => FormInv
  BY InitForm
<1>2. FormInv /\ [F!Next]_F!vars => FormInv'
  <2> SUFFICES ASSUME FormInv, [F!Next]_F!vars PROVE FormInv'
    OBVIOUS
  <2>1. ASSUME NEW a \in follow, NEW v \in F!Typeable(a) \cup {F!Shown(a)}, F!Edit(a, v)
        PROVE  FormInv'
    BY <2>1, EditStep
  <2>2. CASE F!Save
    BY <2>2, SaveStep
  <2>3. CASE F!Reply \/ F!LoseReply
    BY <2>3, AnswerStep
  <2>4. ASSUME NEW a \in follow, NEW v \in {"theirs", "in", "out"}, F!Another(a, v)
        PROVE  FormInv'
    BY <2>4, AnotherStep
  <2>5. CASE F!RemovedByAnother
    BY <2>5, RemovedStep
  <2>6. CASE F!Refuse
    BY <2>6, RefuseStep
  <2>7. CASE F!StoreRow
    BY <2>7, StoreRowStep
  <2>8. CASE F!BeginAlter
    BY <2>8, BeginAlterStep
  <2>9. CASE F!AddColumn
    BY <2>9, AddColumnStep
  <2>10. ASSUME NEW a \in follow, F!Alter(a) PROVE FormInv'
    BY <2>10, AlterStep
  <2>11. CASE F!Commit
    BY <2>11, CommitStep
  <2>12. CASE F!StoreRole
    BY <2>12, StoreRoleStep
  <2>13. CASE F!ReadMembers
    BY <2>13, ReadMembersStep
  <2>14. ASSUME NEW a \in follow, F!GrantMember(a) PROVE FormInv'
    BY <2>14, GrantMemberStep
  <2>15. CASE F!RoleStored
    BY <2>15, RoleStoredStep
  <2>16. CASE UNCHANGED F!vars
    <3>1. UNCHANGED <<form, follow, creating, opened, draft, body>>
      BY <2>16 DEF F!vars
    <3>2. \A x : F!Shown(x)' = F!Shown(x) /\ (F!Typed(x)' <=> F!Typed(x)) /\ (Copied(x)' <=> Copied(x))
      BY <3>1 DEF F!Shown, F!Typed, Copied
    <3>3. UNCHANGED <<stored, exists, todo, work, at, answer, did, carried, left, theirs, since, over>>
      BY <2>16 DEF F!vars, F!server, F!aux
    <3> QED
      BY <3>1, <3>2, <3>3 DEF FormInv, FieldsInv, RequestInv, ProgressInv, OthersInv, CausesInv,
         RenamesInv, Altering, Enrolling, Took, F!RefusedForACause, F!Attributes
  <2> QED
    BY <2>1, <2>2, <2>3, <2>4, <2>5, <2>6, <2>7, <2>8, <2>9, <2>10, <2>11, <2>12, <2>13, <2>14,
       <2>15, <2>16 DEF F!Next
<1> QED
  BY <1>1, <1>2, PTL DEF F!Spec

(* What a form that closes was given is stored, what the user left alone is kept, a
   request is carried out as its answer says, and a refusal has a cause, for any number
   of requests and of changes by others (ddl-dialogs.tsx:228, RolesPage.tsx:177). *)
THEOREM FormsAreKept == F!Spec => []FormsAreSound
<1>1. FormInv => FormsAreSound
  <2> SUFFICES ASSUME FormInv PROVE FormsAreSound
    OBVIOUS
  <2>1. F!TypedIsStored
    BY DEF FormInv, ProgressInv, F!TypedIsStored, Took
  <2>2. F!UntouchedKept
    BY DEF FormInv, OthersInv, F!UntouchedKept
  <2>3. F!AllOrNothing
    BY DEF FormInv, CausesInv, ProgressInv, F!AllOrNothing
  <2>4. F!RefusedForACause
    BY DEF FormInv, CausesInv
  <2> QED
    BY <2>1, <2>2, <2>3, <2>4 DEF FormsAreSound, F!FormsAreSound
<1> QED
  BY <1>1, FormInvariance, PTL

-----------------------------------------------------------------------------
(* The dialogs that may be open. *)
OpenDialogs == [kind : D!Kinds, name : Names, shown : Schemas, ticked : BOOLEAN, typed : BOOLEAN]

(* A dialog and the boxes fit: it is on the page that keeps it, the structure view is
   of the schema it shows, and no box is ticked but its own, by its user. *)
Fits(d, b, slip) ==
  /\ b \in [D!Boxes -> BOOLEAN] /\ ~b["none"]
  /\ d = D!Nothing \/ d \in OpenDialogs
  /\ d # D!Nothing =>
       /\ D!Mounted(D!Kind(d.kind).host)
       /\ D!Kind(d.kind).host = "structure" => d.shown = schema
       /\ D!Kind(d.kind).host = "routines" => d.shown = schema \/ moves > 0
  /\ slip \/ \A x \in D!Boxes : b[x] => d # D!Nothing /\ D!Kind(d.kind).box = x /\ d.ticked

(* Columns that are ticked by sight are of the table that is chosen. *)
SeenIsOwn ==
  /\ DOMAIN reference = {"table", "of", "seen"}
  /\ reference.seen => reference.of = {reference.table}

(* The inductive invariant of the dialogs: every request is what its dialog showed,
   and what is open now fits the page. *)
DialogInv ==
  /\ panel \in D!Panels /\ schema \in Schemas /\ moves \in Nat /\ slipped \in BOOLEAN
  /\ pending \subseteq sent
  /\ \A r \in sent :
       /\ r.kind \in D!Kinds /\ r.schema \in Schemas
       /\ slipped \/ (r.box => r.ticked)
       /\ r.schema = r.shown \/ (r.kind = "dropRoutine" /\ moves > 0)
  /\ Fits(open, box, slipped)
  /\ SeenIsOwn /\ D!ReferencesAreShown

(* Where the dialogs of the structure view are kept, and what their success opens. *)
LEMMA StructureTable ==
  ASSUME NEW k \in DOMAIN D!StructureDialogs
  PROVE  /\ D!Kind(k).host = "structure" /\ D!Kind(k).box \in {"cascade", "none"}
         /\ D!Kind(k).leads \in {"nothing", "structure", "stay"}
         /\ D!Kind(k).hook # "form" => D!Kind(k).box = "cascade"
         /\ D!Kind(k).hook # "treeForm"
<1>1. k \in {"dropRelation", "dropPart", "truncate", "dropColumn", "dropConstraint", "rename", "form"}
  BY DEF D!StructureDialogs
<1>0. k \notin DOMAIN D!TreeDialogs
  BY <1>1 DEF D!TreeDialogs
<1>2. D!Kind(k) = D!StructureDialogs[k]
  BY <1>0 DEF D!Kind
<1>3. CASE k = "dropRelation"
  BY <1>2, <1>3 DEF D!StructureDialogs
<1>4. CASE k = "dropPart"
  BY <1>2, <1>4 DEF D!StructureDialogs
<1>5. CASE k = "truncate"
  BY <1>2, <1>5 DEF D!StructureDialogs
<1>6. CASE k = "dropColumn"
  BY <1>2, <1>6 DEF D!StructureDialogs
<1>7. CASE k = "dropConstraint"
  BY <1>2, <1>7 DEF D!StructureDialogs
<1>8. CASE k = "rename"
  BY <1>2, <1>8 DEF D!StructureDialogs
<1>9. CASE k = "form"
  BY <1>2, <1>9 DEF D!StructureDialogs
<1> QED
  BY <1>1, <1>3, <1>4, <1>5, <1>6, <1>7, <1>8, <1>9

(* The same of the dialogs of the tree. *)
LEMMA TreeTable ==
  ASSUME NEW k \in DOMAIN D!TreeDialogs
  PROVE  /\ D!Kind(k).host = "tree" /\ D!Kind(k).box \in {"treeCascade", "force", "none"}
         /\ D!Kind(k).leads \in {"structure", "stay"} /\ D!Kind(k).hook # "form"
<1>1. k \in {"dropSchema", "dropDatabase", "createTable", "createSchema"}
  BY DEF D!TreeDialogs
<1>2. k \notin DOMAIN D!StructureDialogs
  BY <1>1 DEF D!StructureDialogs
<1>3. D!Kind(k) = D!TreeDialogs[k]
  BY <1>2 DEF D!Kind
<1> QED
  BY <1>1, <1>3 DEF D!TreeDialogs

(* The same of the dialogs of the routines. *)
LEMMA RoutineTable ==
  ASSUME NEW k \in DOMAIN D!RoutineDialogs
  PROVE  /\ k = "dropRoutine" /\ D!Kind(k).host = "routines" /\ D!Kind(k).box = "none"
         /\ D!Kind(k).leads = "stay" /\ D!Kind(k).hook \notin {"form", "treeForm"}
<1>1. k = "dropRoutine"
  BY DEF D!RoutineDialogs
<1>2. k \notin DOMAIN D!StructureDialogs /\ k \notin DOMAIN D!TreeDialogs
  BY <1>1 DEF D!StructureDialogs, D!TreeDialogs
<1> QED
  BY <1>1, <1>2 DEF D!Kind, D!RoutineDialogs

(* What the steps need of the table of dialogs. *)
LEMMA DialogTable ==
  ASSUME NEW k \in D!Kinds
  PROVE  /\ D!Kind(k).box \in D!Boxes /\ D!Kind(k).host \in {"structure", "tree", "routines"}
         /\ D!Kind(k).leads \in {"nothing", "structure", "stay"}
         /\ D!Kind(k).host = "structure" =>
              /\ D!Kind(k).box \in {"cascade", "none"} /\ D!Kind(k).hook # "treeForm"
              /\ D!Kind(k).hook # "form" => D!Kind(k).box = "cascade"
         /\ D!Kind(k).host = "tree" =>
              D!Kind(k).box \in {"treeCascade", "force", "none"} /\ D!Kind(k).hook # "form"
         /\ D!Kind(k).host = "routines" =>
              /\ k = "dropRoutine" /\ D!Kind(k).box = "none" /\ D!Kind(k).leads = "stay"
              /\ D!Kind(k).hook \notin {"form", "treeForm"}
BY StructureTable, TreeTable, RoutineTable DEF D!Kinds, D!Boxes

(* A dialog that is open is not none. *)
LEMMA NotNothing == ASSUME NEW d \in OpenDialogs PROVE d # D!Nothing
BY DEF OpenDialogs, D!Nothing, D!Kinds, D!StructureDialogs, D!TreeDialogs, D!RoutineDialogs

(* Whoever opens the pages: no dialog is open and no box ticked. *)
LEMMA DialogInit == D!Init => DialogInv
<1> SUFFICES ASSUME D!Init PROVE DialogInv
    OBVIOUS
<1> USE DEF D!Init
<1>1. Fits(open, box, slipped)
  BY DEF Fits, D!Boxes
<1>2. SeenIsOwn /\ D!ReferencesAreShown
  BY DEF D!NoReference, SeenIsOwn, D!ReferencesAreShown
<1> QED
  BY <1>1, <1>2 DEF DialogInv

(* Nothing of the dialogs changes but which is open, and its boxes. *)
LEMMA UserStep ==
  ASSUME DialogInv,
         \/ \E k \in D!Kinds, name \in Names : D!OpenDialog(k, name)
         \/ D!Type \/ D!Tick \/ D!Close
  PROVE  DialogInv'
<1>1. /\ UNCHANGED <<panel, schema, mount, pending, sent, slipped, moves>>
      /\ UNCHANGED <<reference, loaded, asked>>
  BY DEF D!OpenDialog, D!Type, D!Tick, D!Close, D!forms
<1> SUFFICES Fits(open', box', slipped)
  BY <1>1 DEF DialogInv, Fits, SeenIsOwn, D!ReferencesAreShown, D!Mounted
<1>2. ASSUME NEW k \in D!Kinds, NEW name \in Names, D!OpenDialog(k, name) PROVE Fits(open', box', slipped)
  <2> DEFINE d == [kind |-> k, name |-> name, shown |-> schema, ticked |-> FALSE, typed |-> FALSE]
  <2>1. /\ open' = d /\ D!Mounted(D!Kind(k).host) /\ open = D!Nothing /\ box' = box
        /\ box \in [D!Boxes -> BOOLEAN] /\ ~box["none"]
    BY <1>2 DEF D!OpenDialog, DialogInv, Fits
  <2>2. d \in OpenDialogs /\ d.kind = k /\ d.shown = schema
    BY DEF OpenDialogs, DialogInv
  <2> HIDE DEF d
  <2> QED
    BY <2>1, <2>2 DEF DialogInv, Fits
<1>3. ASSUME open # D!Nothing
      PROVE  /\ open \in OpenDialogs /\ open.kind \in D!Kinds
             /\ D!Kind(open.kind).box \in D!Boxes
             /\ D!Kind(open.kind).host = "tree" => D!Kind(open.kind).box \in {"treeCascade", "force", "none"}
  BY <1>3, DialogTable DEF DialogInv, Fits, OpenDialogs
<1>4. CASE D!Type
  <2>1. open' = [open EXCEPT !.typed = TRUE] /\ open # D!Nothing /\ box' = box
    BY <1>4 DEF D!Type
  <2>2. /\ open' \in OpenDialogs /\ open'.kind = open.kind /\ open'.ticked = open.ticked
        /\ open'.shown = open.shown
    BY <1>3, <2>1 DEF OpenDialogs
  <2> QED
    BY <2>1, <2>2, NotNothing DEF DialogInv, Fits
<1>5. CASE D!Tick
  <2> DEFINE own == D!Kind(open.kind).box
  <2>1. /\ open' = [open EXCEPT !.ticked = ~box[own]] /\ open # D!Nothing /\ own # "none"
        /\ box' = [box EXCEPT ![own] = ~@]
    BY <1>5 DEF D!Tick
  <2>2. own \in D!Boxes /\ own = D!Kind(open.kind).box
    BY <1>3, <2>1
  <2> HIDE DEF own
  <2>3. box \in [D!Boxes -> BOOLEAN] /\ box[own] \in BOOLEAN
    BY <2>2 DEF DialogInv, Fits
  <2>4. /\ open' \in OpenDialogs /\ open'.kind = open.kind /\ open'.ticked = ~box[own]
        /\ open'.shown = open.shown
    BY <1>3, <2>1, <2>3 DEF OpenDialogs
  <2>5. /\ box' \in [D!Boxes -> BOOLEAN] /\ box'["none"] = box["none"]
        /\ \A b \in D!Boxes : box'[b] <=> IF b = own THEN ~box[b] ELSE box[b]
    BY <2>1, <2>2, <2>3 DEF D!Boxes
  <2> QED
    BY <2>1, <2>2, <2>4, <2>5, NotNothing DEF DialogInv, Fits
<1>6. CASE D!Close
  <2> DEFINE k == D!Kind(open.kind)
  <2>1. /\ open' = D!Nothing /\ open # D!Nothing
        /\ box' = IF k.host = "tree" THEN [box EXCEPT !["treeCascade"] = FALSE, !["force"] = FALSE]
                  ELSE [box EXCEPT ![k.box] = FALSE]
    BY <1>6 DEF D!Close
  <2>2. /\ k.box \in D!Boxes /\ k.host = "tree" => k.box \in {"treeCascade", "force", "none"}
        /\ k = D!Kind(open.kind)
    BY <1>3, <2>1
  <2> HIDE DEF k
  <2>3. box \in [D!Boxes -> BOOLEAN] /\ ~box["none"]
    BY DEF DialogInv, Fits
  <2>4. /\ box' \in [D!Boxes -> BOOLEAN] /\ ~box'["none"]
        /\ \A b \in D!Boxes : box'[b] => box[b] /\ b # k.box
    <3>1. CASE k.host = "tree"
      BY <2>1, <2>2, <2>3, <3>1 DEF D!Boxes
    <3>2. CASE k.host # "tree"
      BY <2>1, <2>2, <2>3, <3>2 DEF D!Boxes
    <3> QED
      BY <3>1, <3>2
  <2> QED
    BY <2>1, <2>2, <2>4 DEF DialogInv, Fits
<1> QED
  BY <1>2, <1>4, <1>5, <1>6

(* What is asked for is what the dialog shows. *)
LEMMA ConfirmStep ==
  ASSUME DialogInv, D!Confirm
  PROVE  DialogInv'
<1> DEFINE k == D!Kind(open.kind)
<1> DEFINE r == [id |-> D!Cardinality(sent), kind |-> open.kind, name |-> open.name,
                 schema |-> IF k.host = "tree" THEN open.shown ELSE schema,
                 box |-> box[k.box], mount |-> IF k.host = "structure" THEN mount ELSE 0,
                 shown |-> open.shown, ticked |-> open.ticked]
<1>1. /\ open # D!Nothing /\ sent' = sent \cup {r} /\ pending' = pending \cup {r}
      /\ UNCHANGED <<panel, schema, open, box, slipped, moves, reference, asked>>
  BY DEF D!Confirm, D!forms
<1>2. /\ r.kind = open.kind /\ r.schema = (IF k.host = "tree" THEN open.shown ELSE schema)
      /\ r.box = box[k.box] /\ r.shown = open.shown /\ r.ticked = open.ticked
      /\ k = D!Kind(open.kind)
  OBVIOUS
<1> HIDE DEF k, r
<1>3. /\ open.kind \in D!Kinds /\ open.shown \in Schemas /\ k.box \in D!Boxes
      /\ k.host \in {"structure", "tree", "routines"}
      /\ k.host = "routines" => open.kind = "dropRoutine"
  BY <1>1, <1>2, DialogTable DEF DialogInv, Fits, OpenDialogs
<1>4. /\ r.kind \in D!Kinds /\ r.schema \in Schemas
      /\ slipped \/ (r.box => r.ticked)
      /\ r.schema = r.shown \/ (r.kind = "dropRoutine" /\ moves > 0)
  BY <1>1, <1>2, <1>3 DEF DialogInv, Fits
<1> QED
  BY <1>1, <1>4 DEF DialogInv, Fits, SeenIsOwn, D!ReferencesAreShown, D!Mounted

(* A page changes, and takes the dialogs with it that it kept. *)
LEMMA Arrives ==
  ASSUME panel \in D!Panels, moves \in Nat, NEW p \in D!Panels, NEW s, NEW another,
         NEW opened0, NEW boxes, NEW slip,
         Fits(opened0, boxes, slip), D!Arrive(p, s, another, opened0, boxes),
         panel = "structure" => p # panel \/ s # schema \/ another,
         moves' \in {moves, moves + 1},
         panel = "routines" => p # panel \/ s = schema \/ moves' > 0
  PROVE  /\ open' = D!Nothing \/ open' \in OpenDialogs
         /\ open' # D!Nothing =>
              /\ D!Kind(open'.kind).host \in {"tree", panel'}
              /\ D!Kind(open'.kind).host = "structure" => open'.shown = schema'
              /\ D!Kind(open'.kind).host = "routines" => open'.shown = schema' \/ moves' > 0
         /\ box' \in [D!Boxes -> BOOLEAN] /\ ~box'["none"]
         /\ slip \/ \A x \in D!Boxes : box'[x] => open' # D!Nothing /\ D!Kind(open'.kind).box = x /\ open'.ticked
<1> DEFINE anew == panel = "structure" /\ (p # panel \/ s # schema \/ another)
<1> DEFINE gone == opened0 # D!Nothing /\ \/ anew /\ D!Kind(opened0.kind).host = "structure"
                                          \/ p # panel /\ D!Kind(opened0.kind).host = panel
<1>1. /\ panel' = p /\ schema' = s
      /\ open' = (IF gone THEN D!Nothing ELSE opened0)
      /\ box' = (IF anew THEN [boxes EXCEPT !["cascade"] = FALSE] ELSE boxes)
  BY DEF D!Arrive
<1>2. /\ anew <=> panel = "structure"
      /\ gone <=> opened0 # D!Nothing /\ \/ panel = "structure" /\ D!Kind(opened0.kind).host = "structure"
                                         \/ p # panel /\ D!Kind(opened0.kind).host = panel
  OBVIOUS
<1> HIDE DEF anew, gone
<1>3. /\ boxes \in [D!Boxes -> BOOLEAN] /\ ~boxes["none"] /\ (opened0 = D!Nothing \/ opened0 \in OpenDialogs)
      /\ opened0 # D!Nothing =>
           /\ D!Kind(opened0.kind).host \in {"tree", panel}
           /\ D!Kind(opened0.kind).host = "structure" => opened0.shown = schema
           /\ D!Kind(opened0.kind).host = "routines" => opened0.shown = schema \/ moves > 0
      /\ slip \/ \A x \in D!Boxes : boxes[x] => opened0 # D!Nothing /\ D!Kind(opened0.kind).box = x /\ opened0.ticked
  BY DEF Fits, D!Mounted
<1>4. opened0 # D!Nothing =>
        /\ D!Kind(opened0.kind).host \in {"structure", "tree", "routines"} /\ D!Kind(opened0.kind).box \in D!Boxes
        /\ D!Kind(opened0.kind).host = "structure" => D!Kind(opened0.kind).box \in {"cascade", "none"}
        /\ D!Kind(opened0.kind).host = "routines" => D!Kind(opened0.kind).box = "none"
  BY <1>3, DialogTable DEF OpenDialogs
<1>5. /\ box' \in [D!Boxes -> BOOLEAN]
      /\ \A x \in D!Boxes : box'[x] => boxes[x] /\ (panel = "structure" => x # "cascade")
      /\ ~box'["none"]
  BY <1>1, <1>2, <1>3 DEF D!Boxes
<1>6. open' = D!Nothing \/ open' = opened0
  BY <1>1
<1>7. ASSUME open' # D!Nothing
      PROVE  /\ D!Kind(open'.kind).host \in {"tree", panel'}
             /\ D!Kind(open'.kind).host = "structure" => open'.shown = schema'
             /\ D!Kind(open'.kind).host = "routines" => open'.shown = schema' \/ moves' > 0
  <2>1. open' = opened0 /\ opened0 # D!Nothing /\ ~gone
    BY <1>1, <1>7
  <2>2. CASE D!Kind(opened0.kind).host = "tree"
    BY <2>1, <2>2
  <2>3. CASE D!Kind(opened0.kind).host # "tree"
    BY <1>1, <1>2, <1>3, <1>4, <2>1, <2>3
  <2> QED
    BY <2>2, <2>3
<1>8. slip \/ \A x \in D!Boxes : box'[x] => open' # D!Nothing /\ D!Kind(open'.kind).box = x /\ open'.ticked
  <2> SUFFICES ASSUME ~slip, NEW x \in D!Boxes, box'[x]
               PROVE  open' # D!Nothing /\ D!Kind(open'.kind).box = x /\ open'.ticked
      OBVIOUS
  <2>1. opened0 # D!Nothing /\ D!Kind(opened0.kind).box = x /\ opened0.ticked /\ x # "none"
    BY <1>3, <1>5
  <2>2. ~gone
    BY <1>2, <1>4, <1>5, <2>1 DEF D!Panels
  <2> QED
    BY <1>1, <2>1, <2>2
<1> QED
  BY <1>3, <1>5, <1>6, <1>7, <1>8

(* A form of a foreign key that is shut shows no columns. *)
LEMMA NothingIsSeen ==
  /\ DOMAIN D!NoReference = {"table", "of", "seen"}
  /\ ~D!NoReference.seen
BY DEF D!NoReference

(* The user goes elsewhere. *)
LEMMA MoveStep ==
  ASSUME DialogInv, NEW p \in D!Panels, NEW s \in Schemas, D!Move(p, s)
  PROVE  DialogInv'
<1>1. /\ moves' = moves + 1 /\ (p # panel \/ s # schema) /\ D!Arrive(p, s, FALSE, open, box)
      /\ UNCHANGED <<pending, sent, slipped, asked>>
      /\ reference' = D!NoReference \/ reference' = reference
  BY DEF D!Move
<1>2. /\ panel \in D!Panels /\ moves \in Nat /\ moves' \in Nat /\ moves' > 0
      /\ panel' = p /\ schema' = s /\ Fits(open, box, slipped)
  BY <1>1 DEF DialogInv, D!Arrive
<1>3. Fits(open, box, slipped)'
  BY <1>1, <1>2, Arrives DEF Fits, D!Mounted
<1>4. SeenIsOwn'
  BY <1>1, NothingIsSeen DEF DialogInv, SeenIsOwn
<1> QED
  BY <1>1, <1>2, <1>3, <1>4 DEF DialogInv, D!ReferencesAreShown

(* An answer shuts what is open in its slot and clears its box, and may lead on. *)
LEMMA SucceedStep ==
  ASSUME DialogInv, NEW r \in pending, D!Succeed(r)
  PROVE  DialogInv'
<1> DEFINE k == D!Kind(r.kind)
<1> DEFINE there == D!Mounted(k.host) /\ (k.host = "structure" => r.mount = mount)
<1> DEFINE shut == there /\ open # D!Nothing /\ D!Kind(open.kind).host = k.host
                     /\ D!Kind(open.kind).slot = k.slot
<1> DEFINE reset == IF k.host = "tree" THEN [box EXCEPT !["treeCascade"] = FALSE, !["force"] = FALSE]
                    ELSE [box EXCEPT ![k.box] = FALSE]
<1> DEFINE boxes == IF there /\ (k.hook = "treeForm" => shut) THEN reset ELSE box
<1> DEFINE opened0 == IF shut THEN D!Nothing ELSE open
<1>1. /\ pending' = pending \ {r} /\ UNCHANGED <<sent, asked, moves>>
      /\ slipped' = (slipped \/ (k.hook = "form" /\ shut /\ \E b \in D!Boxes : boxes[b]))
      /\ IF k.leads = "stay"
         THEN open' = opened0 /\ box' = boxes /\ UNCHANGED <<panel, schema, mount, reference>>
         ELSE /\ D!Arrive(k.leads, r.schema, TRUE, opened0, boxes)
              /\ reference' = D!NoReference \/ reference' = reference
  BY DEF D!Succeed
<1>2. /\ panel \in D!Panels /\ moves \in Nat /\ slipped' \in BOOLEAN /\ (slipped => slipped')
      /\ r.kind \in D!Kinds /\ r.schema \in Schemas
      /\ box \in [D!Boxes -> BOOLEAN] /\ ~box["none"]
      /\ open = D!Nothing \/ open \in OpenDialogs
  BY <1>1 DEF DialogInv, Fits
<1>3. /\ k.box \in D!Boxes /\ k.leads \in {"nothing", "structure", "stay"}
      /\ k.host \in {"structure", "tree", "routines"}
      /\ k.host = "structure" => (k.hook # "form" => k.box = "cascade") /\ k.hook # "treeForm"
      /\ k.host = "tree" => k.hook # "form"
      /\ k.host = "routines" => k.hook # "form" /\ k.hook # "treeForm"
  BY <1>2, DialogTable
<1>4. open # D!Nothing =>
        /\ D!Kind(open.kind).host = "structure" => D!Kind(open.kind).box \in {"cascade", "none"}
        /\ D!Kind(open.kind).host = "tree" => D!Kind(open.kind).box \in {"treeCascade", "force", "none"}
        /\ D!Kind(open.kind).host = "routines" => D!Kind(open.kind).box = "none"
  BY <1>2, DialogTable DEF OpenDialogs
<1>5. /\ boxes \in [D!Boxes -> BOOLEAN] /\ ~boxes["none"]
      /\ \A x \in D!Boxes : boxes[x] => box[x]
      /\ shut /\ k.host = "tree" => ~boxes["treeCascade"] /\ ~boxes["force"]
      /\ shut /\ k.host = "structure" => ~boxes[k.box]
  <2>1. /\ reset \in [D!Boxes -> BOOLEAN] /\ ~reset["none"]
        /\ \A x \in D!Boxes : reset[x] => box[x]
        /\ k.host = "tree" => ~reset["treeCascade"] /\ ~reset["force"]
        /\ k.host = "structure" => ~reset[k.box]
    <3>1. CASE k.host = "tree"
      BY <1>2, <3>1 DEF D!Boxes
    <3>2. CASE k.host # "tree"
      <4>1. reset = [box EXCEPT ![k.box] = FALSE]
        BY <3>2
      <4> HIDE DEF reset, k
      <4> QED
        BY <1>2, <1>3, <3>2, <4>1 DEF D!Boxes
    <3> QED
      BY <3>1, <3>2
  <2> HIDE DEF reset
  <2>2. shut => there
    OBVIOUS
  <2> HIDE DEF k, shut, there
  <2> QED
    BY <1>2, <1>3, <2>1, <2>2
<1>6. opened0 = D!Nothing \/ opened0 = open
  OBVIOUS
<1>7. Fits(opened0, boxes, slipped')
  <2> SUFFICES ASSUME ~slipped', NEW x \in D!Boxes, boxes[x]
               PROVE  opened0 # D!Nothing /\ D!Kind(opened0.kind).box = x /\ opened0.ticked
    <3> HIDE DEF opened0, boxes
    <3> QED
      BY <1>2, <1>5, <1>6 DEF DialogInv, Fits
  <2>1. open # D!Nothing /\ D!Kind(open.kind).box = x /\ open.ticked /\ x # "none"
    BY <1>1, <1>2, <1>5 DEF DialogInv, Fits
  <2>2. ~shut
    <3> SUFFICES ASSUME shut PROVE FALSE
        OBVIOUS
    <3>1. D!Kind(open.kind).host = k.host
      OBVIOUS
    <3>2. k.hook # "form"
      BY <1>1
    <3> HIDE DEF k, shut, boxes
    <3> QED
      BY <1>3, <1>4, <1>5, <2>1, <3>1, <3>2
  <2> QED
    BY <2>1, <2>2
<1> HIDE DEF k, there, shut, reset, boxes, opened0
<1>8. panel' \in D!Panels /\ schema' \in Schemas
  BY <1>1, <1>2, <1>3 DEF D!Arrive, D!Panels, DialogInv
<1>9. Fits(open, box, slipped)'
  <2>1. CASE k.leads = "stay"
    BY <1>1, <1>7, <2>1 DEF Fits, D!Mounted
  <2>2. CASE k.leads # "stay"
    <3>1. k.leads \in D!Panels /\ k.leads # "routines" /\ D!Arrive(k.leads, r.schema, TRUE, opened0, boxes)
      BY <1>1, <1>3, <2>2 DEF D!Panels
    <3> QED
      BY <1>1, <1>2, <1>7, <3>1, Arrives DEF Fits, D!Mounted
  <2> QED
    BY <2>1, <2>2
<1>10. SeenIsOwn'
  BY <1>1, NothingIsSeen DEF DialogInv, SeenIsOwn
<1> QED
  BY <1>1, <1>2, <1>8, <1>9, <1>10 DEF DialogInv, D!ReferencesAreShown

(* A failure leaves what is open, and the form of a foreign key is by itself. *)
LEMMA ReferenceStep ==
  ASSUME DialogInv,
         \/ \E r \in pending : D!Fail(r)
         \/ \E t \in Tables : D!ChooseTable(t)
         \/ D!Load \/ D!ChooseSchema \/ D!Create
  PROVE  DialogInv'
<1>1. /\ UNCHANGED <<panel, schema, open, box, sent, slipped, moves>> /\ pending' \subseteq pending
  BY DEF D!Fail, D!ChooseTable, D!Load, D!ChooseSchema, D!Create, D!dialogs, D!forms
<1>2. SeenIsOwn' /\ D!ReferencesAreShown'
  <2> USE DEF DialogInv, SeenIsOwn, D!ReferencesAreShown
  <2>1. CASE \E r \in pending : D!Fail(r)
    BY <2>1 DEF D!Fail, D!forms
  <2>2. ASSUME NEW t \in Tables, D!ChooseTable(t) PROVE SeenIsOwn' /\ D!ReferencesAreShown'
    <3>1. /\ reference' = [table |-> t, of |-> IF t \in loaded THEN {t} ELSE reference.of,
                           seen |-> t \in loaded]
          /\ asked' = asked
      BY <2>2 DEF D!ChooseTable, D!dialogs
    <3>2. /\ reference'.table = t /\ (reference'.seen <=> t \in loaded)
          /\ reference'.of = IF t \in loaded THEN {t} ELSE reference.of
      BY <3>1
    <3>3. DOMAIN reference' = {"table", "of", "seen"}
      BY <3>1
    <3> QED
      BY <3>1, <3>2, <3>3
  <2>3. CASE D!Load
    <3>1. /\ reference' = [reference EXCEPT !.of = {reference.table}, !.seen = TRUE]
          /\ asked' = asked
      BY <2>3 DEF D!Load, D!dialogs
    <3>2. reference'.table = reference.table /\ reference'.of = {reference.table}
      BY <3>1
    <3>3. DOMAIN reference' = {"table", "of", "seen"}
      BY <3>1
    <3> QED
      BY <3>1, <3>2, <3>3
  <2>4. CASE D!ChooseSchema \/ D!Create
    BY <2>4, NothingIsSeen DEF D!ChooseSchema, D!Create
  <2> QED
    BY <2>1, <2>2, <2>3, <2>4
<1> QED
  BY <1>1, <1>2 DEF DialogInv, Fits, D!Mounted

(* The inductive invariant of the dialogs. *)
THEOREM DialogInvariance == D!Spec => []DialogInv
<1>1. DialogInv /\ [D!Next]_D!vars => DialogInv'
  <2> SUFFICES ASSUME DialogInv, [D!Next]_D!vars PROVE DialogInv'
      OBVIOUS
  <2>1. CASE UNCHANGED D!vars
    BY <2>1 DEF D!vars, D!dialogs, D!forms, DialogInv, Fits, D!Mounted, SeenIsOwn, D!ReferencesAreShown
  <2>2. CASE D!Next
    BY <2>2, UserStep, ConfirmStep, MoveStep, SucceedStep, ReferenceStep DEF D!Next
  <2> QED
    BY <2>1, <2>2
<1> QED
  BY <1>1, DialogInit, PTL DEF D!Spec

(* What is dropped, and whether with CASCADE, is what the dialog showed, for any
   schemas, names and tables, and however late the answers are. *)
THEOREM DialogsAreKept == D!Spec => []DialogsAreSound
<1>1. DialogInv => DialogsAreSound
  <2> SUFFICES ASSUME DialogInv PROVE DialogsAreSound
      OBVIOUS
  <2>1. open # D!Nothing => D!Kind(open.kind).box \in D!Boxes
    BY DialogTable DEF DialogInv, Fits, OpenDialogs
  <2>2. D!BoxesAreTicked
    BY <2>1 DEF DialogInv, Fits, D!BoxesAreTicked
  <2>3. D!DropsWhatWasShown /\ D!ReferencesAreShown
    BY DEF DialogInv, Fits, D!DropsWhatWasShown
  <2> QED
    BY <2>2, <2>3 DEF DialogsAreSound, D!DialogsAreSound
<1> QED
  BY <1>1, DialogInvariance, PTL

-----------------------------------------------------------------------------
Tab     == [id : Nat, text : Nat]

(* A list of tabs. *)
TabSeqs == Seq(Tab)

(* A list of tabs: every tab once, and unless it is empty one of them active. *)
Listed(tabs, act, most) ==
  /\ tabs \in TabSeqs /\ act \in Nat
  /\ \A i, j \in 1 .. Len(tabs) : tabs[i].id = tabs[j].id => i = j
  /\ \A i \in 1 .. Len(tabs) : tabs[i].id <= most
  /\ tabs # <<>> => \E i \in 1 .. Len(tabs) : tabs[i].id = act

(* What is stored, or shown, of a connection. *)
IsList(w, most) ==
  /\ w = [tabs |-> w.tabs, active |-> w.active]
  /\ Listed(w.tabs, w.active, most)
  /\ w.tabs = <<>> => w = P!NoTabs

(* A tab with its text is in a list. *)
Holds(tabs, id, text) == \E i \in 1 .. Len(tabs) : tabs[i] = [id |-> id, text |-> text]

(* The address and what is typed are of their types. *)
PlacesTyped ==
  /\ page \in {"away", "sql", "inline"} /\ conn \in Connections /\ db \in Databases
  /\ ids \in Nat /\ texts \in Nat
  /\ stash # P!None => stash.text \in Nat
  /\ drafts \in [Connections \X Databases -> Nat]

(* Whoever writes the lists; with one window and one connection the page shows the
   list that is stored, and it holds what was typed. *)
ListsKept ==
  /\ DOMAIN lists = Connections
  /\ \A c \in Connections : IsList(lists[c], ids)
  /\ page = "sql" => IsList(state, ids) /\ state.tabs # <<>>
  /\ page = "sql" /\ ~foreign => state = lists[conn]
  /\ ~foreign => \A n \in DOMAIN typed :
       typed[n].conn \in Connections /\ Holds(lists[typed[n].conn].tabs, n, typed[n].text)

(* The tabs, the address and what was typed. *)
TabsInv == PlacesTyped /\ ListsKept

(* Statements that were sent. *)
Posted == [conn : Connections, db : Databases, text : Nat, from : Nat \cup (Connections \X Databases),
           mount : Nat, at : {"sent", "canceled", "answered"}]

(* No statement of this mount of the page is under way but the one it shows as running,
   and an answer that is shown belongs to what is above it. *)
AnswersInv ==
  /\ execs \in Seq(Posted) /\ mounts \in Nat /\ strayed \in BOOLEAN
  /\ response \in 0 .. Len(execs) /\ running \in 0 .. Len(execs) /\ waiting = running
  /\ \A n \in 1 .. Len(execs) :
       /\ execs[n].mount \in 0 .. mounts
       /\ execs[n].mount = mounts /\ execs[n].at # "answered" => n = running
  /\ P!ShowsOwnAnswer

(* A question that is open is about the address, unless that has changed under it. *)
QuestionInv ==
  /\ asking # P!None => moved \/ (asking.conn = conn /\ asking.db = db)
  /\ P!AnalyzesWhatWasAsked

-----------------------------------------------------------------------------
(* At first there are no tabs. *)
LEMMA InitTabs == P!Init => TabsInv
<1>1. IsList(P!NoTabs, 0)
  BY DEF IsList, Listed, P!NoTabs, TabSeqs, Tab
<1> QED
  BY <1>1, PlacesAssumption DEF P!Init, TabsInv, PlacesTyped, ListsKept, P!None

(* Nothing has been sent. *)
LEMMA InitAnswers == P!Init => AnswersInv
<1> SUFFICES ASSUME P!Init PROVE AnswersInv
  OBVIOUS
<1>1. P!ShowsOwnAnswer
  BY DEF P!Init, P!ShowsOwnAnswer
<1>2. strayed \in BOOLEAN
  BY DEF P!Init
<1>3. /\ execs \in Seq(Posted) /\ mounts \in Nat /\ Len(execs) = 0
      /\ response \in 0 .. Len(execs) /\ running \in 0 .. Len(execs) /\ waiting = running
  BY DEF P!Init
<1> QED
  BY <1>1, <1>2, <1>3 DEF AnswersInv

(* Nothing has been asked. *)
LEMMA InitQuestion == P!Init => QuestionInv
BY DEF P!Init, QuestionInv, P!AnalyzesWhatWasAsked, P!None

(* What a question is about stays, step by step. *)
LEMMA QuestionStep == ASSUME QuestionInv, P!Next PROVE QuestionInv'
<1>0. ASSUME P!Fresh, analyzed' = analyzed PROVE QuestionInv'
  BY <1>0 DEF P!Fresh, QuestionInv, P!AnalyzesWhatWasAsked
<1>00. ASSUME UNCHANGED <<conn, db, P!question>> PROVE QuestionInv'
  BY <1>00 DEF P!question, QuestionInv, P!AnalyzesWhatWasAsked
<1>1. ASSUME NEW c \in Connections, NEW d \in Databases, P!OpenPage(c, d) PROVE QuestionInv'
  BY <1>1, <1>0 DEF P!OpenPage, P!Mount
<1>2. ASSUME NEW c \in Connections, NEW d \in Databases, P!OpenPane(c, d) PROVE QuestionInv'
  BY <1>2, <1>0 DEF P!OpenPane
<1>3. CASE P!HandOff
  BY <1>3, <1>0 DEF P!HandOff, P!Mount
<1>4. CASE P!HandOffDiverted \/ P!Leave
  BY <1>4, <1>0 DEF P!HandOffDiverted, P!Leave
<1>5. ASSUME NEW d \in Databases, P!SetDb(d) PROVE QuestionInv'
  <2>1. CASE page = "inline"
    BY <1>5, <2>1, <1>0 DEF P!SetDb
  <2>2. CASE page # "inline"
    BY <1>5, <2>2 DEF P!SetDb, QuestionInv, P!AnalyzesWhatWasAsked
  <2> QED
    BY <2>1, <2>2
<1>6. ASSUME NEW c \in Connections, P!Jump(c) PROVE QuestionInv'
  BY <1>6 DEF P!Jump, QuestionInv, P!AnalyzesWhatWasAsked
<1>7. ASSUME NEW c \in Connections, P!OtherWindow(c) PROVE QuestionInv'
  BY <1>7, <1>00 DEF P!OtherWindow, P!places
<1>8. CASE P!updateTabSql \/ P!addTab \/ P!Draft
  BY <1>8, <1>00 DEF P!updateTabSql, P!addTab, P!Draft, P!places
<1>9. ASSUME NEW id, P!closeTab(id) \/ P!switchTab(id) PROVE QuestionInv'
  BY <1>9, <1>00 DEF P!closeTab, P!switchTab, P!places
<1>10. CASE P!run \/ P!cancel
  BY <1>10, <1>00 DEF P!run, P!cancel, P!places
<1>11. CASE P!runExplain
  BY <1>11 DEF P!runExplain, QuestionInv, P!AnalyzesWhatWasAsked, P!places
<1>12. CASE P!confirmAnalyze
  <2>1. /\ analyzed' = analyzed \cup {[asked |-> asking, text |-> asking.text, conn |-> conn, db |-> db,
                                        moved |-> moved]}
        /\ asking' = P!None /\ asking # P!None
    BY <1>12 DEF P!confirmAnalyze
  <2> QED
    BY <2>1 DEF QuestionInv, P!AnalyzesWhatWasAsked
<1>13. ASSUME NEW n \in DOMAIN execs, NEW ok \in BOOLEAN, P!Answer(n, ok) PROVE QuestionInv'
  BY <1>13, <1>00 DEF P!Answer, P!places
<1> QED
  BY <1>1, <1>2, <1>3, <1>4, <1>5, <1>6, <1>7, <1>8, <1>9, <1>10, <1>11, <1>12, <1>13 DEF P!Next
-----------------------------------------------------------------------------
(* A statement is cancelled or answered. *)
Mark(s, i, how) == [s EXCEPT ![i].at = how]

(* A statement that ends stays what it was. *)
LEMMA Marked ==
  ASSUME NEW s \in Seq(Posted), NEW i \in 1 .. Len(s), NEW how \in {"canceled", "answered"}
  PROVE  /\ Mark(s, i, how) \in Seq(Posted) /\ Len(Mark(s, i, how)) = Len(s)
         /\ \A k \in 1 .. Len(s) :
              /\ Mark(s, i, how)[k].mount = s[k].mount /\ Mark(s, i, how)[k].from = s[k].from
              /\ Mark(s, i, how)[k].conn = s[k].conn
              /\ Mark(s, i, how)[k].at = IF k = i THEN how ELSE s[k].at
<1>1. s[i] \in Posted
  OBVIOUS
<1> DEFINE x == [s[i] EXCEPT !.at = how]
<1>2. /\ x \in Posted /\ x.mount = s[i].mount /\ x.from = s[i].from /\ x.conn = s[i].conn /\ x.at = how
  BY <1>1 DEF Posted
<1>3. Mark(s, i, how) = [s EXCEPT ![i] = x]
  BY DEF Mark
<1> HIDE DEF x
<1>4. LET z == Mark(s, i, how) IN
      z \in Seq(Posted) /\ Len(z) = Len(s) /\ \A k \in 1 .. Len(s) : z[k] = IF k = i THEN x ELSE s[k]
  BY <1>2, <1>3
<1> QED
  BY <1>2, <1>4

(* What the page shows an answer of: a tab, or a database. *)
LEMMA ShownPlace == ASSUME TabsInv PROVE P!Showing \in Nat \cup (Connections \X Databases)
<1>1. page = "sql" => state.active \in Nat
  BY DEF TabsInv, ListsKept, IsList, Listed
<1>2. P!Key \in Connections \X Databases
  BY DEF TabsInv, PlacesTyped, P!Key
<1> QED
  BY <1>1, <1>2 DEF P!Showing, TabsInv, PlacesTyped

(* There is a text on every page. *)
LEMMA TypedText == ASSUME TabsInv, page # "away" PROVE P!Text \in Nat
<1>1. CASE page = "sql"
  <2>1. state.tabs \in Seq(Tab) /\ \E i \in 1 .. Len(state.tabs) : state.tabs[i].id = state.active
    BY <1>1 DEF TabsInv, ListsKept, IsList, Listed, TabSeqs
  <2>2. PICK i \in 1 .. Len(state.tabs) : state.tabs[i].id = state.active
    BY <2>1
  <2>3. state.tabs[i] \in P!Range(state.tabs)
    BY <2>1 DEF P!Range
  <2>4. \A t \in P!Range(state.tabs) : t.text \in Nat
    <3>1. \A k \in 1 .. Len(state.tabs) : state.tabs[k] \in Tab
      BY <2>1
    <3>2. \A x \in Tab : x.text \in Nat
      BY DEF Tab
    <3> QED
      BY <2>1, <3>1, <3>2 DEF P!Range
  <2>5. P!TextOf(state.tabs, state.active) \in Nat
    BY <2>2, <2>3, <2>4 DEF P!TextOf
  <2> QED
    BY <1>1, <2>5 DEF P!Text
<1>2. CASE page = "inline"
  <2>1. P!Key \in Connections \X Databases
    BY DEF TabsInv, PlacesTyped, P!Key
  <2> QED
    BY <1>2, <2>1 DEF TabsInv, PlacesTyped, P!Text
<1> QED
  BY <1>1, <1>2 DEF TabsInv, PlacesTyped

(* Statements and answers stay as they should, step by step. *)
LEMMA AnswersStep == ASSUME TabsInv, AnswersInv, TabsInv', P!Next PROVE AnswersInv'
<1>0. ASSUME P!Fresh, UNCHANGED execs PROVE AnswersInv'
  <2>1. /\ mounts' = mounts + 1 /\ response' = 0 /\ running' = 0 /\ waiting' = 0 /\ strayed' = FALSE
    BY <1>0 DEF P!Fresh
  <2>2. \A n \in 1 .. Len(execs) : execs[n].mount \in 0 .. (mounts + 1) /\ execs[n].mount # mounts + 1
    BY DEF AnswersInv
  <2>3. mounts \in Nat /\ Len(execs) \in Nat /\ execs \in Seq(Posted)
    BY DEF AnswersInv
  <2>4. P!ShowsOwnAnswer'
    BY <2>1 DEF P!ShowsOwnAnswer
  <2>5. strayed' \in BOOLEAN
    BY <2>1
  <2> QED
    BY <1>0, <2>1, <2>2, <2>3, <2>4, <2>5 DEF AnswersInv
<1>1. ASSUME NEW c \in Connections, NEW d \in Databases, P!OpenPage(c, d) PROVE AnswersInv'
  BY <1>1, <1>0 DEF P!OpenPage, P!Mount
<1>2. ASSUME NEW c \in Connections, NEW d \in Databases, P!OpenPane(c, d) PROVE AnswersInv'
  BY <1>2, <1>0 DEF P!OpenPane
<1>3. CASE P!HandOff
  BY <1>3, <1>0 DEF P!HandOff, P!Mount
<1>4. CASE P!HandOffDiverted \/ P!Leave
  BY <1>4, <1>0 DEF P!HandOffDiverted, P!Leave
<1>5. ASSUME NEW d \in Databases, P!SetDb(d) PROVE AnswersInv'
  <2>1. CASE page = "inline"
    BY <1>5, <2>1, <1>0 DEF P!SetDb
  <2>2. CASE page = "sql"
    <3>1. UNCHANGED <<execs, mounts, response, running, waiting, strayed, page, conn>> /\ P!Showing' = P!Showing
      BY <1>5, <2>2 DEF P!SetDb, P!Showing
    <3> QED
      BY <3>1 DEF AnswersInv, P!ShowsOwnAnswer
  <2> QED
    BY <1>5, <2>1, <2>2 DEF P!SetDb, TabsInv, PlacesTyped
<1>6. ASSUME NEW c \in Connections, P!Jump(c) PROVE AnswersInv'
  BY <1>6 DEF P!Jump, AnswersInv, P!ShowsOwnAnswer
<1>7. ASSUME UNCHANGED <<execs, mounts, running, waiting, P!places>>, strayed' \in BOOLEAN,
             \/ UNCHANGED <<response, strayed, P!Showing>>
             \/ response' = 0
             \/ UNCHANGED response /\ strayed' = (strayed \/ response # 0)
      PROVE  AnswersInv'
  <2>1. response' \in 0 .. Len(execs)
    BY <1>7 DEF AnswersInv
  <2>2. P!ShowsOwnAnswer'
    <3> SUFFICES ASSUME page # "away", response' # 0, ~strayed'
                 PROVE  execs[response'].from = P!Showing' /\ execs[response'].conn = conn
      BY <1>7 DEF P!ShowsOwnAnswer, P!places
    <3>1. UNCHANGED <<response, strayed, P!Showing>>
      BY <1>7
    <3> QED
      BY <3>1 DEF AnswersInv, P!ShowsOwnAnswer
  <2> QED
    BY <1>7, <2>1, <2>2 DEF AnswersInv
<1>70. strayed \in BOOLEAN /\ execs \in Seq(Posted)
  BY DEF AnswersInv
<1>8. ASSUME NEW c \in Connections, P!OtherWindow(c) PROVE AnswersInv'
  BY <1>8, <1>7, <1>70 DEF P!OtherWindow, P!places, P!shown, P!Showing, P!Key
<1>9. CASE P!updateTabSql
  <2>1. state'.active = state.active
    BY <1>9 DEF P!updateTabSql, P!Keep, TabsInv, ListsKept, IsList
  <2> QED
    BY <1>9, <2>1, <1>7, <1>70 DEF P!updateTabSql, P!places, P!shown, P!Showing
<1>10. CASE P!addTab
  BY <1>10, <1>7, <1>70 DEF P!addTab, P!places
<1>11. CASE P!Draft
  BY <1>11, <1>7, <1>70 DEF P!Draft, P!places, P!shown, P!Showing, P!Key
<1>12. ASSUME NEW id, P!closeTab(id) PROVE AnswersInv'
  <2>1. CASE state.active = id
    BY <1>12, <2>1, <1>7, <1>70 DEF P!closeTab, P!places
  <2>2. CASE state.active # id
    <3>1. UNCHANGED P!Showing /\ (strayed' = (strayed \/ FALSE))
      BY <1>12, <2>2 DEF P!closeTab, P!places, P!Showing, P!Keep
    <3> QED
      BY <1>12, <2>2, <3>1, <1>7, <1>70 DEF P!closeTab, AnswersInv, P!ShowsOwnAnswer, P!places
  <2> QED
    BY <2>1, <2>2
<1>13. ASSUME NEW id, P!switchTab(id) PROVE AnswersInv'
  BY <1>13, <1>7, <1>70 DEF P!switchTab, P!places
<1>14. CASE P!run
  <2> DEFINE e == [conn |-> conn, db |-> db, text |-> P!Text, from |-> P!Showing, mount |-> mounts, at |-> "sent"]
             N == Len(execs) + 1
  <2>1. /\ execs' = Append(execs, e) /\ running' = N /\ waiting' = N /\ waiting = 0
        /\ UNCHANGED <<P!places, state, response, strayed, mounts>> /\ page # "away"
    BY <1>14 DEF P!run, P!Unoccupied
  <2>2. e \in Posted
    BY <2>1, TypedText, ShownPlace DEF Posted, TabsInv, PlacesTyped, AnswersInv
  <2>3. e.mount = mounts
    OBVIOUS
  <2> HIDE DEF e
  <2>4. /\ execs' \in Seq(Posted) /\ Len(execs') = N /\ N \in Nat
        /\ \A n \in 1 .. Len(execs) : execs'[n] = execs[n]
        /\ execs'[N] = e
    BY <2>1, <2>2, <1>70, AppendProperties
  <2>5. \A n \in 1 .. Len(execs) : execs[n].mount = mounts => execs[n].at = "answered"
    BY <2>1 DEF AnswersInv
  <2>6. \A n \in 1 .. N : /\ execs'[n].mount \in 0 .. mounts
                          /\ execs'[n].mount = mounts /\ execs'[n].at # "answered" => n = N
    BY <2>3, <2>4, <2>5 DEF AnswersInv
  <2>7. P!Showing' = P!Showing
    BY <2>1 DEF P!Showing, P!places, P!Key
  <2>8. response # 0 => response \in 1 .. Len(execs)
    BY DEF AnswersInv
  <2>9. P!ShowsOwnAnswer'
    BY <2>1, <2>4, <2>7, <2>8 DEF AnswersInv, P!ShowsOwnAnswer, P!places
  <2> QED
    BY <2>1, <2>4, <2>6, <2>9 DEF AnswersInv
<1>15. CASE P!cancel
  <2>1. /\ execs' = [execs EXCEPT ![running].at = "canceled"]
        /\ running # 0 /\ execs[running].at = "sent"
        /\ UNCHANGED <<P!places, state, response, strayed, running, waiting, mounts>>
    BY <1>15 DEF P!cancel, P!shown
  <2>2. running \in 1 .. Len(execs)
    BY <2>1 DEF AnswersInv
  <2>3. /\ execs' \in Seq(Posted) /\ Len(execs') = Len(execs)
        /\ \A n \in 1 .. Len(execs) :
             /\ execs'[n].mount = execs[n].mount /\ execs'[n].from = execs[n].from
             /\ execs'[n].conn = execs[n].conn
             /\ execs'[n].at = IF n = running THEN "canceled" ELSE execs[n].at
    <3>1. execs' = Mark(execs, running, "canceled")
      BY <2>1 DEF Mark
    <3> QED
      BY <3>1, <2>2, <1>70, Marked
  <2>4. P!Showing' = P!Showing
    BY <2>1 DEF P!Showing, P!places, P!Key
  <2>5. response # 0 => response \in 1 .. Len(execs)
    BY DEF AnswersInv
  <2>6. P!ShowsOwnAnswer'
    BY <2>1, <2>3, <2>4, <2>5 DEF AnswersInv, P!ShowsOwnAnswer, P!places
  <2>7. \A n \in 1 .. Len(execs) : /\ execs'[n].mount \in 0 .. mounts
                          /\ execs'[n].mount = mounts /\ execs'[n].at # "answered" => n = running
    BY <2>1, <2>3 DEF AnswersInv
  <2> QED
    BY <2>1, <2>3, <2>6, <2>7 DEF AnswersInv
<1>16. CASE P!runExplain \/ P!confirmAnalyze
  BY <1>16, <1>7, <1>70 DEF P!runExplain, P!confirmAnalyze, P!places, P!shown, P!Showing, P!Key
<1>17. ASSUME NEW n \in DOMAIN execs, NEW ok \in BOOLEAN, P!Answer(n, ok) PROVE AnswersInv'
  <2> DEFINE own == execs[n].mount = mounts
  <2>0. execs[n].mount = mounts <=> own
    OBVIOUS
  <2>1. /\ execs' = [execs EXCEPT ![n].at = "answered"] /\ execs[n].at # "answered"
        /\ UNCHANGED <<P!places, state, mounts>>
        /\ own => /\ running' = 0 /\ waiting' = IF waiting = n THEN 0 ELSE waiting
                  /\ response' = IF ok THEN n ELSE response
                  /\ strayed' = IF ok THEN execs[n].from # P!Showing \/ execs[n].conn # conn ELSE strayed
        /\ ~own => UNCHANGED <<running, waiting, response, strayed>>
    BY <1>17 DEF P!Answer
  <2> HIDE DEF own
  <2>2. n \in 1 .. Len(execs)
    BY <1>70
  <2>3. /\ execs' \in Seq(Posted) /\ Len(execs') = Len(execs)
        /\ \A k \in 1 .. Len(execs) :
             /\ execs'[k].mount = execs[k].mount /\ execs'[k].from = execs[k].from
             /\ execs'[k].conn = execs[k].conn
             /\ execs'[k].at = IF k = n THEN "answered" ELSE execs[k].at
    <3>1. execs' = Mark(execs, n, "answered")
      BY <2>1 DEF Mark
    <3> QED
      BY <3>1, <2>2, <1>70, Marked
  <2>4. own => n = running
    BY <2>0, <2>1, <2>2 DEF AnswersInv
  <2>5. /\ running' \in 0 .. Len(execs) /\ waiting' = running' /\ response' \in 0 .. Len(execs)
    BY <2>1, <2>2, <2>4 DEF AnswersInv
  <2>6. strayed' \in BOOLEAN
    <3>1. CASE own /\ ok
      BY <2>1, <3>1
    <3>2. CASE ~(own /\ ok)
      BY <2>1, <3>2, <1>70
    <3> QED
      BY <3>1, <3>2
  <2>7. P!Showing' = P!Showing
    BY <2>1 DEF P!Showing, P!places, P!Key
  <2>8. response # 0 => response \in 1 .. Len(execs)
    BY DEF AnswersInv
  <2>9. P!ShowsOwnAnswer'
    <3>1. CASE own /\ ok
      BY <2>1, <2>2, <2>3, <2>7, <3>1 DEF P!ShowsOwnAnswer, P!places
    <3>2. CASE ~(own /\ ok)
      <4>1. response' = response /\ strayed' = strayed
        BY <2>1, <3>2
      <4> QED
        BY <2>1, <2>3, <2>7, <2>8, <4>1 DEF P!ShowsOwnAnswer, P!places, AnswersInv
    <3> QED
      BY <3>1, <3>2
  <2>10. \A k \in 1 .. Len(execs) : /\ execs'[k].mount \in 0 .. mounts
                          /\ execs'[k].mount = mounts /\ execs'[k].at # "answered" => k = running'
    BY <2>0, <2>1, <2>3, <2>4 DEF AnswersInv
  <2> QED
    BY <2>1, <2>3, <2>5, <2>6, <2>9, <2>10 DEF AnswersInv
<1> QED
  BY <1>1, <1>2, <1>3, <1>4, <1>5, <1>6, <1>8, <1>9, <1>10, <1>11, <1>12, <1>13, <1>14, <1>15,
     <1>16, <1>17 DEF P!Next
-----------------------------------------------------------------------------
(* Tabs of a list are numbered. *)
LEMMA ListedTabs ==
  ASSUME NEW tabs, NEW act, NEW m, Listed(tabs, act, m)
  PROVE  /\ tabs \in Seq(Tab) /\ Len(tabs) \in Nat
         /\ \A i \in 1 .. Len(tabs) : tabs[i] \in Tab /\ tabs[i].id \in Nat /\ tabs[i].id <= m
<1>1. tabs \in Seq(Tab) /\ Len(tabs) \in Nat
  BY DEF Listed, TabSeqs
<1>2. \A i \in 1 .. Len(tabs) : tabs[i] \in Tab
  BY <1>1
<1>3. \A x \in Tab : x.id \in Nat
  BY DEF Tab
<1> QED
  BY <1>1, <1>2, <1>3 DEF Listed

(* A list stays one when more tabs are made. *)
LEMMA MoreIds ==
  ASSUME NEW w, NEW m \in Nat, NEW k \in Nat, m <= k, IsList(w, m)
  PROVE  IsList(w, k)
<1>1. Listed(w.tabs, w.active, m)
  BY DEF IsList
<1>2. \A i \in 1 .. Len(w.tabs) : w.tabs[i].id \in Nat
  BY <1>1, ListedTabs
<1>3. Listed(w.tabs, w.active, k)
  BY <1>1, <1>2 DEF Listed
<1> QED
  BY <1>3 DEF IsList

(* A tab is opened at the end of a list. *)
WithTab(tabs, m, text) == Append(tabs, [id |-> m + 1, text |-> text])

(* It is active there, and the others are as they were. *)
LEMMA TabAppended ==
  ASSUME NEW tabs, NEW act, NEW m \in Nat, NEW text \in Nat, Listed(tabs, act, m)
  PROVE  LET z == WithTab(tabs, m, text) IN
         /\ Listed(z, m + 1, m + 1) /\ z # <<>> /\ Holds(z, m + 1, text)
         /\ \A n, x : Holds(tabs, n, x) => Holds(z, n, x)
<1> DEFINE t == [id |-> m + 1, text |-> text]
           z == WithTab(tabs, m, text)
<1>1. t \in Tab /\ t.id = m + 1
  BY DEF Tab
<1>2. tabs \in Seq(Tab) /\ z = Append(tabs, t)
  BY DEF Listed, TabSeqs, WithTab
<1>3. t = [id |-> m + 1, text |-> text]
  OBVIOUS
<1> HIDE DEF t, z
<1>4. /\ z \in Seq(Tab) /\ z # <<>> /\ Len(z) = Len(tabs) + 1
      /\ \A i \in 1 .. Len(tabs) : z[i] = tabs[i]
      /\ z[Len(tabs) + 1] = t /\ Len(tabs) \in Nat
  BY <1>1, <1>2, AppendProperties
<1>5. \A i \in 1 .. Len(tabs) : tabs[i].id \in Nat /\ tabs[i].id <= m
  BY ListedTabs
<1>6. Holds(z, m + 1, text)
  BY <1>3, <1>4 DEF Holds
<1>7. \A n, x : Holds(tabs, n, x) => Holds(z, n, x)
  BY <1>4 DEF Holds
<1>8. \A i, j \in 1 .. Len(z) : z[i].id = z[j].id => i = j
  BY <1>1, <1>4, <1>5 DEF Listed
<1>9. \A i \in 1 .. Len(z) : z[i].id <= m + 1
  BY <1>1, <1>4, <1>5
<1>10. \E i \in 1 .. Len(z) : z[i].id = m + 1
  BY <1>1, <1>4
<1>11. Listed(z, m + 1, m + 1)
  <2>1. z \in TabSeqs /\ m + 1 \in Nat
    BY <1>4 DEF TabSeqs
  <2> QED
    BY <2>1, <1>8, <1>9, <1>10 DEF Listed
<1> QED
  BY <1>4, <1>6, <1>7, <1>11 DEF z

(* The list in which a tab has another text. *)
Retyped(tabs, act, text) ==
  [i \in DOMAIN tabs |-> IF tabs[i].id = act THEN [tabs[i] EXCEPT !.text = text] ELSE tabs[i]]

(* The text of the active tab is replaced. *)
LEMMA TabTyped ==
  ASSUME NEW tabs, NEW act, NEW m \in Nat, NEW text \in Nat, Listed(tabs, act, m), tabs # <<>>
  PROVE  /\ Listed(Retyped(tabs, act, text), act, m) /\ Retyped(tabs, act, text) # <<>>
         /\ Holds(Retyped(tabs, act, text), act, text)
         /\ \A n, x : Holds(tabs, n, x) /\ n # act => Holds(Retyped(tabs, act, text), n, x)
<1> DEFINE z == Retyped(tabs, act, text)
<1>1. tabs \in Seq(Tab) /\ Len(tabs) \in Nat /\ DOMAIN tabs = 1 .. Len(tabs)
  BY DEF Listed, TabSeqs
<1>2. \A i \in 1 .. Len(tabs) : tabs[i] \in Tab
  BY <1>1
<1>3. \A i \in 1 .. Len(tabs) :
        /\ z[i] = IF tabs[i].id = act THEN [id |-> act, text |-> text] ELSE tabs[i]
        /\ z[i] \in Tab /\ z[i].id = tabs[i].id
  BY <1>1, <1>2 DEF Tab, Retyped
<1>4. z \in Seq(Tab) /\ Len(z) = Len(tabs)
  <2>1. DOMAIN z = 1 .. Len(tabs)
    BY <1>1 DEF Retyped
  <2>2. z = [i \in 1 .. Len(tabs) |-> z[i]]
    BY <1>1 DEF Retyped
  <2> QED
    BY <2>2, <1>1, <1>3, IsASeq
<1> HIDE DEF z
<1>5. z # <<>>
  BY <1>1, <1>4
<1>6. PICK i \in 1 .. Len(tabs) : tabs[i].id = act
  BY DEF Listed
<1>7. Holds(z, act, text)
  BY <1>3, <1>4, <1>6 DEF Holds
<1>8. \A n, x : Holds(tabs, n, x) /\ n # act => Holds(z, n, x)
  BY <1>3, <1>4 DEF Holds
<1>9. /\ \A k, j \in 1 .. Len(z) : z[k].id = z[j].id => k = j
      /\ \A k \in 1 .. Len(z) : z[k].id <= m
      /\ \E k \in 1 .. Len(z) : z[k].id = act
  BY <1>3, <1>4, <1>6 DEF Listed
<1> QED
  BY <1>4, <1>5, <1>7, <1>8, <1>9 DEF Listed, TabSeqs, z

(* A tab is closed: the one that was active leaves it to the last. *)
LEMMA TabClosed ==
  ASSUME NEW tabs, NEW act, NEW m \in Nat, Listed(tabs, act, m), Len(tabs) > 1,
         NEW i \in 1 .. Len(tabs), NEW z, z = P!RemoveAt(tabs, i)
  PROVE  /\ Listed(z, IF act = tabs[i].id THEN z[Len(z)].id ELSE act, m) /\ z # <<>>
         /\ \A n, x : Holds(tabs, n, x) /\ n # tabs[i].id => Holds(z, n, x)
<1> DEFINE N == Len(tabs)
           a == SubSeq(tabs, 1, i - 1)
           b == SubSeq(tabs, i + 1, N)
<1>1. tabs \in Seq(Tab) /\ N \in Nat /\ N > 1
  BY DEF Listed, TabSeqs
<1>2. \A k \in 1 .. N : tabs[k] \in Tab
  BY <1>1
<1>3. /\ a \in Seq(Tab) /\ Len(a) = i - 1 /\ \A k \in 1 .. i - 1 : a[k] = tabs[k]
  <2>1. 1 \in Int /\ i - 1 \in Int /\ \A k \in 1 .. i - 1 : tabs[k] \in Tab
    BY <1>1, <1>2
  <2>2. /\ a \in Seq(Tab) /\ Len(a) = IF 1 <= i - 1 THEN (i - 1) - 1 + 1 ELSE 0
        /\ \A k \in 1 .. (i - 1) - 1 + 1 : a[k] = tabs[1 + k - 1]
    BY <2>1, SubSeqProperties
  <2> QED
    BY <1>1, <2>2
<1>4. /\ b \in Seq(Tab) /\ Len(b) = N - i /\ \A k \in 1 .. N - i : b[k] = tabs[i + k]
  <2>1. i + 1 \in Int /\ N \in Int /\ \A k \in i + 1 .. N : tabs[k] \in Tab
    BY <1>1, <1>2
  <2>2. /\ b \in Seq(Tab) /\ Len(b) = IF i + 1 <= N THEN N - (i + 1) + 1 ELSE 0
        /\ \A k \in 1 .. N - (i + 1) + 1 : b[k] = tabs[i + 1 + k - 1]
    BY <2>1, SubSeqProperties
  <2> QED
    BY <1>1, <2>2
<1>5. z = a \o b
  BY DEF P!RemoveAt
<1> HIDE DEF a, b
<1>6. /\ z \in Seq(Tab) /\ Len(z) = N - 1
      /\ \A k \in 1 .. N - 1 : z[k] = IF k <= i - 1 THEN tabs[k] ELSE tabs[k + 1]
  <2>1. /\ z \in Seq(Tab) /\ Len(z) = Len(a) + Len(b)
        /\ \A k \in 1 .. Len(a) + Len(b) : z[k] = IF k <= Len(a) THEN a[k] ELSE b[k - Len(a)]
    <3>1. a \in Seq(Tab) /\ b \in Seq(Tab)
      BY <1>3, <1>4
    <3>2. /\ a \o b \in Seq(Tab) /\ Len(a \o b) = Len(a) + Len(b)
          /\ \A k \in 1 .. Len(a) + Len(b) : (a \o b)[k] = IF k <= Len(a) THEN a[k] ELSE b[k - Len(a)]
      BY <3>1, ConcatProperties
    <3> QED
      BY <3>2, <1>5
  <2>2. Len(a) + Len(b) = N - 1
    BY <1>1, <1>3, <1>4
  <2>3. ASSUME NEW k \in 1 .. N - 1 PROVE z[k] = IF k <= i - 1 THEN tabs[k] ELSE tabs[k + 1]
    <3>1. CASE k <= i - 1
      BY <1>1, <1>3, <2>1, <2>2, <3>1
    <3>2. CASE ~(k <= i - 1)
      <4>1. k - (i - 1) \in 1 .. N - i /\ i + (k - (i - 1)) = k + 1
        BY <1>1, <3>2
      <4>2. z[k] = b[k - (i - 1)]
        BY <1>1, <1>3, <2>1, <2>2, <3>2
      <4> QED
        BY <4>1, <4>2, <1>4, <3>2
    <3> QED
      BY <3>1, <3>2
  <2> QED
    BY <2>1, <2>2, <2>3
<1>7. z # <<>>
  BY <1>1, <1>6
<1>8. \A k \in 1 .. N : k # i => \E j \in 1 .. N - 1 : z[j] = tabs[k]
  <2> TAKE k \in 1 .. N
  <2>1. CASE k < i
    BY <1>1, <1>6, <2>1
  <2>2. CASE k > i
    <3>1. k - 1 \in 1 .. N - 1 /\ ~(k - 1 <= i - 1) /\ (k - 1) + 1 = k
      BY <1>1, <2>2
    <3> QED
      BY <3>1, <1>6
  <2> QED
    BY <2>1, <2>2
<1>9. \A n, x : Holds(tabs, n, x) /\ n # tabs[i].id => Holds(z, n, x)
  <2> SUFFICES ASSUME NEW n, NEW x, Holds(tabs, n, x), n # tabs[i].id PROVE Holds(z, n, x)
    OBVIOUS
  <2>1. PICK k \in 1 .. N : tabs[k] = [id |-> n, text |-> x]
    BY DEF Holds
  <2>2. k # i
    BY <2>1
  <2>3. PICK j \in 1 .. N - 1 : z[j] = tabs[k]
    BY <2>2, <1>8
  <2> QED
    BY <2>1, <2>3, <1>6 DEF Holds
<1>10. \A k, j \in 1 .. N - 1 : z[k].id = z[j].id => k = j
  <2> SUFFICES ASSUME NEW k \in 1 .. N - 1, NEW j \in 1 .. N - 1, z[k].id = z[j].id PROVE k = j
    OBVIOUS
  <2> DEFINE was(h) == IF h <= i - 1 THEN h ELSE h + 1
  <2>1. was(k) \in 1 .. N /\ was(j) \in 1 .. N /\ z[k] = tabs[was(k)] /\ z[j] = tabs[was(j)]
    BY <1>1, <1>6
  <2>2. was(k) = was(j)
    BY <2>1 DEF Listed
  <2> QED
    BY <2>2, <1>1
<1>11. \A k \in 1 .. N - 1 : z[k].id <= m /\ z[k].id \in Nat
  <2> TAKE k \in 1 .. N - 1
  <2>1. \E j \in 1 .. N : z[k] = tabs[j]
    BY <1>1, <1>6
  <2> QED
    BY <2>1, ListedTabs
<1>12. CASE act = tabs[i].id
  BY <1>1, <1>6, <1>7, <1>9, <1>10, <1>11, <1>12 DEF Listed, TabSeqs
<1>13. CASE act # tabs[i].id
  <2>1. PICK k \in 1 .. N : tabs[k].id = act
    BY <1>1 DEF Listed
  <2>2. PICK j \in 1 .. N - 1 : z[j] = tabs[k]
    BY <1>8, <1>13, <2>1
  <2>3. act \in Nat
    BY DEF Listed
  <2> QED
    BY <1>6, <1>7, <1>9, <1>10, <1>11, <1>13, <2>1, <2>2, <2>3 DEF Listed, TabSeqs
<1> QED
  BY <1>12, <1>13
(* The address and what is typed stay of their types. *)
LEMMA PlacesStep == ASSUME TabsInv, P!Next PROVE PlacesTyped'
<1> USE DEF PlacesTyped
<1>0. PlacesTyped
  BY DEF TabsInv
<1>a. ASSUME UNCHANGED <<P!places, ids, texts, stash, drafts>> PROVE PlacesTyped'
  BY <1>0, <1>a DEF P!places
<1>b. ASSUME NEW c \in Connections, NEW d \in Databases, NEW text, P!Mount(c, d, text), texts' \in Nat
      PROVE  PlacesTyped'
  BY <1>0, <1>b DEF P!Mount
<1>1. ASSUME NEW c \in Connections, NEW d \in Databases, P!OpenPage(c, d) PROVE PlacesTyped'
  BY <1>0, <1>1, <1>b DEF P!OpenPage
<1>2. ASSUME NEW c \in Connections, NEW d \in Databases, P!OpenPane(c, d) PROVE PlacesTyped'
  BY <1>0, <1>2 DEF P!OpenPane
<1>3. CASE P!HandOff
  BY <1>0, <1>3, <1>b DEF P!HandOff
<1>4. CASE P!HandOffDiverted
  BY <1>0, <1>4 DEF P!HandOffDiverted
<1>5. CASE P!Leave
  BY <1>0, <1>5 DEF P!Leave
<1>6. ASSUME NEW d \in Databases, P!SetDb(d) PROVE PlacesTyped'
  BY <1>0, <1>6 DEF P!SetDb
<1>7. ASSUME NEW c \in Connections, P!Jump(c) PROVE PlacesTyped'
  BY <1>0, <1>7 DEF P!Jump
<1>8. ASSUME NEW c \in Connections, P!OtherWindow(c) PROVE PlacesTyped'
  BY <1>0, <1>8 DEF P!OtherWindow, P!places
<1>9. CASE P!updateTabSql
  BY <1>0, <1>9 DEF P!updateTabSql, P!places
<1>10. CASE P!addTab
  BY <1>0, <1>10 DEF P!addTab, P!places
<1>11. CASE P!Draft
  <2>1. /\ UNCHANGED <<page, conn, db, ids, stash>> /\ texts' = texts + 1
        /\ drafts' = [drafts EXCEPT ![P!Key] = texts + 1]
    BY <1>11 DEF P!Draft, P!places
  <2>2. drafts' \in [Connections \X Databases -> Nat]
    <3>1. texts + 1 \in Nat /\ drafts \in [Connections \X Databases -> Nat]
      BY <1>0
    <3> HIDE DEF PlacesTyped
    <3> QED
      BY <2>1, <3>1
  <2> QED
    BY <2>1, <2>2, <1>0
<1>12. ASSUME NEW id, P!closeTab(id) \/ P!switchTab(id) PROVE PlacesTyped'
  BY <1>12, <1>a DEF P!closeTab, P!switchTab
<1>13. CASE P!run \/ P!cancel \/ P!runExplain \/ P!confirmAnalyze
  BY <1>13, <1>a DEF P!run, P!cancel, P!runExplain, P!confirmAnalyze
<1>14. ASSUME NEW n \in DOMAIN execs, NEW ok \in BOOLEAN, P!Answer(n, ok) PROVE PlacesTyped'
  BY <1>14, <1>a DEF P!Answer
<1> QED
  BY <1>1, <1>2, <1>3, <1>4, <1>5, <1>6, <1>7, <1>8, <1>9, <1>10, <1>11, <1>12, <1>13, <1>14 DEF P!Next

(* The page shows a list, and stores it for its connection. *)
LEMMA ListKept ==
  ASSUME TabsInv, PlacesTyped', ids <= ids', NEW c \in Connections, NEW w,
         P!Keep(w, c), IsList(w, ids'), w.tabs # <<>>, page' = "sql", conn' = c, foreign' = foreign,
         ~foreign => \A n \in DOMAIN typed' :
           \/ typed'[n].conn = c /\ Holds(w.tabs, n, typed'[n].text)
           \/ n \in DOMAIN typed /\ typed'[n] = typed[n] /\ typed[n].conn # c
  PROVE  ListsKept'
<1>1. /\ lists' = [lists EXCEPT ![c] = w] /\ state' = w /\ DOMAIN lists = Connections
      /\ \A e \in Connections : IsList(lists[e], ids)
      /\ ids \in Nat /\ ids' \in Nat
  BY DEF P!Keep, TabsInv, ListsKept, PlacesTyped
<1>2. \A e \in Connections : IsList(lists[e], ids')
  BY <1>1, MoreIds
<1>3. \A e \in Connections : lists'[e] = IF e = c THEN w ELSE lists[e]
  BY <1>1
<1>4. ~foreign => \A n \in DOMAIN typed' :
        typed'[n].conn \in Connections /\ Holds(lists'[typed'[n].conn].tabs, n, typed'[n].text)
  <2> SUFFICES ASSUME ~foreign, NEW n \in DOMAIN typed'
               PROVE  typed'[n].conn \in Connections /\ Holds(lists'[typed'[n].conn].tabs, n, typed'[n].text)
    OBVIOUS
  <2>1. CASE typed'[n].conn = c /\ Holds(w.tabs, n, typed'[n].text)
    BY <1>3, <2>1
  <2>2. CASE n \in DOMAIN typed /\ typed'[n] = typed[n] /\ typed[n].conn # c
    BY <1>3, <2>2 DEF TabsInv, ListsKept
  <2> QED
    BY <2>1, <2>2
<1>5. DOMAIN lists' = Connections /\ lists'[c] = w
  BY <1>1
<1> QED
  BY <1>1, <1>2, <1>3, <1>4, <1>5 DEF ListsKept

(* A page is mounted: it loads the list of its connection, and adds the text that was
   left for it. *)
LEMMA MountKeeps ==
  ASSUME TabsInv, PlacesTyped', NEW c \in Connections, NEW d \in Databases, NEW text,
         text # P!None => text.text \in Nat, P!Mount(c, d, text)
  PROVE  ListsKept'
<1> DEFINE copied == P!loadTabs(c)
           next   == IF copied = lists[c] THEN ids + 1 ELSE ids + 2
<1>1. ids \in Nat /\ IsList(lists[c], ids) /\ page' = "sql" /\ conn' = c /\ foreign' = foreign
  BY DEF P!Mount, TabsInv, PlacesTyped, ListsKept
<1>2. /\ IsList(copied, next - 1) /\ copied.tabs # <<>> /\ next \in Nat /\ ids < next
      /\ lists[c].tabs # <<>> => copied = lists[c]
  <2>1. CASE lists[c] # P!NoTabs
    <3>1. copied = lists[c] /\ next - 1 = ids /\ next \in Nat
      BY <1>1, <2>1 DEF P!loadTabs
    <3> QED
      BY <1>1, <2>1, <3>1 DEF IsList
  <2>2. CASE lists[c] = P!NoTabs
    <3> DEFINE t == [id |-> ids + 1, text |-> 0]
    <3>1. copied = [tabs |-> <<t>>, active |-> ids + 1] /\ lists[c].tabs = <<>>
      BY <2>2 DEF P!loadTabs, P!NoTabs
    <3>2. t \in Tab /\ t.id = ids + 1
      BY <1>1 DEF Tab
    <3> HIDE DEF t
    <3>3. /\ <<t>> \in Seq(Tab) /\ Len(<<t>>) = 1 /\ <<t>>[1] = t /\ <<t>> # <<>>
      BY <3>2
    <3>4. copied # lists[c]
      BY <3>1, <3>3
    <3>5. next = ids + 2 /\ next - 1 = ids + 1
      BY <1>1, <3>4
    <3>6. Listed(<<t>>, ids + 1, ids + 1)
      BY <1>1, <3>2, <3>3 DEF Listed, TabSeqs
    <3>7. copied.tabs = <<t>> /\ copied.active = ids + 1
      BY <3>1
    <3> QED
      BY <1>1, <3>1, <3>3, <3>5, <3>6, <3>7 DEF IsList
  <2> QED
    BY <2>1, <2>2
<1>3. ~foreign => \A n \in DOMAIN typed :
        typed[n].conn = c => Holds(copied.tabs, n, typed[n].text)
  <2> SUFFICES ASSUME ~foreign, NEW n \in DOMAIN typed, typed[n].conn = c
               PROVE  Holds(copied.tabs, n, typed[n].text)
    OBVIOUS
  <2>1. Holds(lists[c].tabs, n, typed[n].text)
    BY DEF TabsInv, ListsKept
  <2>2. lists[c].tabs # <<>>
    BY <2>1 DEF Holds
  <2> QED
    BY <2>1, <2>2, <1>2
<1>4. CASE text = P!None
  <2>1. P!Keep(copied, c) /\ ids' = next - 1 /\ typed' = typed
    BY <1>4 DEF P!Mount
  <2>2. ids <= ids'
    BY <1>1, <1>2, <2>1
  <2> HIDE DEF copied, next
  <2> QED
    BY <1>1, <1>2, <1>3, <2>1, <2>2, ListKept
<1>5. CASE text # P!None
  <2> DEFINE z == Append(copied.tabs, [id |-> next, text |-> text.text])
             w == [tabs |-> z, active |-> next]
  <2>1. /\ P!Keep(w, c) /\ ids' = next
        /\ typed' = [n \in DOMAIN typed \cup {next} |->
                       IF n = next THEN [conn |-> c, text |-> text.text] ELSE typed[n]]
    BY <1>5 DEF P!Mount
  <2>2. Listed(copied.tabs, copied.active, next - 1) /\ next - 1 \in Nat /\ (next - 1) + 1 = next
    BY <1>1, <1>2 DEF IsList
  <2>3. w.tabs = z /\ w.active = next /\ w = [tabs |-> w.tabs, active |-> w.active]
    OBVIOUS
  <2>4. z = Append(copied.tabs, [id |-> next, text |-> text.text])
    OBVIOUS
  <2> HIDE DEF copied, next, z, w
  <2>5. /\ Listed(z, next, next) /\ z # <<>> /\ Holds(z, next, text.text)
        /\ \A n, x : Holds(copied.tabs, n, x) => Holds(z, n, x)
    <3> DEFINE m == next - 1
    <3>1. Listed(copied.tabs, copied.active, m) /\ m \in Nat /\ m + 1 = next
      BY <2>2
    <3>2. text.text \in Nat
      BY <1>5
    <3> HIDE DEF m
    <3>3. z = WithTab(copied.tabs, m, text.text)
      BY <2>4, <3>1 DEF WithTab
    <3>4. /\ Listed(z, m + 1, m + 1) /\ z # <<>> /\ Holds(z, m + 1, text.text)
          /\ \A n, x : Holds(copied.tabs, n, x) => Holds(z, n, x)
      BY <3>1, <3>2, <3>3, TabAppended
    <3> QED
      BY <3>1, <3>4
  <2>6. IsList(w, next) /\ w.tabs # <<>>
    BY <2>3, <2>5 DEF IsList
  <2>7. ~foreign => \A n \in DOMAIN typed' :
           \/ typed'[n].conn = c /\ Holds(w.tabs, n, typed'[n].text)
           \/ n \in DOMAIN typed /\ typed'[n] = typed[n] /\ typed[n].conn # c
    BY <1>3, <2>1, <2>3, <2>5
  <2>8. ids <= ids'
    BY <1>1, <1>2, <2>1
  <2> QED
    BY <1>1, <2>1, <2>6, <2>7, <2>8, ListKept
<1> QED
  BY <1>4, <1>5

(* A text is typed. *)
LEMMA TypingKeeps == ASSUME TabsInv, PlacesTyped', P!updateTabSql PROVE ListsKept'
<1> DEFINE act == state.active
           z   == Retyped(state.tabs, act, texts + 1)
           w   == [tabs |-> z, active |-> act]
<1>1. /\ page = "sql" /\ IsList(state, ids) /\ state.tabs # <<>> /\ conn \in Connections
      /\ ids \in Nat /\ texts \in Nat /\ (~foreign => state = lists[conn])
  BY DEF P!updateTabSql, TabsInv, PlacesTyped, ListsKept
<1>2. state = [tabs |-> state.tabs, active |-> act]
  BY <1>1 DEF IsList
<1>3. /\ P!Keep([state EXCEPT !.tabs = z], conn)
      /\ typed' = [n \in DOMAIN typed \cup {act} |->
                     IF n = act THEN [conn |-> conn, text |-> texts + 1] ELSE typed[n]]
      /\ UNCHANGED <<page, conn, foreign, ids>>
  BY DEF P!updateTabSql, P!places, Retyped
<1>4. [state EXCEPT !.tabs = z] = w
  BY <1>2
<1>5. w.tabs = z /\ w.active = act /\ w = [tabs |-> w.tabs, active |-> w.active]
  OBVIOUS
<1>6. /\ Listed(z, act, ids) /\ z # <<>> /\ Holds(z, act, texts + 1)
      /\ \A n, x : Holds(state.tabs, n, x) /\ n # act => Holds(z, n, x)
  <2>1. Listed(state.tabs, act, ids) /\ texts + 1 \in Nat
    BY <1>1 DEF IsList
  <2> QED
    BY <1>1, <2>1, TabTyped
<1> HIDE DEF z, w, act
<1>7. IsList(w, ids) /\ w.tabs # <<>>
  BY <1>5, <1>6 DEF IsList
<1>8. ~foreign => \A n \in DOMAIN typed' :
        \/ typed'[n].conn = conn /\ Holds(w.tabs, n, typed'[n].text)
        \/ n \in DOMAIN typed /\ typed'[n] = typed[n] /\ typed[n].conn # conn
  <2> SUFFICES ASSUME ~foreign, NEW n \in DOMAIN typed',
                      ~(n \in DOMAIN typed /\ typed'[n] = typed[n] /\ typed[n].conn # conn)
               PROVE  typed'[n].conn = conn /\ Holds(w.tabs, n, typed'[n].text)
    OBVIOUS
  <2>1. CASE n = act
    BY <1>3, <1>5, <1>6, <2>1
  <2>2. CASE n # act
    <3>1. n \in DOMAIN typed /\ typed'[n] = typed[n] /\ typed[n].conn = conn
      BY <1>3, <2>2
    <3>2. Holds(state.tabs, n, typed[n].text)
      BY <1>1, <3>1 DEF TabsInv, ListsKept
    <3> QED
      BY <1>5, <1>6, <2>2, <3>1, <3>2
  <2> QED
    BY <2>1, <2>2
<1>9. P!Keep(w, conn) /\ page' = "sql" /\ conn' = conn /\ foreign' = foreign /\ ids <= ids' /\ ids' = ids
  BY <1>1, <1>3, <1>4
<1> QED
  BY <1>1, <1>7, <1>8, <1>9, ListKept

(* A tab is added. *)
LEMMA AddingKeeps == ASSUME TabsInv, PlacesTyped', P!addTab PROVE ListsKept'
<1> DEFINE z == WithTab(state.tabs, ids, 0)
           w == [tabs |-> z, active |-> ids + 1]
<1>1. /\ page = "sql" /\ IsList(state, ids) /\ conn \in Connections
      /\ ids \in Nat /\ (~foreign => state = lists[conn])
  BY DEF P!addTab, TabsInv, PlacesTyped, ListsKept
<1>2. /\ P!Keep(w, conn) /\ typed' = typed /\ ids' = ids + 1
      /\ page' = "sql" /\ conn' = conn /\ foreign' = foreign
  BY DEF P!addTab, P!places, WithTab
<1>3. /\ Listed(z, ids + 1, ids + 1) /\ z # <<>>
      /\ \A n, x : Holds(state.tabs, n, x) => Holds(z, n, x)
  BY <1>1, TabAppended DEF IsList
<1>4. w.tabs = z /\ w.active = ids + 1 /\ w = [tabs |-> w.tabs, active |-> w.active]
  OBVIOUS
<1> HIDE DEF z, w
<1>5. IsList(w, ids') /\ w.tabs # <<>>
  BY <1>2, <1>3, <1>4 DEF IsList
<1>6. ~foreign => \A n \in DOMAIN typed' :
        \/ typed'[n].conn = conn /\ Holds(w.tabs, n, typed'[n].text)
        \/ n \in DOMAIN typed /\ typed'[n] = typed[n] /\ typed[n].conn # conn
  BY <1>1, <1>2, <1>3, <1>4 DEF TabsInv, ListsKept
<1>7. ids <= ids'
  BY <1>1, <1>2
<1> QED
  BY <1>1, <1>2, <1>5, <1>6, <1>7, ListKept

(* A tab is closed. *)
LEMMA ClosingKeeps ==
  ASSUME TabsInv, PlacesTyped', NEW id, \E t \in P!Range(state.tabs) : t.id = id, P!closeTab(id)
  PROVE  ListsKept'
<1> DEFINE tabs == state.tabs
           i    == CHOOSE j \in DOMAIN tabs : tabs[j].id = id
           z    == P!RemoveAt(tabs, i)
           act  == IF state.active = id THEN z[Len(z)].id ELSE state.active
           w    == [tabs |-> z, active |-> act]
<1>1. /\ page = "sql" /\ IsList(state, ids) /\ conn \in Connections /\ Len(tabs) > 1
      /\ ids \in Nat /\ (~foreign => state = lists[conn])
  BY DEF P!closeTab, TabsInv, PlacesTyped, ListsKept
<1>2. /\ P!Keep(w, conn) /\ typed' = [n \in DOMAIN typed \ {id} |-> typed[n]] /\ ids' = ids
      /\ page' = "sql" /\ conn' = conn /\ foreign' = foreign
  BY DEF P!closeTab, P!places
<1>3. Listed(tabs, state.active, ids)
  BY <1>1 DEF IsList
<1>4. i \in 1 .. Len(tabs) /\ tabs[i].id = id
  <2>1. DOMAIN tabs = 1 .. Len(tabs)
    BY <1>3, ListedTabs
  <2>2. \E j \in DOMAIN tabs : tabs[j].id = id
    BY DEF P!Range
  <2> QED
    BY <2>1, <2>2
<1>5. w.tabs = z /\ w.active = act /\ w = [tabs |-> w.tabs, active |-> w.active]
  OBVIOUS
<1>6. act = IF state.active = id THEN z[Len(z)].id ELSE state.active
  OBVIOUS
<1> HIDE DEF i
<1>7. /\ Listed(z, IF state.active = tabs[i].id THEN z[Len(z)].id ELSE state.active, ids) /\ z # <<>>
      /\ \A n, x : Holds(tabs, n, x) /\ n # tabs[i].id => Holds(z, n, x)
  BY <1>1, <1>3, <1>4, TabClosed
<1> HIDE DEF z, act, w
<1>8. Listed(z, act, ids)
  BY <1>4, <1>6, <1>7
<1>9. IsList(w, ids') /\ w.tabs # <<>>
  BY <1>2, <1>5, <1>7, <1>8 DEF IsList
<1>10. ~foreign => \A n \in DOMAIN typed' :
        \/ typed'[n].conn = conn /\ Holds(w.tabs, n, typed'[n].text)
        \/ n \in DOMAIN typed /\ typed'[n] = typed[n] /\ typed[n].conn # conn
  <2> SUFFICES ASSUME ~foreign, NEW n \in DOMAIN typed', typed'[n].conn = conn
               PROVE  Holds(z, n, typed'[n].text)
    BY <1>2, <1>5
  <2>1. n \in DOMAIN typed /\ typed'[n] = typed[n] /\ n # id
    BY <1>2
  <2>2. Holds(tabs, n, typed[n].text)
    BY <1>1, <2>1 DEF TabsInv, ListsKept
  <2> QED
    BY <1>4, <1>7, <2>1, <2>2
<1>11. ids <= ids'
  BY <1>1, <1>2
<1> QED
  BY <1>1, <1>2, <1>9, <1>10, <1>11, ListKept

(* Another tab is chosen. *)
LEMMA SwitchingKeeps ==
  ASSUME TabsInv, PlacesTyped', NEW id, \E t \in P!Range(state.tabs) : t.id = id, P!switchTab(id)
  PROVE  ListsKept'
<1> DEFINE w == [tabs |-> state.tabs, active |-> id]
<1>1. /\ page = "sql" /\ IsList(state, ids) /\ conn \in Connections /\ state.tabs # <<>>
      /\ ids \in Nat /\ (~foreign => state = lists[conn])
  BY DEF P!switchTab, TabsInv, PlacesTyped, ListsKept
<1>2. state = [tabs |-> state.tabs, active |-> state.active]
  BY <1>1 DEF IsList
<1>3. [state EXCEPT !.active = id] = w
  BY <1>2
<1>4. /\ P!Keep(w, conn) /\ typed' = typed /\ ids' = ids
      /\ page' = "sql" /\ conn' = conn /\ foreign' = foreign
  BY <1>3 DEF P!switchTab, P!places
<1>5. w.tabs = state.tabs /\ w.active = id /\ w = [tabs |-> w.tabs, active |-> w.active]
  OBVIOUS
<1> HIDE DEF w
<1>6. Listed(state.tabs, id, ids)
  <2>1. Listed(state.tabs, state.active, ids)
    BY <1>1 DEF IsList
  <2>2. state.tabs \in Seq(Tab)
    BY <2>1, ListedTabs
  <2>3. PICK j \in 1 .. Len(state.tabs) : state.tabs[j].id = id
    BY <2>2 DEF P!Range
  <2>4. id \in Nat
    BY <2>1, <2>3, ListedTabs
  <2> QED
    BY <2>1, <2>3, <2>4 DEF Listed
<1>7. IsList(w, ids') /\ w.tabs # <<>>
  BY <1>1, <1>4, <1>5, <1>6 DEF IsList
<1>8. ~foreign => \A n \in DOMAIN typed' :
        \/ typed'[n].conn = conn /\ Holds(w.tabs, n, typed'[n].text)
        \/ n \in DOMAIN typed /\ typed'[n] = typed[n] /\ typed[n].conn # conn
  BY <1>1, <1>4, <1>5 DEF TabsInv, ListsKept
<1>9. ids <= ids'
  BY <1>1, <1>4
<1> QED
  BY <1>1, <1>4, <1>7, <1>8, <1>9, ListKept

(* The page of another connection, which stores its tabs there; and another window. *)
LEMMA ForeignKeeps ==
  ASSUME TabsInv, PlacesTyped', NEW c \in Connections, P!Jump(c) \/ P!OtherWindow(c)
  PROVE  ListsKept'
<1>1. DOMAIN lists = Connections /\ (\A e \in Connections : IsList(lists[e], ids)) /\ ids \in Nat
  BY DEF TabsInv, ListsKept, PlacesTyped
<1>2. CASE P!Jump(c)
  <2>1. CASE page = "sql"
    <3>1. lists' = [lists EXCEPT ![c] = state] /\ UNCHANGED <<page, state, ids>> /\ foreign' = TRUE
      BY <1>2, <2>1 DEF P!Jump, P!Keep
    <3>2. IsList(state, ids) /\ state.tabs # <<>>
      BY <2>1 DEF TabsInv, ListsKept
    <3> QED
      BY <1>1, <3>1, <3>2 DEF ListsKept
  <2>2. CASE page # "sql"
    <3>1. UNCHANGED <<lists, page, state, ids, foreign, typed>>
      BY <1>2, <2>2 DEF P!Jump
    <3> QED
      BY <2>2, <3>1 DEF TabsInv, ListsKept
  <2> QED
    BY <2>1, <2>2
<1>3. CASE P!OtherWindow(c)
  <2> DEFINE t == [id |-> ids + 1, text |-> 0]
             w == [tabs |-> <<t>>, active |-> ids + 1]
  <2>1. /\ lists' = [lists EXCEPT ![c] = w] /\ ids' = ids + 1 /\ foreign' = TRUE
        /\ UNCHANGED <<page, state>>
    BY <1>3 DEF P!OtherWindow, P!places
  <2>2. t \in Tab /\ t.id = ids + 1
    BY <1>1 DEF Tab
  <2>3. w.tabs = <<t>> /\ w.active = ids + 1 /\ w = [tabs |-> w.tabs, active |-> w.active]
    OBVIOUS
  <2> HIDE DEF t, w
  <2>4. /\ <<t>> \in Seq(Tab) /\ Len(<<t>>) = 1 /\ <<t>>[1] = t /\ <<t>> # <<>>
    BY <2>2
  <2>5. Listed(<<t>>, ids + 1, ids + 1)
    BY <1>1, <2>2, <2>4 DEF Listed, TabSeqs
  <2>6. IsList(w, ids + 1)
    BY <2>3, <2>4, <2>5 DEF IsList
  <2>7. ids + 1 \in Nat /\ ids <= ids + 1
    BY <1>1
  <2>8. \A x : IsList(x, ids) => IsList(x, ids + 1)
    BY <1>1, <2>7, MoreIds
  <2>9. \A e \in Connections : lists'[e] = IF e = c THEN w ELSE lists[e]
    BY <1>1, <2>1
  <2>10. \A e \in Connections : IsList(lists'[e], ids')
    BY <1>1, <2>1, <2>6, <2>8, <2>9
  <2>11. page = "sql" => IsList(state, ids) /\ state.tabs # <<>>
    BY DEF TabsInv, ListsKept
  <2>12. DOMAIN lists' = Connections
    BY <1>1, <2>1
  <2> QED
    BY <2>1, <2>8, <2>10, <2>11, <2>12 DEF ListsKept
<1> QED
  BY <1>2, <1>3

(* The lists stay as they should, step by step. *)
LEMMA ListsStep == ASSUME TabsInv, PlacesTyped', P!Next PROVE ListsKept'
<1>a. ASSUME UNCHANGED <<lists, ids, foreign, typed>>,
             page' # "sql" \/ UNCHANGED <<page, conn, state>>
      PROVE  ListsKept'
  BY <1>a DEF TabsInv, ListsKept
<1>1. ASSUME NEW c \in Connections, NEW d \in Databases, P!OpenPage(c, d) PROVE ListsKept'
  <2>1. P!Mount(c, d, stash) /\ (stash # P!None => stash.text \in Nat)
    BY <1>1 DEF P!OpenPage, TabsInv, PlacesTyped
  <2> QED
    BY <2>1, MountKeeps
<1>2. ASSUME NEW c \in Connections, NEW d \in Databases, P!OpenPane(c, d) PROVE ListsKept'
  BY <1>2, <1>a DEF P!OpenPane
<1>3. CASE P!HandOff
  <2> DEFINE text == [is |-> "text", text |-> texts + 1]
  <2>1. P!Mount(conn, db, text) /\ conn \in Connections /\ db \in Databases /\ text.text \in Nat
    BY <1>3 DEF P!HandOff, TabsInv, PlacesTyped
  <2> HIDE DEF text
  <2> QED
    BY <2>1, MountKeeps
<1>4. CASE P!HandOffDiverted \/ P!Leave
  BY <1>4, <1>a DEF P!HandOffDiverted, P!Leave
<1>5. ASSUME NEW d \in Databases, P!SetDb(d) PROVE ListsKept'
  BY <1>5, <1>a DEF P!SetDb
<1>6. ASSUME NEW c \in Connections, P!Jump(c) \/ P!OtherWindow(c) PROVE ListsKept'
  BY <1>6, ForeignKeeps
<1>7. CASE P!updateTabSql
  BY <1>7, TypingKeeps
<1>8. CASE P!addTab
  BY <1>8, AddingKeeps
<1>9. CASE P!Draft
  BY <1>9, <1>a DEF P!Draft, P!places
<1>10. ASSUME NEW t \in P!Range(state.tabs), P!closeTab(t.id) PROVE ListsKept'
  BY <1>10, ClosingKeeps
<1>11. ASSUME NEW t \in P!Range(state.tabs), P!switchTab(t.id) PROVE ListsKept'
  BY <1>11, SwitchingKeeps
<1>12. CASE P!run \/ P!cancel \/ P!runExplain \/ P!confirmAnalyze
  BY <1>12, <1>a DEF P!run, P!cancel, P!runExplain, P!confirmAnalyze, P!places
<1>13. ASSUME NEW n \in DOMAIN execs, NEW ok \in BOOLEAN, P!Answer(n, ok) PROVE ListsKept'
  BY <1>13, <1>a DEF P!Answer, P!places
<1> QED
  BY <1>1, <1>2, <1>3, <1>4, <1>5, <1>6, <1>7, <1>8, <1>9, <1>10, <1>11, <1>12, <1>13 DEF P!Next

(* The inductive invariant of the SQL page. *)
PageInv == TabsInv /\ AnswersInv /\ QuestionInv

(* It holds for any connections and databases, tabs, texts and statements. *)
THEOREM PageInvariance == P!Spec => []PageInv
<1>1. P!Init => PageInv
  BY InitTabs, InitAnswers, InitQuestion DEF PageInv
<1>2. PageInv /\ [P!Next]_P!vars => PageInv'
  <2> SUFFICES ASSUME PageInv, [P!Next]_P!vars PROVE PageInv'
    OBVIOUS
  <2>1. CASE P!Next
    BY <2>1, PlacesStep, ListsStep, AnswersStep, QuestionStep DEF PageInv, TabsInv
  <2>2. CASE UNCHANGED P!vars
    <3>1. TabsInv'
      BY <2>2 DEF P!vars, P!places, PageInv, TabsInv, PlacesTyped, ListsKept
    <3>2. P!Showing' = P!Showing
      BY <2>2 DEF P!vars, P!places, P!Showing, P!Key
    <3>3. AnswersInv'
      BY <2>2, <3>2 DEF P!vars, P!places, P!shown, PageInv, AnswersInv, P!ShowsOwnAnswer
    <3>4. QuestionInv'
      BY <2>2 DEF P!vars, P!places, P!question, PageInv, QuestionInv, P!AnalyzesWhatWasAsked
    <3> QED
      BY <3>1, <3>3, <3>4 DEF PageInv
  <2> QED
    BY <2>1, <2>2
<1> QED
  BY <1>1, <1>2, PTL DEF P!Spec

(* What is typed is kept in its tab and connection, an answer is shown above the text it
   belongs to, and EXPLAIN ANALYZE runs where it was asked for, unless another window
   writes the lists. *)
THEOREM PagesAreKept == P!Spec => []PagesAreSound
<1>1. ASSUME PageInv PROVE P!TypedIsKept
  <2> SUFFICES ASSUME ~foreign, NEW n \in DOMAIN typed
               PROVE  LET kept == [id |-> n, text |-> typed[n].text] IN
                      /\ kept \in P!Range(lists[typed[n].conn].tabs)
                      /\ page = "sql" /\ conn = typed[n].conn => kept \in P!Range(state.tabs)
    BY DEF P!TypedIsKept
  <2> DEFINE c == typed[n].conn
  <2>1. /\ c \in Connections /\ Holds(lists[c].tabs, n, typed[n].text) /\ IsList(lists[c], ids)
        /\ page = "sql" => state = lists[conn]
    BY <1>1 DEF PageInv, TabsInv, ListsKept
  <2>2. DOMAIN lists[c].tabs = 1 .. Len(lists[c].tabs)
    BY <2>1, ListedTabs DEF IsList
  <2> QED
    BY <2>1, <2>2 DEF Holds, P!Range
<1>2. ASSUME PageInv PROVE P!CancelNamesWhatRuns
  <2>1. DOMAIN execs = 1 .. Len(execs)
    BY <1>2 DEF PageInv, AnswersInv
  <2> QED
    BY <1>2, <2>1 DEF PageInv, AnswersInv, P!CancelNamesWhatRuns
<1>3. PageInv => PagesAreSound
  BY <1>1, <1>2 DEF PageInv, AnswersInv, QuestionInv, PagesAreSound, P!PagesAreSound
<1> QED
  BY <1>3, PageInvariance, PTL

-----------------------------------------------------------------------------
(* The grid *)

(* What is ticked or edited is on the screen, and stays there. *)
TicksInv ==
  Careful =>
    /\ picked = {<<i, RowAt(data, i)>> : i \in selected}
    /\ selected # {} => ~Loading

EditInv ==
  /\ dialog => editing = NoEdit
  /\ Careful /\ editing # NoEdit =>
       /\ ~Loading /\ editing.row = RowAt(data, editing.pos)
       /\ \A c \in Pending : call[c].op = "update"

(* A request that is on its way. *)
CallInv(c) ==
  /\ Careful => call[c].rows = call[c].meant
  /\ call[c].stage = "done" => call[c].done = call[c].rows /\ call[c].rows # {}
  /\ call[c].stage = "working" =>
       /\ call[c].done \subseteq DOMAIN heap
       /\ call[c].op # "delete" => call[c].done = {} /\ call[c].rows # {}

CallsInv ==
  /\ \A c \in Calls : CallInv(c)
  /\ \A c, d \in Calls :
       c # d /\ call[c].stage = "working" /\ call[d].stage = "working" =>
         call[c].done \cap call[d].done = {}

(* What is known of the views: what is valid was read after the last change. *)
Undisturbed == others = 0 /\ excuses = {} /\ \A c \in Calls : call[c].stage # "done"

CacheInv ==
  /\ cache[view].known => data = cache[view].rows
  /\ \A v \in Views : cache[v].valid => cache[v].known
  /\ Undisturbed => \A v \in Views :
       /\ cache[v].valid => cache[v].rows = PageOf(v)
       /\ fetch[v].stage = "served" => fetch[v].rows = PageOf(v)

GridInv == TypeOK /\ TicksInv /\ EditInv /\ CallsInv /\ CacheInv

(* Rows in an order *)

(* Rows in an order have places, and no place is beyond the number of rows. *)
LEMMA PlacesAreThere ==
  ASSUME NEW X \in SUBSET Rows, NEW key, \A r \in X : key[r] \in Nat
  PROVE  Places(X, key) \in [X -> 1..Cardinality(Rows)]
<1> SUFFICES ASSUME NEW r \in X
             PROVE  Cardinality({s \in X : key[s] <= key[r]}) \in 1..Cardinality(Rows)
  BY DEF Places
<1> DEFINE T == {s \in X : key[s] <= key[r]}
<1>1. r \in T /\ T \subseteq Rows
  OBVIOUS
<1> HIDE DEF T
<1>2. IsFiniteSet(T) /\ Cardinality(T) <= Cardinality(Rows)
  BY <1>1, FS_Subset, GridAssumption DEF GridAssumption
<1>3. Cardinality(T) \in Nat /\ Cardinality(Rows) \in Nat
  BY <1>2, FS_CardinalityType, GridAssumption DEF GridAssumption
<1>4. Cardinality(T) # 0
  BY <1>1, <1>2, FS_EmptySet
<1>5. Cardinality(T) \in 1..Cardinality(Rows)
  BY <1>2, <1>3, <1>4
<1> QED
  BY <1>5 DEF T

(* A layout is a function from some of the rows to places. *)
LEMMA OfLayouts ==
  ASSUME NEW f \in Layouts
  PROVE  /\ DOMAIN f \subseteq Rows /\ f \in [DOMAIN f -> 1..Cardinality(Rows)]
         /\ \A r \in DOMAIN f : f[r] \in Nat /\ f[r] # 0
         /\ Cardinality(Rows) \in Nat
<1>1. Cardinality(Rows) \in Nat
  BY FS_CardinalityType, GridAssumption DEF GridAssumption
<1> QED
  BY <1>1 DEF Layouts

LEMMA NoRows == <<>> \in Layouts
<1>1. <<>> \in [{} -> 1..Cardinality(Rows)]
  OBVIOUS
<1> QED
  BY <1>1 DEF Layouts

(* A row that is on the screen can be found by its position. *)
LEMMA RowsAreFound ==
  ASSUME NEW f \in Layouts, NEW i \in Positions(f)
  PROVE  RowAt(f, i) \in Rows /\ i \in Nat \ {0}
BY OfLayouts DEF RowAt, Positions

(* What a request leaves in the table is there in an order, too. *)
LEMMA HeapsAreLayouts ==
  ASSUME heap \in Layouts, NEW rows \in SUBSET Rows
  PROVE  /\ Without(rows) \in Layouts /\ DOMAIN Without(rows) = DOMAIN heap \ rows
         /\ AtTheEnd(rows) \in Layouts /\ DOMAIN AtTheEnd(rows) = DOMAIN heap \cup rows
<1>1. /\ DOMAIN heap \subseteq Rows /\ \A r \in DOMAIN heap : heap[r] \in Nat
  BY OfLayouts
<1>2. Places(DOMAIN heap \ rows, heap) \in [DOMAIN heap \ rows -> 1..Cardinality(Rows)]
  BY <1>1, PlacesAreThere
<1> DEFINE key == [r \in DOMAIN heap \cup rows |->
                     IF r \in rows THEN Cardinality(DOMAIN heap) + r ELSE heap[r]]
<1>3. Cardinality(DOMAIN heap) \in Nat
  BY <1>1, FS_Subset, FS_CardinalityType, GridAssumption DEF GridAssumption
<1>4. \A r \in DOMAIN heap \cup rows : key[r] \in Nat
  <2>1. \A r \in rows : Cardinality(DOMAIN heap) + r \in Nat
    BY <1>3, GridAssumption DEF GridAssumption
  <2> QED
    BY <1>1, <2>1
<1> HIDE DEF key
<1>5. Places(DOMAIN heap \cup rows, key) \in [DOMAIN heap \cup rows -> 1..Cardinality(Rows)]
  BY <1>1, <1>4, PlacesAreThere
<1>6. DOMAIN heap \ rows \subseteq Rows /\ DOMAIN heap \cup rows \subseteq Rows
  BY <1>1
<1>7. Without(rows) \in Layouts /\ DOMAIN Without(rows) = DOMAIN heap \ rows
  BY <1>2, <1>6 DEF Without, Layouts
<1>8. AtTheEnd(rows) = Places(DOMAIN heap \cup rows, key)
  BY DEF AtTheEnd, key
<1>9. AtTheEnd(rows) \in Layouts /\ DOMAIN AtTheEnd(rows) = DOMAIN heap \cup rows
  BY <1>5, <1>6, <1>8 DEF Layouts
<1> QED
  BY <1>7, <1>9

(* So is a page of it. *)
LEMMA PagesAreLayouts ==
  ASSUME heap \in Layouts, NEW v \in Views
  PROVE  PageOf(v) \in Layouts
<1>1. Arranged(v.by) \in Layouts
  <2>1. /\ DOMAIN heap \subseteq Rows /\ \A r \in DOMAIN heap : heap[r] \in Nat
    BY OfLayouts
  <2>2. Places(DOMAIN heap, ByKey) \in [DOMAIN heap -> 1..Cardinality(Rows)]
    <3>1. \A r \in DOMAIN heap : ByKey[r] \in Nat
      BY <2>1, GridAssumption DEF GridAssumption, ByKey
    <3> QED
      BY <2>1, <3>1, PlacesAreThere
  <2>3. Places(DOMAIN heap \cap Narrow, heap) \in [DOMAIN heap \cap Narrow -> 1..Cardinality(Rows)]
    BY <2>1, PlacesAreThere
  <2>4. DOMAIN heap \cap Narrow \subseteq Rows
    BY <2>1
  <2>5. v.by \in {"none", "sorted", "filtered"}
    BY GridAssumption DEF GridAssumption, Views
  <2>6. CASE v.by = "none"
    BY <2>6 DEF Arranged
  <2>7. CASE v.by = "sorted"
    BY <2>1, <2>2, <2>7 DEF Arranged, Layouts
  <2>8. CASE v.by = "filtered"
    BY <2>3, <2>4, <2>8 DEF Arranged, Layouts
  <2> QED
    BY <2>5, <2>6, <2>7, <2>8
<1> DEFINE spot   == Arranged(v.by)
           offset == v.page * PageSize
           T      == {r \in DOMAIN spot : offset < spot[r] /\ spot[r] <= offset + PageSize}
<1>2. PageOf(v) = [r \in T |-> spot[r] - offset]
  BY DEF PageOf
<1>3. offset \in Nat
  <2>1. v.page \in Nat /\ PageSize \in Nat
    BY GridAssumption DEF GridAssumption, Views
  <2> QED
    BY <2>1
<1>4. /\ T \subseteq Rows /\ Cardinality(Rows) \in Nat
      /\ \A r \in T : spot[r] \in 1..Cardinality(Rows) /\ offset < spot[r]
  BY <1>1, OfLayouts
<1> HIDE DEF spot, offset, T
<1>5. \A r \in T : spot[r] - offset \in 1..Cardinality(Rows)
  BY <1>3, <1>4
<1> QED
  BY <1>2, <1>4, <1>5 DEF Layouts

(* A table nobody changes has the pages it had. *)
LEMMA SamePages ==
  ASSUME heap' = heap
  PROVE  \A v : PageOf(v)' = PageOf(v)
BY DEF PageOf, Arranged

(* The steps *)

LEMMA ServePageStep ==
  ASSUME GridInv, NEW v \in Views, Serve(v)
  PROVE  GridInv'
<1>1. TypeOK'
  BY PagesAreLayouts DEF GridInv, TypeOK, Serve, choice
<1>2. TicksInv'
  BY DEF GridInv, TicksInv, Serve, choice, Loading
<1>3. EditInv'
  BY DEF GridInv, EditInv, Serve, choice, Loading, Pending
<1>4. CallsInv'
  BY DEF GridInv, CallsInv, Serve, CallInv
<1>5. CacheInv'
  BY SamePages DEF GridInv, CacheInv, Serve, Undisturbed
<1> QED
  BY <1>1, <1>2, <1>3, <1>4, <1>5 DEF GridInv

LEMMA ArriveStep ==
  ASSUME GridInv, NEW v \in Views, Arrive(v)
  PROVE  GridInv'
<1>1. TypeOK'
  BY NoRows DEF GridInv, TypeOK, Arrive, choice, Idle
<1>2. TicksInv'
  BY DEF GridInv, TicksInv, Arrive, choice, Loading
<1>3. EditInv'
  BY DEF GridInv, EditInv, Arrive, choice, Loading, Pending
<1>4. CallsInv'
  BY DEF GridInv, CallsInv, Arrive, CallInv
<1>5. CacheInv'
  BY SamePages DEF GridInv, TypeOK, CacheInv, Arrive, Undisturbed, Idle
<1> QED
  BY <1>1, <1>2, <1>3, <1>4, <1>5 DEF GridInv

LEMMA FetchFailsStep ==
  ASSUME GridInv, NEW v \in Views, FetchFails(v)
  PROVE  GridInv'
<1>1. TypeOK'
  BY NoRows DEF GridInv, TypeOK, FetchFails, choice, Idle
<1>2. TicksInv'
  BY DEF GridInv, TicksInv, FetchFails, choice, Loading
<1>3. EditInv'
  BY DEF GridInv, EditInv, FetchFails, choice, Loading, Pending
<1>4. CallsInv'
  BY DEF GridInv, CallsInv, FetchFails, CallInv
<1>5. CacheInv'
  BY SamePages DEF GridInv, CacheInv, FetchFails, Undisturbed, Idle
<1> QED
  BY <1>1, <1>2, <1>3, <1>4, <1>5 DEF GridInv

LEMMA ShowStep ==
  ASSUME GridInv, NEW v \in Views, Show(v)
  PROVE  GridInv'
<1>1. TypeOK'
  BY NoRows DEF GridInv, TypeOK, Show, Sent
<1>2. TicksInv'
  BY DEF GridInv, TicksInv, Show, NothingTicked
<1>3. EditInv'
  BY DEF GridInv, EditInv, Show
<1>4. CallsInv'
  BY DEF GridInv, CallsInv, Show, CallInv
<1>5. CacheInv'
  BY SamePages DEF GridInv, CacheInv, Show, Undisturbed, Sent
<1> QED
  BY <1>1, <1>2, <1>3, <1>4, <1>5 DEF GridInv

LEMMA TickStep ==
  ASSUME GridInv, NEW i \in 1..PageSize, Tick(i)
  PROVE  GridInv'
<1>1. TypeOK'
  <2>1. data \in Layouts /\ selected \subseteq Nat /\ picked \subseteq Nat \X Rows
    BY DEF GridInv, TypeOK
  <2>2. RowAt(data, i) \in Rows /\ i \in Nat
    BY <2>1, RowsAreFound DEF Tick
  <2>3. selected' \subseteq Nat /\ picked' \subseteq Nat \X Rows
    <3>1. CASE i \in selected
      BY <2>1, <3>1 DEF Tick
    <3>2. CASE i \notin selected
      <4>1. selected' = selected \cup {i} /\ picked' = picked \cup {<<i, RowAt(data, i)>>}
        BY <3>2 DEF Tick
      <4> QED
        BY <2>1, <2>2, <4>1
    <3> QED
      BY <3>1, <3>2
  <2> QED
    BY <2>3 DEF GridInv, TypeOK, Tick, screen, NoEdit
<1>2. TicksInv'
  <2> SUFFICES ASSUME Careful
               PROVE  /\ picked' = {<<j, RowAt(data, j)>> : j \in selected'}
                      /\ ~Loading
    BY DEF TicksInv, Tick, screen, Loading
  <2>1. picked = {<<j, RowAt(data, j)>> : j \in selected} /\ ~Loading
    BY DEF GridInv, TicksInv, Tick
  <2>2. CASE i \in selected
    <3>1. selected' = selected \ {i} /\ picked' = {p \in picked : p[1] # i}
      BY <2>2 DEF Tick
    <3> QED
      BY <2>1, <3>1
  <2>3. CASE i \notin selected
    <3>1. selected' = selected \cup {i} /\ picked' = picked \cup {<<i, RowAt(data, i)>>}
      BY <2>3 DEF Tick
    <3> QED
      BY <2>1, <3>1
  <2> QED
    BY <2>1, <2>2, <2>3
<1>3. EditInv'
  BY DEF GridInv, EditInv, Tick
<1>4. CallsInv'
  BY DEF GridInv, CallsInv, Tick, CallInv
<1>5. CacheInv'
  BY SamePages DEF GridInv, CacheInv, Tick, screen, Undisturbed
<1> QED
  BY <1>1, <1>2, <1>3, <1>4, <1>5 DEF GridInv

LEMMA OpenCellStep ==
  ASSUME GridInv, NEW i \in 1..PageSize, Edit(i)
  PROVE  GridInv'
<1>1. TypeOK'
  BY RowsAreFound DEF GridInv, TypeOK, Edit, screen
<1>2. TicksInv'
  BY DEF GridInv, TicksInv, Edit, screen, Loading
<1>3. EditInv'
  BY DEF GridInv, EditInv, Edit, screen, Loading, Pending
<1>4. CallsInv'
  BY DEF GridInv, CallsInv, Edit, CallInv
<1>5. CacheInv'
  BY SamePages DEF GridInv, CacheInv, Edit, screen, Undisturbed
<1> QED
  BY <1>1, <1>2, <1>3, <1>4, <1>5 DEF GridInv

LEMMA RefreshStep ==
  ASSUME GridInv, Refresh
  PROVE  GridInv'
<1>1. TypeOK'
  BY NoRows DEF GridInv, TypeOK, Refresh, Sent
<1>2. TicksInv'
  BY DEF GridInv, TicksInv, Refresh, NothingTicked
<1>3. EditInv'
  BY DEF GridInv, EditInv, Refresh
<1>4. CallsInv'
  BY DEF GridInv, CallsInv, Refresh, CallInv
<1>5. CacheInv'
  BY SamePages DEF GridInv, CacheInv, Refresh, Undisturbed, Sent
<1> QED
  BY <1>1, <1>2, <1>3, <1>4, <1>5 DEF GridInv

LEMMA OpenDialogStep ==
  ASSUME GridInv, OpenDialog
  PROVE  GridInv'
<1>1. TypeOK'
  BY DEF GridInv, TypeOK, OpenDialog, screen
<1>2. TicksInv'
  BY DEF GridInv, TicksInv, OpenDialog, screen, Loading
<1>3. EditInv'
  BY DEF GridInv, EditInv, OpenDialog
<1>4. CallsInv'
  BY DEF GridInv, CallsInv, OpenDialog, CallInv
<1>5. CacheInv'
  BY SamePages DEF GridInv, CacheInv, OpenDialog, screen, Undisturbed
<1> QED
  BY <1>1, <1>2, <1>3, <1>4, <1>5 DEF GridInv

LEMMA CloseDialogStep ==
  ASSUME GridInv, CloseDialog
  PROVE  GridInv'
<1>1. TypeOK'
  BY DEF GridInv, TypeOK, CloseDialog, screen
<1>2. TicksInv'
  BY DEF GridInv, TicksInv, CloseDialog, screen, Loading
<1>3. EditInv'
  BY DEF GridInv, EditInv, CloseDialog
<1>4. CallsInv'
  BY DEF GridInv, CallsInv, CloseDialog, CallInv
<1>5. CacheInv'
  BY SamePages DEF GridInv, CacheInv, CloseDialog, screen, Undisturbed
<1> QED
  BY <1>1, <1>2, <1>3, <1>4, <1>5 DEF GridInv

LEMMA OtherSessionStep ==
  ASSUME GridInv, OtherSession
  PROVE  GridInv'
<1>1. TypeOK'
  <2>1. heap' \in Layouts
    <3>1. PICK r \in Rows : heap' = Without({r}) \/ heap' = AtTheEnd({r})
      BY DEF OtherSession
    <3>2. heap \in Layouts /\ {r} \in SUBSET Rows
      BY DEF GridInv, TypeOK
    <3> QED
      BY <3>1, <3>2, HeapsAreLayouts
  <2>2. others' \in Nat
    BY DEF GridInv, TypeOK, OtherSession
  <2> QED
    BY <2>1, <2>2 DEF GridInv, TypeOK, OtherSession, screen, choice
<1>2. TicksInv'
  BY DEF GridInv, TicksInv, OtherSession, screen, choice, Loading
<1>3. EditInv'
  BY DEF GridInv, EditInv, OtherSession, screen, choice, Loading, Pending
<1>4. CallsInv'
  <2>1. PICK r \in Rows \ Locked : heap' = Without({r}) \/ heap' = AtTheEnd({r})
    BY DEF OtherSession
  <2>2. DOMAIN heap \ {r} \subseteq DOMAIN heap'
    <3>1. heap \in Layouts /\ {r} \in SUBSET Rows
      BY DEF GridInv, TypeOK
    <3>2. /\ DOMAIN Without({r}) = DOMAIN heap \ {r}
          /\ DOMAIN AtTheEnd({r}) = DOMAIN heap \cup {r}
      BY <3>1, HeapsAreLayouts
    <3> QED
      BY <2>1, <3>2
  <2>3. \A c \in Calls : call[c].stage = "working" => r \notin call[c].done
    BY <2>1 DEF Locked
  <2>4. call' = call
    BY DEF OtherSession
  <2> QED
    BY <2>2, <2>3, <2>4 DEF GridInv, CallsInv, CallInv
<1>5. CacheInv'
  BY DEF GridInv, TypeOK, CacheInv, OtherSession, screen, Undisturbed
<1> QED
  BY <1>1, <1>2, <1>3, <1>4, <1>5 DEF GridInv

LEMMA ConfirmDeleteStep ==
  ASSUME GridInv, NEW c \in Calls, Confirm(c)
  PROVE  GridInv'
<1>1. TypeOK'
  BY RowsAreFound DEF GridInv, TypeOK, Confirm, Send, screen, choice, NoCall, Operations, Stages
<1>2. TicksInv'
  BY DEF GridInv, TicksInv, Confirm, screen, choice, Loading
<1>3. EditInv'
  BY DEF GridInv, EditInv, Confirm, choice
<1>4. CallsInv'
  <2>1. /\ call[c].stage = "none" /\ heap' = heap
        /\ call' = [call EXCEPT ![c] =
             [stage |-> "working", op |-> "delete", rows |-> {RowAt(data, i) : i \in selected},
              meant |-> {p[2] : p \in picked}, done |-> {},
              todo |-> {RowAt(data, i) : i \in selected}]]
    BY DEF Confirm, Send
  <2>2. Careful => {RowAt(data, i) : i \in selected} = {p[2] : p \in picked}
    <3>1. Careful => picked = {<<i, RowAt(data, i)>> : i \in selected}
      BY DEF GridInv, TicksInv
    <3>2. ASSUME picked = {<<i, RowAt(data, i)>> : i \in selected}
          PROVE  \A r : r \in {p[2] : p \in picked} <=> r \in {RowAt(data, i) : i \in selected}
      <4>1. \A i \in selected : <<i, RowAt(data, i)>> \in picked /\ <<i, RowAt(data, i)>>[2] = RowAt(data, i)
        BY <3>2
      <4>2. \A p \in picked : \E i \in selected : p[2] = RowAt(data, i)
        BY <3>2
      <4> QED
        BY <4>1, <4>2
    <3> QED
      BY <3>1, <3>2
  <2>3. call \in [Calls -> [stage : Stages, op : Operations, rows : SUBSET Rows,
                            meant : SUBSET Rows, todo : SUBSET Rows, done : SUBSET Rows]]
    BY DEF GridInv, TypeOK
  <2>4. ASSUME NEW d \in Calls PROVE CallInv(d)'
    <3>1. CASE d = c
      <4>1. /\ call'[d].stage = "working" /\ call'[d].op = "delete" /\ call'[d].done = {}
            /\ call'[d].rows = {RowAt(data, i) : i \in selected}
            /\ call'[d].meant = {p[2] : p \in picked}
        BY <2>1, <2>3, <3>1
      <4> QED
        BY <2>2, <4>1 DEF CallInv
    <3>2. CASE d # c
      <4>1. call'[d] = call[d]
        BY <2>1, <2>3, <3>2
      <4> QED
        BY <2>1, <4>1 DEF GridInv, CallsInv, CallInv
    <3> QED
      BY <3>1, <3>2
  <2>5. ASSUME NEW d \in Calls, NEW e \in Calls, d # e,
               call'[d].stage = "working", call'[e].stage = "working"
        PROVE  call'[d].done \cap call'[e].done = {}
    <3>1. call'[c].done = {} /\ \A x \in Calls \ {c} : call'[x] = call[x]
      BY <2>1, <2>3
    <3> QED
      BY <2>5, <3>1 DEF GridInv, CallsInv
  <2> QED
    BY <2>4, <2>5 DEF CallsInv
<1>5. CacheInv'
  BY SamePages DEF GridInv, CacheInv, Confirm, Send, screen, Undisturbed
<1> QED
  BY <1>1, <1>2, <1>3, <1>4, <1>5 DEF GridInv

LEMMA CommitEditStep ==
  ASSUME GridInv, NEW c \in Calls, CommitEdit(c)
  PROVE  GridInv'
<1>1. TypeOK'
  BY RowsAreFound DEF GridInv, TypeOK, CommitEdit, Send, screen, choice, NoCall, Operations, Stages, NoEdit
<1>2. TicksInv'
  BY DEF GridInv, TicksInv, CommitEdit, screen, choice, Loading
<1>3. EditInv'
  BY DEF GridInv, EditInv, CommitEdit, Send, screen, choice, Loading, Pending
<1>4. CallsInv'
  <2>1. /\ call[c].stage = "none" /\ heap' = heap
        /\ call' = [call EXCEPT ![c] =
             [stage |-> "working", op |-> "update", rows |-> {RowAt(data, editing.pos)},
              meant |-> {editing.row}, done |-> {}, todo |-> {}]]
    BY DEF CommitEdit, Send
  <2>2. Careful => RowAt(data, editing.pos) = editing.row
    <3>1. editing.pos # 0
      BY RowsAreFound DEF GridInv, TypeOK, CommitEdit
    <3> QED
      BY <3>1 DEF GridInv, EditInv, NoEdit
  <2>3. call \in [Calls -> [stage : Stages, op : Operations, rows : SUBSET Rows,
                            meant : SUBSET Rows, todo : SUBSET Rows, done : SUBSET Rows]]
    BY DEF GridInv, TypeOK
  <2>4. ASSUME NEW d \in Calls PROVE CallInv(d)'
    <3>1. CASE d = c
      <4>1. /\ call'[d].stage = "working" /\ call'[d].op = "update" /\ call'[d].done = {}
            /\ call'[d].rows = {RowAt(data, editing.pos)}
            /\ call'[d].meant = {editing.row}
        BY <2>1, <2>3, <3>1
      <4> QED
        BY <2>2, <4>1 DEF CallInv
    <3>2. CASE d # c
      <4>1. call'[d] = call[d]
        BY <2>1, <2>3, <3>2
      <4> QED
        BY <2>1, <4>1 DEF GridInv, CallsInv, CallInv
    <3> QED
      BY <3>1, <3>2
  <2>5. ASSUME NEW d \in Calls, NEW e \in Calls, d # e,
               call'[d].stage = "working", call'[e].stage = "working"
        PROVE  call'[d].done \cap call'[e].done = {}
    <3>1. call'[c].done = {} /\ \A x \in Calls \ {c} : call'[x] = call[x]
      BY <2>1, <2>3
    <3> QED
      BY <2>5, <3>1 DEF GridInv, CallsInv
  <2> QED
    BY <2>4, <2>5 DEF CallsInv
<1>5. CacheInv'
  BY SamePages DEF GridInv, CacheInv, CommitEdit, Send, screen, Undisturbed
<1> QED
  BY <1>1, <1>2, <1>3, <1>4, <1>5 DEF GridInv

LEMMA InsertStep ==
  ASSUME GridInv, NEW c \in Calls, NEW rows \in (SUBSET Rows) \ {{}}, Insert(c, rows)
  PROVE  GridInv'
<1>1. TypeOK'
  BY DEF GridInv, TypeOK, Insert, Send, screen, NoCall, Operations, Stages
<1>2. TicksInv'
  BY DEF GridInv, TicksInv, Insert, screen, Loading
<1>3. EditInv'
  BY DEF GridInv, EditInv, Insert
<1>4. CallsInv'
  BY DEF GridInv, CallsInv, Insert, Send, CallInv
<1>5. CacheInv'
  BY SamePages DEF GridInv, CacheInv, Insert, Send, screen, Undisturbed
<1> QED
  BY <1>1, <1>2, <1>3, <1>4, <1>5 DEF GridInv

LEMMA DeleteOneStep ==
  ASSUME GridInv, NEW c \in Calls, NEW r \in Rows, DeleteOne(c, r)
  PROVE  GridInv'
<1>1. TypeOK'
  <2>1. call' \in [Calls -> [stage : Stages, op : Operations, rows : SUBSET Rows,
                             meant : SUBSET Rows, todo : SUBSET Rows, done : SUBSET Rows]]
    <3>1. call' = [call EXCEPT ![c] = [call[c] EXCEPT !.todo = call[c].todo \ {r},
                                         !.done = call[c].done \cup ({r} \cap DOMAIN heap)]]
      BY DEF DeleteOne, GridInv, TypeOK
    <3> QED
      BY <3>1 DEF GridInv, TypeOK
  <2> QED
    BY <2>1 DEF GridInv, TypeOK, DeleteOne, screen, choice
<1>2. TicksInv'
  BY DEF GridInv, TicksInv, DeleteOne, screen, choice, Loading
<1>3. EditInv'
  BY DEF GridInv, EditInv, DeleteOne, Working, choice, Pending
<1>4. CallsInv'
  BY DEF GridInv, TypeOK, CallsInv, DeleteOne, Working, CallInv
<1>5. CacheInv'
  BY SamePages DEF GridInv, TypeOK, CacheInv, DeleteOne, screen, Undisturbed
<1> QED
  BY <1>1, <1>2, <1>3, <1>4, <1>5 DEF GridInv

LEMMA EndDeleteStep ==
  ASSUME GridInv, NEW c \in Calls, EndDelete(c)
  PROVE  GridInv'
<1>1. TypeOK'
  <2>1. heap' \in Layouts
    <3>1. heap \in Layouts /\ call[c].done \in SUBSET Rows
      BY DEF GridInv, TypeOK
    <3>2. Without(call[c].done) \in Layouts
      BY <3>1, HeapsAreLayouts
    <3> QED
      BY <3>1, <3>2 DEF EndDelete
  <2>2. call' \in [Calls -> [stage : Stages, op : Operations, rows : SUBSET Rows,
                             meant : SUBSET Rows, todo : SUBSET Rows, done : SUBSET Rows]]
    <3> DEFINE ended   == [call[c] EXCEPT !.stage = "done"]
               refused == [call[c] EXCEPT !.stage = "refused", !.done = {}]
    <3>1. /\ ended \in [stage : Stages, op : Operations, rows : SUBSET Rows,
                         meant : SUBSET Rows, todo : SUBSET Rows, done : SUBSET Rows]
          /\ refused \in [stage : Stages, op : Operations, rows : SUBSET Rows,
                           meant : SUBSET Rows, todo : SUBSET Rows, done : SUBSET Rows]
      BY DEF GridInv, TypeOK, Stages
    <3>2. call' = [call EXCEPT ![c] = ended] \/ call' = [call EXCEPT ![c] = refused]
      BY DEF EndDelete, GridInv, TypeOK
    <3> HIDE DEF ended, refused
    <3> QED
      BY <3>1, <3>2 DEF GridInv, TypeOK
  <2> QED
    BY <2>1, <2>2 DEF GridInv, TypeOK, EndDelete, screen, choice
<1>2. TicksInv'
  BY DEF GridInv, TicksInv, EndDelete, screen, choice, Loading
<1>3. EditInv'
  BY DEF GridInv, EditInv, EndDelete, Working, choice, Pending
<1>4. CallsInv'
  <2>1. call \in [Calls -> [stage : Stages, op : Operations, rows : SUBSET Rows,
                            meant : SUBSET Rows, todo : SUBSET Rows, done : SUBSET Rows]]
    BY DEF GridInv, TypeOK
  <2>2. call[c].stage = "working" /\ \A x \in Calls \ {c} : call'[x] = call[x]
    BY <2>1 DEF EndDelete, Working
  <2>3. /\ call'[c].stage \in {"done", "refused"} /\ call'[c].rows = call[c].rows
        /\ call'[c].meant = call[c].meant
        /\ call'[c].stage = "done" => call'[c].done = call'[c].rows /\ call'[c].rows # {}
    BY <2>1 DEF EndDelete
  <2>4. DOMAIN heap \ call[c].done \subseteq DOMAIN heap'
    BY <2>1, HeapsAreLayouts DEF EndDelete, GridInv, TypeOK
  <2>5. \A x \in Calls \ {c} : call[x].stage = "working" => call[x].done \cap call[c].done = {}
    BY <2>2 DEF GridInv, CallsInv
  <2>6. ASSUME NEW d \in Calls PROVE CallInv(d)'
    <3>1. CASE d = c
      BY <2>2, <2>3, <3>1 DEF GridInv, CallsInv, CallInv
    <3>2. CASE d # c
      BY <2>2, <2>4, <2>5, <3>2 DEF GridInv, CallsInv, CallInv
    <3> QED
      BY <3>1, <3>2
  <2> QED
    BY <2>2, <2>3, <2>6 DEF GridInv, CallsInv
<1>5. CacheInv'
  BY SamePages DEF GridInv, TypeOK, CacheInv, EndDelete, Working, screen, Undisturbed
<1> QED
  BY <1>1, <1>2, <1>3, <1>4, <1>5 DEF GridInv

LEMMA DoInsertStep ==
  ASSUME GridInv, NEW c \in Calls, DoInsert(c)
  PROVE  GridInv'
<1>1. TypeOK'
  <2>1. heap' \in Layouts
    <3>1. heap \in Layouts /\ call[c].rows \in SUBSET Rows
      BY DEF GridInv, TypeOK
    <3>2. AtTheEnd(call[c].rows) \in Layouts
      BY <3>1, HeapsAreLayouts
    <3> QED
      BY <3>1, <3>2 DEF DoInsert
  <2>2. call' \in [Calls -> [stage : Stages, op : Operations, rows : SUBSET Rows,
                             meant : SUBSET Rows, todo : SUBSET Rows, done : SUBSET Rows]]
    <3> DEFINE ended   == [call[c] EXCEPT !.stage = "done", !.done = call[c].done \cup call[c].rows]
               refused == [call[c] EXCEPT !.stage = "refused"]
    <3>1. /\ ended \in [stage : Stages, op : Operations, rows : SUBSET Rows,
                         meant : SUBSET Rows, todo : SUBSET Rows, done : SUBSET Rows]
          /\ refused \in [stage : Stages, op : Operations, rows : SUBSET Rows,
                           meant : SUBSET Rows, todo : SUBSET Rows, done : SUBSET Rows]
      BY DEF GridInv, TypeOK, Stages
    <3>2. call' = [call EXCEPT ![c] = ended] \/ call' = [call EXCEPT ![c] = refused]
      BY DEF DoInsert, GridInv, TypeOK
    <3> HIDE DEF ended, refused
    <3> QED
      BY <3>1, <3>2 DEF GridInv, TypeOK
  <2> QED
    BY <2>1, <2>2 DEF GridInv, TypeOK, DoInsert, screen, choice
<1>2. TicksInv'
  BY DEF GridInv, TicksInv, DoInsert, screen, choice, Loading
<1>3. EditInv'
  BY DEF GridInv, EditInv, DoInsert, Working, choice, Pending
<1>4. CallsInv'
  BY DEF GridInv, TypeOK, TicksInv, EditInv, CallsInv, DoInsert, Working, choice, CallInv, Locked
<1>5. CacheInv'
  <2>1. UNCHANGED <<view, data, cache, fetch, others, excuses>>
    BY DEF DoInsert, screen
  <2>2. CASE heap' = heap
    <3>1. \A d \in Calls : call[d].stage = "done" => call'[d].stage = "done"
      BY DEF DoInsert, Working, GridInv, TypeOK
    <3> QED
      BY <2>1, <2>2, <3>1, SamePages DEF GridInv, CacheInv, Undisturbed
  <2>3. CASE heap' # heap
    <3>1. call'[c].stage = "done"
      BY <2>3 DEF DoInsert, GridInv, TypeOK
    <3> QED
      BY <2>1, <3>1 DEF GridInv, CacheInv, Undisturbed
  <2> QED
    BY <2>2, <2>3
<1> QED
  BY <1>1, <1>2, <1>3, <1>4, <1>5 DEF GridInv

LEMMA DoUpdateStep ==
  ASSUME GridInv, NEW c \in Calls, DoUpdate(c)
  PROVE  GridInv'
<1>1. TypeOK'
  <2>1. heap' \in Layouts
    <3>1. heap \in Layouts /\ call[c].rows \in SUBSET Rows
      BY DEF GridInv, TypeOK
    <3>2. AtTheEnd(call[c].rows) \in Layouts
      BY <3>1, HeapsAreLayouts
    <3> QED
      BY <3>1, <3>2 DEF DoUpdate
  <2>2. call' \in [Calls -> [stage : Stages, op : Operations, rows : SUBSET Rows,
                             meant : SUBSET Rows, todo : SUBSET Rows, done : SUBSET Rows]]
    BY DEF DoUpdate, GridInv, TypeOK, Stages
  <2> QED
    BY <2>1, <2>2 DEF GridInv, TypeOK, DoUpdate, screen, choice
<1>2. TicksInv'
  BY DEF GridInv, TicksInv, DoUpdate, screen, choice, Loading
<1>3. EditInv'
  BY DEF GridInv, TypeOK, EditInv, CallsInv, DoUpdate, Working, screen, choice, Loading, Pending
<1>4. CallsInv'
  <2>1. call \in [Calls -> [stage : Stages, op : Operations, rows : SUBSET Rows,
                            meant : SUBSET Rows, todo : SUBSET Rows, done : SUBSET Rows]]
    BY DEF GridInv, TypeOK
  <2>2. /\ call[c].stage = "working" /\ call[c].op = "update"
        /\ \A x \in Calls \ {c} : call'[x] = call[x]
    BY <2>1 DEF DoUpdate, Working
  <2>3. /\ call'[c].stage \in {"done", "refused"} /\ call'[c].rows = call[c].rows
        /\ call'[c].meant = call[c].meant
        /\ call'[c].stage = "done" => call'[c].done = call'[c].rows
    BY <2>1 DEF DoUpdate
  <2>4. DOMAIN heap \subseteq DOMAIN heap'
    <3>1. heap \in Layouts /\ call[c].rows \in SUBSET Rows
      BY DEF GridInv, TypeOK
    <3>2. DOMAIN AtTheEnd(call[c].rows) = DOMAIN heap \cup call[c].rows
      BY <3>1, HeapsAreLayouts
    <3> QED
      BY <3>2 DEF DoUpdate
  <2>5. ASSUME NEW d \in Calls PROVE CallInv(d)'
    <3>1. CASE d = c
      BY <2>2, <2>3, <3>1 DEF GridInv, CallsInv, CallInv
    <3>2. CASE d # c
      BY <2>2, <2>4, <3>2 DEF GridInv, CallsInv, CallInv
    <3> QED
      BY <3>1, <3>2
  <2> QED
    BY <2>2, <2>3, <2>5 DEF GridInv, CallsInv
<1>5. CacheInv'
  <2>1. UNCHANGED <<view, data, cache, fetch, others, excuses>>
    BY DEF DoUpdate, screen
  <2>2. CASE heap' = heap
    <3>1. \A d \in Calls : call[d].stage = "done" => call'[d].stage = "done"
      BY DEF DoUpdate, Working, GridInv, TypeOK
    <3> QED
      BY <2>1, <2>2, <3>1, SamePages DEF GridInv, CacheInv, Undisturbed
  <2>3. CASE heap' # heap
    <3>1. call'[c].stage = "done"
      BY <2>3 DEF DoUpdate, GridInv, TypeOK
    <3> QED
      BY <2>1, <3>1 DEF GridInv, CacheInv, Undisturbed
  <2> QED
    BY <2>2, <2>3
<1> QED
  BY <1>1, <1>2, <1>3, <1>4, <1>5 DEF GridInv

LEMMA SucceededStep ==
  ASSUME GridInv, NEW c \in Calls, Succeed(c)
  PROVE  GridInv'
<1>1. TypeOK'
  <2>1. call' \in [Calls -> [stage : Stages, op : Operations, rows : SUBSET Rows,
                             meant : SUBSET Rows, todo : SUBSET Rows, done : SUBSET Rows]]
    BY DEF Succeed, GridInv, TypeOK, Stages, Operations, Over, NoCall
  <2>2. /\ cache' \in [Views -> [known : BOOLEAN, valid : BOOLEAN, rows : Layouts]]
        /\ fetch' \in [Views -> [stage : {"none", "sent", "served"}, rows : Layouts]]
    BY NoRows DEF Succeed, Invalidate, Refetch, GridInv, TypeOK, Sent
  <2>3. excuses' \subseteq {"raced", "lost"} /\ selected' = {} /\ picked' = {}
    BY DEF Succeed, Invalidate, Refetch, GridInv, TypeOK
  <2>4. dialog' \in BOOLEAN
    BY DEF Succeed
  <2>5. editing' = NoEdit \/ editing' \in [pos : Nat, row : Rows]
    BY DEF Succeed, GridInv, TypeOK
  <2> QED
    BY <2>1, <2>2, <2>3, <2>4, <2>5 DEF GridInv, TypeOK, Succeed
<1>2. TicksInv'
  BY DEF GridInv, TicksInv, Succeed, Invalidate, Refetch
<1>3. EditInv'
  BY DEF GridInv, EditInv, Succeed, Pending
<1>4. CallsInv'
  BY DEF GridInv, CallsInv, Succeed, CallInv, Over, NoCall
<1>5. CacheInv'
  <2>1. /\ cache' = [v \in Views |-> [cache[v] EXCEPT !.valid = FALSE]]
        /\ fetch' = [fetch EXCEPT ![view] = Sent]
        /\ UNCHANGED <<heap, view, data>>
    BY DEF Succeed, Invalidate, Refetch
  <2>2. /\ view \in Views
        /\ cache \in [Views -> [known : BOOLEAN, valid : BOOLEAN, rows : Layouts]]
        /\ fetch \in [Views -> [stage : {"none", "sent", "served"}, rows : Layouts]]
    BY DEF GridInv, TypeOK
  <2>3. \A v \in Views : ~cache'[v].valid /\ cache'[v].known = cache[v].known
                                          /\ cache'[v].rows = cache[v].rows
    BY <2>1, <2>2
  <2>4. ASSUME Undisturbed', NEW v \in Views
        PROVE  fetch'[v].stage # "served"
    <3>1. CASE v = view
      BY <2>1, <2>2, <3>1 DEF Sent
    <3>2. CASE v # view
      BY <2>1, <2>2, <2>4, <3>2 DEF Succeed, Invalidate, Refetch, Undisturbed
    <3> QED
      BY <3>1, <3>2
  <2> QED
    BY <2>1, <2>2, <2>3, <2>4 DEF GridInv, CacheInv
<1> QED
  BY <1>1, <1>2, <1>3, <1>4, <1>5 DEF GridInv

LEMMA FailStep ==
  ASSUME GridInv, NEW c \in Calls, Fail(c)
  PROVE  GridInv'
<1>1. TypeOK'
  BY DEF GridInv, TypeOK, Fail, screen, choice, Over, NoCall, Operations, Stages
<1>2. TicksInv'
  BY DEF GridInv, TicksInv, Fail, screen, choice, Loading
<1>3. EditInv'
  BY DEF GridInv, EditInv, Fail, screen, choice, Loading, Pending, Over
<1>4. CallsInv'
  BY DEF GridInv, CallsInv, Fail, CallInv, Over, NoCall
<1>5. CacheInv'
  BY SamePages DEF GridInv, CacheInv, Fail, screen, Undisturbed
<1> QED
  BY <1>1, <1>2, <1>3, <1>4, <1>5 DEF GridInv

LEMMA LoseReplyStep ==
  ASSUME GridInv, NEW c \in Calls, LoseReply(c)
  PROVE  GridInv'
<1>1. TypeOK'
  BY DEF GridInv, TypeOK, LoseReply, screen, choice, Over, NoCall, Operations, Stages
<1>2. TicksInv'
  BY DEF GridInv, TicksInv, LoseReply, screen, choice, Loading
<1>3. EditInv'
  BY DEF GridInv, EditInv, LoseReply, screen, choice, Loading, Pending, Over
<1>4. CallsInv'
  BY DEF GridInv, CallsInv, LoseReply, CallInv, Over, NoCall
<1>5. CacheInv'
  BY DEF GridInv, CacheInv, LoseReply, screen, Undisturbed
<1> QED
  BY <1>1, <1>2, <1>3, <1>4, <1>5 DEF GridInv

(* The theorems *)

(* The grid: what is ticked stays on the screen until it is sent, and what is valid
   in the cache was read after the last change (DataGrid.tsx:147-534,
   data.service.ts:180). *)
THEOREM GridInvariance == Spec => []GridInv
<1>1. Init => GridInv
  <2> SUFFICES ASSUME Init PROVE GridInv
    OBVIOUS
  <2>1. First \in Views
    BY GridAssumption DEF GridAssumption, Views, First
  <2>2. heap \in Layouts
    <3>1. PICK X \in SUBSET Rows : heap = Places(X, ByKey)
      BY DEF Init
    <3>2. \A r \in X : ByKey[r] \in Nat
      BY GridAssumption DEF GridAssumption, ByKey
    <3> QED
      BY <3>1, <3>2, PlacesAreThere DEF Layouts
  <2>3. TypeOK
    BY <2>1, <2>2, NoRows DEF Init, TypeOK, NoCall, Stages, Operations
  <2>4. TicksInv /\ EditInv
    BY DEF Init, TicksInv, EditInv
  <2>5. CallsInv
    BY DEF Init, CallsInv, CallInv, NoCall
  <2>6. CacheInv
    BY <2>1 DEF Init, CacheInv
  <2> QED
    BY <2>3, <2>4, <2>5, <2>6 DEF GridInv
<1>2. GridInv /\ [Next]_vars => GridInv'
  <2> SUFFICES ASSUME GridInv, [Next]_vars PROVE GridInv'
    OBVIOUS
  <2>1. ASSUME NEW v \in Views, Serve(v) \/ Arrive(v) \/ FetchFails(v) \/ Show(v)
        PROVE  GridInv'
    BY <2>1, ServePageStep, ArriveStep, FetchFailsStep, ShowStep
  <2>2. ASSUME NEW i \in 1..PageSize, Tick(i) \/ Edit(i)
        PROVE  GridInv'
    BY <2>2, TickStep, OpenCellStep
  <2>3. CASE Refresh \/ OpenDialog \/ CloseDialog \/ OtherSession
    BY <2>3, RefreshStep, OpenDialogStep, CloseDialogStep, OtherSessionStep
  <2>4. ASSUME NEW c \in Calls, Confirm(c) \/ CommitEdit(c)
        PROVE  GridInv'
    BY <2>4, ConfirmDeleteStep, CommitEditStep
  <2>5. ASSUME NEW c \in Calls, NEW rows \in (SUBSET Rows) \ {{}}, Insert(c, rows)
        PROVE  GridInv'
    BY <2>5, InsertStep
  <2>6. ASSUME NEW c \in Calls, NEW r \in Rows, DeleteOne(c, r)
        PROVE  GridInv'
    BY <2>6, DeleteOneStep
  <2>7. ASSUME NEW c \in Calls,
               EndDelete(c) \/ DoInsert(c) \/ DoUpdate(c) \/ Succeed(c) \/ Fail(c) \/ LoseReply(c)
        PROVE  GridInv'
    BY <2>7, EndDeleteStep, DoInsertStep, DoUpdateStep, SucceededStep, FailStep, LoseReplyStep
  <2>8. CASE UNCHANGED vars
    <3>1. UNCHANGED <<heap, view, data, cache, fetch, selected, picked, editing, dialog, call,
                      others, excuses>>
      BY <2>8 DEF vars, screen, choice
    <3>2. CallsInv' = CallsInv /\ EditInv' = EditInv
      BY <3>1 DEF CallsInv, CallInv, EditInv, Loading, Pending
    <3>3. TicksInv'
      BY <3>1 DEF GridInv, TicksInv, Loading
    <3>4. CacheInv'
      BY <3>1, SamePages DEF GridInv, CacheInv, Undisturbed
    <3> QED
      BY <3>1, <3>2, <3>3, <3>4 DEF GridInv, TypeOK
  <2> QED
    BY <2>1, <2>2, <2>3, <2>4, <2>5, <2>6, <2>7, <2>8 DEF Next
<1> QED
  BY <1>1, <1>2, PTL DEF Spec

(* A request of a careful user names the rows that were picked, wherever pages, replies
   and other sessions have moved them meanwhile, and is carried out for all of its rows
   or for none (DataGrid.tsx:258, 534, data.service.ts:180). *)
THEOREM PickedRowsAreMeant == Spec => []DoesWhatWasPicked
<1>1. GridInv => DoesWhatWasPicked
  BY DEF GridInv, CallsInv, CallInv, DoesWhatWasPicked, HitsWhatWasPicked, NothingByHalves
<1> QED
  BY <1>1, GridInvariance, PTL

(* With nothing under way and nobody else at work the screen shows the table, but for
   the two gaps the property names (DataGrid.tsx:147). *)
THEOREM TheTableIsShown == Spec => []ShowsTheTable
<1>1. GridInv => ShowsTheTable
  <2> SUFFICES ASSUME GridInv, Pending = {}, others = 0, excuses = {}, cache[view].valid
               PROVE  data = PageOf(view)
    BY DEF ShowsTheTable
  <2>1. Undisturbed
    BY DEF Undisturbed, Pending
  <2> QED
    BY <2>1 DEF GridInv, CacheInv, TypeOK
<1> QED
  BY <1>1, GridInvariance, PTL

=============================================================================
