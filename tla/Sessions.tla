------------------------------- MODULE Sessions -------------------------------
(***************************************************************************)
(* The sessions of AuthService.  A session is a family of refresh tokens:  *)
(* a sign-in issues its first token, and every refresh revokes the current *)
(* one and issues the next.  Beside the tokens the service keeps the       *)
(* device a session is on, a login-history row, and, in Redis, the answer  *)
(* "this session is live" that every request asks for.                     *)
(*                                                                         *)
(* No operation but the end of sessions uses a transaction: a request is   *)
(* a chain of statements, and other requests run between any two of them.  *)
(* A request in flight is a row of req, whose at is the statement it       *)
(* executes next; a crash loses all requests and keeps the tables and      *)
(* Redis.                                                                  *)
(***************************************************************************)
EXTENDS FiniteSets, Naturals

CONSTANTS
  Principals,  \* staff users and customers
  DeviceIds, NoDevice,
  Headers,     \* the device labels requests come with, NoDevice for none
  MaxSession,  \* bound: sign-ins
  MaxToken,    \* bound: refresh tokens
  Requests     \* concurrent requests

ASSUME SessionAssumption ==
  /\ NoDevice \notin DeviceIds /\ Headers \subseteq DeviceIds \cup {NoDevice}
  /\ MaxSession \in Nat /\ MaxToken \in Nat

SessionIds == 1..MaxSession  \* the families, in the order of their sign-ins
Tokens     == 1..MaxToken    \* an auto-increment id

VARIABLES
  account,  \* account[p]: what the principal's row lets him do
  token,    \* token[t]: the refresh_tokens row
  device,   \* device[p][d]: the user_devices row
  history,  \* history[s]: the user_login_history row of the session's sign-in
  cached,   \* the sessions marked live in Redis
  req       \* req[r]: a request in flight

tables == <<account, token, device, history>>
vars   == <<tables, cached, req>>

\* noSignIn: an active account without a password; barred: inactive, without a
\* role, or a customer that is OVERDUE.
Standing   == {"active", "noSignIn", "barred", "removed"}
TokenState == {"usable", "expired", "revoked"}

\* Tokens and login-history rows; the device may be missing.
NoRow == [state |-> "none"]
TokenRow ==
  [owner: Principals, family: SessionIds, device: DeviceIds \cup {NoDevice},
   state: TokenState]
HistoryRow ==
  [owner: Principals, device: DeviceIds \cup {NoDevice},
   state: {"open", "closed"}]

\* A request on behalf of owner.  scope: the sessions it ends, listed: those of
\* them it found live; session and device: those of the token it issues.
Idle == [at |-> "idle"]
SignInRequest ==
  [at: {"closeRows", "openRow"}, owner: Principals,
   device: DeviceIds \cup {NoDevice}]
RefreshRequest ==
  [at: {"device", "rotate"}, owner: Principals, old: Tokens,
   session: SessionIds, device: DeviceIds \cup {NoDevice}]
IssueRequest ==
  [at: {"account", "issue", "upsert", "touch"}, owner: Principals,
   session: SessionIds, device: DeviceIds \cup {NoDevice}, signIn: BOOLEAN]
EndRequest ==
  [at: {"list", "revoke", "forget"}, owner: Principals,
   scope: SUBSET SessionIds, listed: SUBSET SessionIds]
CheckRequest == [at: {"mark"}, session: SessionIds]
Request ==
  {Idle} \cup SignInRequest \cup RefreshRequest \cup IssueRequest
         \cup EndRequest \cup CheckRequest

TypeOK ==
  /\ account \in [Principals -> Standing]
  /\ token \in [Tokens -> TokenRow \cup {NoRow}]
  /\ device \in [Principals -> [DeviceIds -> {"none", "active", "signedOut"}]]
  /\ history \in [SessionIds -> HistoryRow \cup {NoRow}]
  /\ cached \subseteq SessionIds
  /\ req \in [Requests -> Request]

Init ==
  /\ account = [p \in Principals |-> "active"]
  /\ token = [t \in Tokens |-> NoRow]
  /\ device = [p \in Principals |-> [d \in DeviceIds |-> "none"]]
  /\ history = [s \in SessionIds |-> NoRow]
  /\ cached = {} /\ req = [r \in Requests |-> Idle]

Issued == {t \in Tokens : token[t] # NoRow}
Begun  == {s \in SessionIds : history[s] # NoRow}

\* A token that is neither revoked nor expired, as every query tests it.
Usable(t) == t \in Issued /\ token[t].state = "usable"
TokensOf(s) == {t \in Issued : token[t].family = s}
IsLive(s) == \E t \in TokensOf(s) : Usable(t)

Goes(r, request) == req' = [req EXCEPT ![r] = request]
Answers(r)       == Goes(r, Idle)

-----------------------------------------------------------------------------
(* Ending sessions: endSessions, the way of every sign-out.                *)

End(p, sessions) ==
  [at |-> "list", owner |-> p, scope |-> sessions, listed |-> {}]

\* findLiveFamilies, before the transaction and without a lock.
EndLists(r) ==
  /\ req[r].at = "list"
  /\ Goes(r, [req[r] EXCEPT !.at = "revoke",
       !.listed = {s \in req[r].scope :
                     \E t \in TokensOf(s) : Usable(t) /\ token[t].owner = req[r].owner}])
  /\ UNCHANGED <<tables, cached>>

Revoked(p, sessions) ==
  [t \in Tokens |->
     IF t \in Issued /\ token[t].owner = p /\ token[t].family \in sessions
       THEN [token[t] EXCEPT !.state = "revoked"] ELSE token[t]]

\* closeEndedSessions: d, or NoDevice, is the device of no usable token of p.
Deserted(p, d) ==
  ~ \E t \in Issued' : Usable(t)' /\ token'[t].owner = p /\ token'[t].device = d

EndRevokes(r) ==
  LET p == req[r].owner IN
  /\ req[r].at = "revoke"
  /\ token' = Revoked(p, req[r].scope)
  /\ device' = [device EXCEPT ![p] = [d \in DeviceIds |->
       IF device[p][d] = "active" /\ Deserted(p, d)
         THEN "signedOut" ELSE device[p][d]]]
  /\ history' = [s \in SessionIds |->
       IF s \in Begun /\ history[s].owner = p /\ Deserted(p, history[s].device)
         THEN [history[s] EXCEPT !.state = "closed"] ELSE history[s]]
  /\ Goes(r, [req[r] EXCEPT !.at = "forget"])
  /\ UNCHANGED <<account, cached>>

EndForgets(r) ==
  /\ req[r].at = "forget"
  /\ cached' = cached \ req[r].listed
  /\ Answers(r)
  /\ UNCHANGED tables

\* logout: the session of the token presented.
Logout(r, t) ==
  /\ req[r] = Idle /\ t \in Issued
  /\ Goes(r, End(token[t].owner, {token[t].family}))
  /\ UNCHANGED <<tables, cached>>

\* logoutDevice: every session that ever had a token on the device.
LogoutDevice(r, p, d) ==
  /\ req[r] = Idle /\ device[p][d] # "none"
  /\ Goes(r, End(p, {token[t].family :
                       t \in {u \in Issued : token[u].owner = p /\ token[u].device = d}}))
  /\ UNCHANGED <<tables, cached>>

\* logoutOtherSessions, by a request of the session s; its change of password
\* writes the hash first.
LogoutOthers(r, s) ==
  /\ req[r] = Idle /\ IsLive(s)
  /\ Goes(r, End(history[s].owner, SessionIds \ {s}))
  /\ UNCHANGED <<tables, cached>>

\* logoutEverywhere, adminRevokeSessions.
LogoutAll(r, p) ==
  /\ req[r] = Idle /\ account[p] # "removed"
  /\ Goes(r, End(p, SessionIds))
  /\ UNCHANGED <<tables, cached>>

-----------------------------------------------------------------------------
(* A sign-in.                                                              *)

\* login up to the history row: the checks of password, standing and role.
Login(r, p, d) ==
  /\ req[r] = Idle
  /\ account[p] = "active"
  /\ Goes(r, [at |-> IF d = NoDevice THEN "openRow" ELSE "closeRows",
              owner |-> p, device |-> d])
  /\ UNCHANGED <<tables, cached>>

\* insertLoginHistory: the open rows of the device end here.
LoginClosesRows(r) ==
  /\ req[r].at = "closeRows"
  /\ history' = [s \in SessionIds |->
       IF s \in Begun /\ history[s].owner = req[r].owner
                      /\ history[s].device = req[r].device
         THEN [history[s] EXCEPT !.state = "closed"] ELSE history[s]]
  /\ Goes(r, [req[r] EXCEPT !.at = "openRow"])
  /\ UNCHANGED <<account, token, device, cached>>

\* The session gets its id here, a step before the code draws it.
LoginOpensRow(r, s) ==
  /\ req[r].at = "openRow" /\ Begun = 1..(s - 1)
  /\ history' = [history EXCEPT ![s] =
       [owner |-> req[r].owner, device |-> req[r].device, state |-> "open"]]
  /\ Goes(r, [at |-> "issue", owner |-> req[r].owner, session |-> s,
              device |-> req[r].device, signIn |-> TRUE])
  /\ UNCHANGED <<account, token, device, cached>>

-----------------------------------------------------------------------------
(* issueTokenPair, for a sign-in and for a refresh.                        *)

IssueToken(r, t) ==
  /\ req[r].at = "issue" /\ Issued = 1..(t - 1)
  /\ token' = [token EXCEPT ![t] =
       [owner |-> req[r].owner, family |-> req[r].session,
        device |-> req[r].device, state |-> "usable"]]
  /\ IF req[r].device = NoDevice THEN Answers(r)
                                 ELSE Goes(r, [req[r] EXCEPT !.at = "upsert"])
  /\ UNCHANGED <<account, device, history, cached>>

\* upsertDevice: a refresh leaves a device alone that it finds signed out.
UpsertReads(r) ==
  /\ req[r].at = "upsert"
  /\ IF ~req[r].signIn /\ device[req[r].owner][req[r].device] = "signedOut"
       THEN Answers(r) ELSE Goes(r, [req[r] EXCEPT !.at = "touch"])
  /\ UNCHANGED <<tables, cached>>

UpsertWrites(r) ==
  /\ req[r].at = "touch"
  /\ device' = [device EXCEPT ![req[r].owner][req[r].device] = "active"]
  /\ Answers(r)
  /\ UNCHANGED <<account, token, history, cached>>

-----------------------------------------------------------------------------
(* A refresh: of token t, from a device that says it is d.                 *)

Mismatch(t, d) == NoDevice \notin {d, token[t].device} /\ d # token[t].device

Refresh(r, t, d) ==
  /\ req[r] = Idle /\ t \in Issued
  /\ \/ /\ ~Usable(t)
        /\ Goes(r, End(token[t].owner, {token[t].family}))
     \/ /\ Usable(t) /\ ~Mismatch(t, d)
        /\ LET on == IF token[t].device = NoDevice THEN d ELSE token[t].device IN
           Goes(r, [at |-> IF on = NoDevice THEN "rotate" ELSE "device",
                    owner |-> token[t].owner, old |-> t,
                    session |-> token[t].family, device |-> on])
  /\ UNCHANGED <<tables, cached>>

\* isDeviceSignedOut.
RefreshChecksDevice(r) ==
  /\ req[r].at = "device"
  /\ IF device[req[r].owner][req[r].device] = "signedOut"
       THEN Goes(r, End(req[r].owner, {req[r].session}))
       ELSE Goes(r, [req[r] EXCEPT !.at = "rotate"])
  /\ UNCHANGED <<tables, cached>>

Successor(r) ==
  [at |-> "account", owner |-> req[r].owner, session |-> req[r].session,
   device |-> req[r].device, signIn |-> FALSE]

\* Mutant: the number of rows that the UPDATE revoked is not looked at.
RotatesAnyway(r) ==
  /\ req[r].at = "rotate"
  /\ token' = [token EXCEPT ![req[r].old].state = "revoked"]
  /\ Goes(r, Successor(r))
  /\ UNCHANGED <<account, device, history, cached>>

\* The conditional UPDATE: only one request can revoke a token.
RefreshRotates(r) ==
  LET t == req[r].old IN
  /\ req[r].at = "rotate"
  /\ \/ /\ token[t].state # "revoked"
        /\ token' = [token EXCEPT ![t].state = "revoked"]
        /\ Goes(r, Successor(r))
     \/ /\ token[t].state = "revoked"
        /\ Goes(r, End(req[r].owner, {req[r].session}))
        /\ UNCHANGED token
  /\ UNCHANGED <<account, device, history, cached>>

\* The account is read again; without it the session has no token any more.
RefreshChecksAccount(r) ==
  /\ req[r].at = "account"
  /\ IF account[req[r].owner] \in {"active", "noSignIn"}
       THEN Goes(r, [req[r] EXCEPT !.at = "issue"]) ELSE Answers(r)
  /\ UNCHANGED <<tables, cached>>

-----------------------------------------------------------------------------
(* The check of every authenticated request, and its cache.                *)

\* Mutant: a session is marked that the database does not know as live.
ReadsNothing(r, s) ==
  /\ req[r] = Idle /\ s \notin cached
  /\ Goes(r, [at |-> "mark", session |-> s])
  /\ UNCHANGED <<tables, cached>>

\* SessionLivenessService.isLive, when the cache does not answer.
CheckReads(r, s) ==
  /\ req[r] = Idle /\ s \notin cached /\ IsLive(s)
  /\ Goes(r, [at |-> "mark", session |-> s])
  /\ UNCHANGED <<tables, cached>>

CheckMarks(r) ==
  /\ req[r].at = "mark"
  /\ cached' = cached \cup {req[r].session}
  /\ Answers(r)
  /\ UNCHANGED tables

MarkerExpires(s) ==
  /\ s \in cached
  /\ cached' = cached \ {s}
  /\ UNCHANGED <<tables, req>>

-----------------------------------------------------------------------------
(* The accounts, by UserService and the administrator's actions.           *)

\* UserService.update, the roles, OVERDUE; changePassword, adminResetPassword
\* and disableSigninAccess: the hash, written before the sessions they end with
\* LogoutOthers or LogoutAll.  None of these writes ends a session itself.
SetStanding(p, standing) ==
  /\ "removed" \notin {account[p], standing} /\ standing # account[p]
  /\ account' = [account EXCEPT ![p] = standing]
  /\ UNCHANGED <<token, device, history, cached, req>>

\* UserService.remove: the tokens are revoked, device and history stay.
RemoveUser(p) ==
  /\ account[p] # "removed"
  /\ account' = [account EXCEPT ![p] = "removed"]
  /\ token' = Revoked(p, SessionIds)
  /\ UNCHANGED <<device, history, cached, req>>

-----------------------------------------------------------------------------
TokenExpires(t) ==
  /\ Usable(t)
  /\ token' = [token EXCEPT ![t].state = "expired"]
  /\ UNCHANGED <<account, device, history, cached, req>>

Crash ==
  /\ \E r \in Requests : req[r] # Idle
  /\ req' = [r \in Requests |-> Idle]
  /\ UNCHANGED <<tables, cached>>

Step(r) ==
  \/ EndLists(r) \/ EndRevokes(r) \/ EndForgets(r)
  \/ LoginClosesRows(r) \/ \E s \in SessionIds : LoginOpensRow(r, s)
  \/ \E t \in Tokens : IssueToken(r, t)
  \/ UpsertReads(r) \/ UpsertWrites(r)
  \/ RefreshChecksDevice(r) \/ RefreshRotates(r) \/ RefreshChecksAccount(r)
  \/ CheckMarks(r)

Arrives(r) ==
  \/ \E t \in Tokens : Logout(r, t)
  \/ \E p \in Principals, d \in DeviceIds : LogoutDevice(r, p, d)
  \/ \E s \in SessionIds : LogoutOthers(r, s) \/ CheckReads(r, s)
  \/ \E p \in Principals : LogoutAll(r, p)
  \/ \E p \in Principals, d \in Headers : Login(r, p, d)
  \/ \E t \in Tokens, d \in Headers : Refresh(r, t, d)

Next ==
  \/ \E r \in Requests : Step(r) \/ Arrives(r)
  \/ \E s \in SessionIds : MarkerExpires(s)
  \/ \E p \in Principals :
       RemoveUser(p) \/ \E standing \in Standing : SetStanding(p, standing)
  \/ \E t \in Tokens : TokenExpires(t)
  \/ Crash

Spec == Init /\ [][Next]_vars

\* Redis drops a key when its time is up; nothing else need ever happen.
FairSpec == Spec /\ \A s \in SessionIds : WF_vars(MarkerExpires(s))

-----------------------------------------------------------------------------
(* Properties.                                                             *)

\* The request that is to issue the next token of s: a sign-in, or the refresh
\* that revoked the last one.
Holds(r, s) == req[r].at \in {"account", "issue"} /\ req[r].session = s

Unrevoked(s) == {t \in TokensOf(s) : token[t].state # "revoked"}

\* A session has at most one token that a refresh would accept, however many
\* refreshes of it run at the same time.
OneUsableToken ==
  \A s \in SessionIds : \A t, u \in Unrevoked(s) : t = u

\* What makes it so: the next token of a session is issued only when it has
\* none, and by one request.
OneSuccessor ==
  \A s \in SessionIds, r \in Requests :
    Holds(r, s) => /\ Unrevoked(s) = {}
                   /\ \A q \in Requests : Holds(q, s) => q = r

\* Tokens and requests are about sessions that have begun, a refresh about the
\* session of its token.
KnownSessions ==
  /\ \A t \in Issued : token[t].family \in Begun
  /\ \A r \in Requests :
       /\ req[r].at \in {"account", "issue"} => req[r].session \in Begun
       /\ req[r].at \in {"device", "rotate"}
            => /\ req[r].old \in Issued
               /\ token[req[r].old].family = req[r].session

IInv == TypeOK /\ OneUsableToken /\ OneSuccessor /\ KnownSessions

\* A session that has ended, with no token left to refresh and none about to be
\* issued, never has one again: no retry, replay or late answer revives it.
Ended(s) ==
  s \in Begun /\ Unrevoked(s) = {} /\ \A r \in Requests : ~Holds(r, s)

EndedStaysEnded == [][\A s \in SessionIds : Ended(s) => Ended(s)']_vars

\* The cached answer outlives the end of its session, when a check that read the
\* database before marks it after; but not for ever.
MarkerFades == \A s \in SessionIds : Ended(s) ~> [](s \notin cached)

\* "the caller's own current session survives so they aren't immediately logged
\* out": ending other sessions leaves the device of one that goes on.
GoesOn(s) == IsLive(s) \/ \E r \in Requests : Holds(r, s)
OwnSessionSurvives ==
  [][\A r \in Requests, s \in SessionIds, d \in DeviceIds :
       /\ req[r].at = "revoke" /\ req[r]'.at = "forget"
       /\ s \notin req[r].scope /\ GoesOn(s) /\ history[s].device = d
       => device'[req[r].owner][d] = device[req[r].owner][d]]_vars

=============================================================================
