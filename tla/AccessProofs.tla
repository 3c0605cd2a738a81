----------------------------- MODULE AccessProofs -----------------------------
(***************************************************************************)
(* Proofs about who may act: Sessions and Permissions.                     *)
(*                                                                         *)
(* Sessions, for any number of principals, devices, tokens and concurrent  *)
(* requests.  The inductive invariant is IInv: a session has one token at  *)
(* most because its next one is issued by the only request that could      *)
(* revoke the last (OneSuccessor).  Most steps only take tokens and        *)
(* successors away; the lemma Calm covers them all.                        *)
(*                                                                         *)
(* Permissions, for any roles, policies, codes, requests, databases to     *)
(* start from and deaths of the process.  The inductive invariant is       *)
(* PermissionsInv: what a request in flight has checked still stands for   *)
(* the things nobody else has touched since it read (Stands).  A commit    *)
(* changes what it names and nothing else (Frame), so the checks of the    *)
(* others stand (StandsKept), and its own is what makes the new database   *)
(* right (CommitStep).                                                     *)
(***************************************************************************)
EXTENDS Sessions, Permissions, FiniteSetTheorems, TLAPS

-----------------------------------------------------------------------------
(* Rows and requests.                                                      *)

LEMMA RowsApart ==
  /\ \A x \in TokenRow : x # NoRow
  /\ \A x \in HistoryRow : x # NoRow
<1>1. NoRow.state = "none" BY DEF NoRow
<1>2. \A x \in TokenRow : x.state # "none" BY DEF TokenRow, TokenState
<1>3. \A x \in HistoryRow : x.state # "none" BY DEF HistoryRow
<1> QED BY <1>1, <1>2, <1>3

LEMMA TokenFields ==
  ASSUME TypeOK, NEW t \in Issued
  PROVE  /\ token[t] \in TokenRow /\ token[t].owner \in Principals
         /\ token[t].family \in SessionIds
         /\ token[t].device \in DeviceIds \cup {NoDevice}
         /\ [token[t] EXCEPT !.state = "revoked"] \in TokenRow
         /\ [token[t] EXCEPT !.state = "revoked"].family = token[t].family
         /\ [token[t] EXCEPT !.state = "expired"] \in TokenRow
         /\ [token[t] EXCEPT !.state = "expired"].family = token[t].family
<1>1. token[t] \in TokenRow BY DEF TypeOK, Issued
<1> QED BY <1>1 DEF TokenRow, TokenState

LEMMA HistoryFields ==
  ASSUME TypeOK, NEW s \in Begun
  PROVE  /\ s \in SessionIds /\ history[s] \in HistoryRow
         /\ [history[s] EXCEPT !.state = "closed"] \in HistoryRow
<1>1. s \in SessionIds /\ history[s] \in HistoryRow BY DEF TypeOK, Begun
<1> QED BY <1>1 DEF HistoryRow

\* A request is what its next statement says it is.
LEMMA RequestKinds ==
  ASSUME NEW x \in Request
  PROVE  /\ x.at \in {"closeRows", "openRow"} => x \in SignInRequest
         /\ x.at \in {"device", "rotate"} => x \in RefreshRequest
         /\ x.at \in {"account", "issue", "upsert", "touch"} => x \in IssueRequest
         /\ x.at \in {"list", "revoke", "forget"} => x \in EndRequest
         /\ x.at = "mark" => x \in CheckRequest
BY DEF Request, Idle, SignInRequest, RefreshRequest, IssueRequest, EndRequest,
       CheckRequest

LEMMA EndIsRequest ==
  ASSUME NEW p \in Principals, NEW S \in SUBSET SessionIds
  PROVE  End(p, S) \in Request /\ End(p, S).at = "list"
BY DEF End, Request, EndRequest

LEMMA GoesType ==
  ASSUME TypeOK, NEW r \in Requests, NEW x \in Request, Goes(r, x)
  PROVE  /\ req' \in [Requests -> Request] /\ req'[r] = x
         /\ \A q \in Requests : q # r => req'[q] = req[q]
BY DEF TypeOK, Goes

LEMMA RevokedRows ==
  ASSUME TypeOK, NEW p, NEW S
  PROVE  /\ Revoked(p, S) \in [Tokens -> TokenRow \cup {NoRow}]
         /\ \A t \in Tokens :
              /\ t \in Issued <=> Revoked(p, S)[t] # NoRow
              /\ t \in Issued => /\ Revoked(p, S)[t].family = token[t].family
                                 /\ Revoked(p, S)[t].state # "revoked"
                                      => token[t].state # "revoked"
<1>1. ASSUME NEW t \in Tokens
      PROVE  /\ Revoked(p, S)[t] \in TokenRow \cup {NoRow}
             /\ t \in Issued <=> Revoked(p, S)[t] # NoRow
             /\ t \in Issued => /\ Revoked(p, S)[t].family = token[t].family
                                /\ Revoked(p, S)[t].state # "revoked"
                                     => token[t].state # "revoked"
  <2>1. CASE t \in Issued
    <3>1. [token[t] EXCEPT !.state = "revoked"].state = "revoked"
      BY <2>1, TokenFields DEF TokenRow
    <3> QED BY <2>1, <3>1, TokenFields, RowsApart DEF Revoked
  <2>2. CASE t \notin Issued
    BY <2>2 DEF Revoked, Issued, TypeOK
  <2> QED BY <2>1, <2>2
<1>2. DOMAIN Revoked(p, S) = Tokens BY DEF Revoked
<1>3. Revoked(p, S) = [t \in Tokens |-> Revoked(p, S)[t]] BY DEF Revoked
<1> QED BY <1>1, <1>3

-----------------------------------------------------------------------------
(* Steps that take tokens and successors away, or leave them.              *)

Fewer ==
  /\ \A s \in SessionIds : Unrevoked(s)' \subseteq Unrevoked(s)
  /\ \A s \in SessionIds, r \in Requests : Holds(r, s)' => Holds(r, s)

LEMMA Calm ==
  ASSUME OneUsableToken, OneSuccessor, Fewer
  PROVE  OneUsableToken' /\ OneSuccessor'
BY DEF OneUsableToken, OneSuccessor, Fewer

LEMMA CalmEnds ==
  ASSUME Fewer, Begun \subseteq Begun', NEW s \in SessionIds, Ended(s)
  PROVE  Ended(s)'
BY DEF Fewer, Ended

\* No token appears, changes its family or comes back from its revocation.
KeepsTokens ==
  /\ Issued' = Issued
  /\ \A t \in Issued :
       /\ token'[t].family = token[t].family
       /\ token'[t].state # "revoked" => token[t].state # "revoked"

CalmStep == TypeOK' /\ KnownSessions' /\ Fewer /\ Begun \subseteq Begun'

LEMMA SameTokens ==
  ASSUME token' = token
  PROVE  KeepsTokens
BY DEF KeepsTokens, Issued

\* Tokens are kept and request r becomes x, which is to issue the next token of
\* a session, or refreshes a token, only if it was already.
LEMMA Moves ==
  ASSUME TypeOK, KnownSessions, KeepsTokens, Begun \subseteq Begun',
         NEW r \in Requests, NEW x \in Request, Goes(r, x),
         x.at \in {"account", "issue"} => Holds(r, x.session),
         x.at \in {"device", "rotate"}
           => x.old \in Issued /\ token[x.old].family = x.session
  PROVE  KnownSessions' /\ Fewer
<1>1. /\ req'[r] = x
      /\ \A q \in Requests : q # r => req'[q] = req[q]
  BY GoesType
<1>2. ASSUME NEW s \in SessionIds, NEW t \in Unrevoked(s)'
      PROVE  t \in Unrevoked(s)
  <2>1. t \in Issued' /\ token'[t].family = s /\ token'[t].state # "revoked"
    BY <1>2 DEF Unrevoked, TokensOf
  <2> QED BY <2>1 DEF KeepsTokens, Unrevoked, TokensOf
<1>3. \A s \in SessionIds, q \in Requests : Holds(q, s)' => Holds(q, s)
  BY <1>1 DEF Holds
<1>4. \A t \in Issued' : token'[t].family \in Begun'
  <2>1. \A t \in Issued : token[t].family \in Begun BY DEF KnownSessions
  <2> QED BY <2>1 DEF KeepsTokens
<1>5. ASSUME NEW q \in Requests
      PROVE  /\ req'[q].at \in {"account", "issue"} => req'[q].session \in Begun'
             /\ req'[q].at \in {"device", "rotate"}
                  => /\ req'[q].old \in Issued'
                     /\ token'[req'[q].old].family = req'[q].session
  <2>1. \A u \in Requests :
          /\ req[u].at \in {"account", "issue"} => req[u].session \in Begun
          /\ req[u].at \in {"device", "rotate"}
               => req[u].old \in Issued /\ token[req[u].old].family = req[u].session
    BY DEF KnownSessions
  <2>2. CASE q = r
    <3>1. x.at \in {"account", "issue"} => x.session \in Begun
      BY <2>1 DEF Holds
    <3> QED BY <2>2, <1>1, <3>1 DEF KeepsTokens
  <2>3. CASE q # r
    BY <2>1, <2>3, <1>1 DEF KeepsTokens
  <2> QED BY <2>2, <2>3
<1>6. Fewer BY <1>2, <1>3 DEF Fewer
<1> QED BY <1>4, <1>5, <1>6 DEF KnownSessions

\* A request that only moves on, or that also writes tables other than tokens.
LEMMA MovesOn ==
  ASSUME TypeOK, KnownSessions, token' = token, Begun \subseteq Begun',
         account' = account, cached' \subseteq SessionIds,
         device' \in [Principals -> [DeviceIds -> {"none", "active", "signedOut"}]],
         history' \in [SessionIds -> HistoryRow \cup {NoRow}],
         NEW r \in Requests, NEW x \in Request, Goes(r, x),
         x.at \in {"account", "issue"} => Holds(r, x.session),
         x.at \in {"device", "rotate"}
           => x.old \in Issued /\ token[x.old].family = x.session
  PROVE  CalmStep
<1>1. KnownSessions' /\ Fewer BY SameTokens, Moves
<1>2. req' \in [Requests -> Request] BY GoesType
<1> QED BY <1>1, <1>2 DEF CalmStep, TypeOK

\* The special case of a request that changes nothing else.
LEMMA OnlyMoves ==
  ASSUME TypeOK, KnownSessions, UNCHANGED <<tables, cached>>,
         NEW r \in Requests, NEW x \in Request, Goes(r, x),
         x.at \in {"account", "issue"} => Holds(r, x.session),
         x.at \in {"device", "rotate"}
           => x.old \in Issued /\ token[x.old].family = x.session
  PROVE  CalmStep
<1>1. token' = token /\ account' = account /\ device' = device
      /\ history' = history /\ cached' = cached
  BY DEF tables
<1>2. Begun' = Begun BY <1>1 DEF Begun
<1> QED BY <1>1, <1>2, MovesOn DEF TypeOK

LEMMA IdleIsRequest == Idle \in Request /\ Idle.at = "idle"
BY DEF Idle, Request

-----------------------------------------------------------------------------
(* One lemma per action: the end of sessions.                              *)

LEMMA EndListsKeeps ==
  ASSUME IInv, NEW r \in Requests, EndLists(r)
  PROVE  CalmStep
<1> DEFINE x == [req[r] EXCEPT !.at = "revoke",
       !.listed = {s \in req[r].scope :
                     \E t \in TokensOf(s) : Usable(t) /\ token[t].owner = req[r].owner}]
<1>1. req[r] \in EndRequest BY RequestKinds DEF IInv, TypeOK, EndLists
<1>2. x \in EndRequest /\ x.at = "revoke" BY <1>1 DEF EndRequest
<1>3. x \in Request BY <1>2 DEF Request
<1> HIDE DEF x
<1>4. Goes(r, x) /\ UNCHANGED <<tables, cached>> BY DEF EndLists, x
<1> QED BY <1>2, <1>3, <1>4, OnlyMoves DEF IInv

LEMMA EndRevokesKeeps ==
  ASSUME IInv, NEW r \in Requests, EndRevokes(r)
  PROVE  CalmStep
<1> USE DEF IInv
<1> DEFINE p == req[r].owner
           x == [req[r] EXCEPT !.at = "forget"]
<1>1. req[r] \in EndRequest BY RequestKinds DEF TypeOK, EndRevokes
<1>2. p \in Principals /\ x \in EndRequest /\ x.at = "forget"
  BY <1>1 DEF EndRequest
<1>3. x \in Request BY <1>2 DEF Request
<1>4. /\ token' = Revoked(p, req[r].scope) /\ Goes(r, x)
      /\ account' = account /\ cached' = cached
  BY DEF EndRevokes
<1>5. token' \in [Tokens -> TokenRow \cup {NoRow}] /\ KeepsTokens
  BY <1>4, RevokedRows DEF KeepsTokens, Issued
<1>6. device' \in [Principals -> [DeviceIds -> {"none", "active", "signedOut"}]]
  <2>1. device' = [device EXCEPT ![p] = [d \in DeviceIds |->
          IF device[p][d] = "active" /\ Deserted(p, d)
            THEN "signedOut" ELSE device[p][d]]]
    BY DEF EndRevokes
  <2> QED BY <2>1, <1>2 DEF TypeOK
<1>7. history' \in [SessionIds -> HistoryRow \cup {NoRow}] /\ Begun \subseteq Begun'
  <2>1. history' = [s \in SessionIds |->
          IF s \in Begun /\ history[s].owner = p /\ Deserted(p, history[s].device)
            THEN [history[s] EXCEPT !.state = "closed"] ELSE history[s]]
    BY DEF EndRevokes
  <2>2. \A s \in SessionIds :
          /\ history'[s] \in HistoryRow \cup {NoRow}
          /\ s \in Begun => history'[s] # NoRow
    BY <2>1, HistoryFields, RowsApart DEF TypeOK, Begun
  <2>3. DOMAIN history' = SessionIds /\ history' = [s \in SessionIds |-> history'[s]]
    BY <2>1
  <2>4. history' \in [SessionIds -> HistoryRow \cup {NoRow}]
    <3> DEFINE R == HistoryRow \cup {NoRow}
    <3>1. \A s \in SessionIds : history'[s] \in R BY <2>2
    <3> HIDE DEF R
    <3>2. history' \in [SessionIds -> R] BY <2>3, <3>1
    <3> QED BY <3>2 DEF R
  <2> QED BY <2>2, <2>4 DEF Begun
<1>8. KnownSessions' /\ Fewer
  <2> HIDE DEF x
  <2> QED BY <1>2, <1>3, <1>4, <1>5, <1>7, Moves
<1>9. req' \in [Requests -> Request] BY <1>3, <1>4, GoesType
<1> QED BY <1>4, <1>5, <1>6, <1>7, <1>8, <1>9 DEF CalmStep, TypeOK

LEMMA EndForgetsKeeps ==
  ASSUME IInv, NEW r \in Requests, EndForgets(r)
  PROVE  CalmStep
<1>1. token' = token /\ account' = account /\ device' = device
      /\ history' = history /\ cached' \subseteq cached /\ Goes(r, Idle)
  BY DEF EndForgets, tables, Answers
<1>2. Begun' = Begun BY <1>1 DEF Begun
<1> QED BY <1>1, <1>2, MovesOn, IdleIsRequest DEF IInv, TypeOK

LEMMA SignOutsKeep ==
  ASSUME IInv, NEW r \in Requests,
         \/ \E t \in Tokens : Logout(r, t)
         \/ \E p \in Principals, d \in DeviceIds : LogoutDevice(r, p, d)
         \/ \E s \in SessionIds : LogoutOthers(r, s)
         \/ \E p \in Principals : LogoutAll(r, p)
  PROVE  CalmStep
<1> USE DEF IInv
<1>1. \E p \in Principals, S \in SUBSET SessionIds :
        Goes(r, End(p, S)) /\ UNCHANGED <<tables, cached>>
  <2>1. ASSUME NEW t \in Tokens, Logout(r, t)
        PROVE  \E p \in Principals, S \in SUBSET SessionIds :
                 Goes(r, End(p, S)) /\ UNCHANGED <<tables, cached>>
    <3>1. Goes(r, End(token[t].owner, {token[t].family}))
          /\ UNCHANGED <<tables, cached>> /\ t \in Issued
      BY <2>1 DEF Logout
    <3>2. token[t].owner \in Principals /\ {token[t].family} \in SUBSET SessionIds
      BY <3>1, TokenFields
    <3> QED BY <3>1, <3>2
  <2>2. ASSUME NEW p \in Principals, NEW d \in DeviceIds, LogoutDevice(r, p, d)
        PROVE  \E S \in SUBSET SessionIds :
                 Goes(r, End(p, S)) /\ UNCHANGED <<tables, cached>>
    <3> DEFINE S == {token[t].family :
                       t \in {u \in Issued : token[u].owner = p /\ token[u].device = d}}
    <3>1. S \in SUBSET SessionIds BY TokenFields
    <3> QED BY <2>2, <3>1 DEF LogoutDevice
  <2>3. ASSUME NEW s \in SessionIds, LogoutOthers(r, s)
        PROVE  \E p \in Principals, S \in SUBSET SessionIds :
                 Goes(r, End(p, S)) /\ UNCHANGED <<tables, cached>>
    <3>1. s \in Begun
      BY <2>3, TokenFields DEF LogoutOthers, IsLive, TokensOf, KnownSessions
    <3>2. history[s].owner \in Principals
      BY <3>1, HistoryFields DEF HistoryRow
    <3> QED BY <2>3, <3>2 DEF LogoutOthers
  <2>4. ASSUME NEW p \in Principals, LogoutAll(r, p)
        PROVE  \E S \in SUBSET SessionIds :
                 Goes(r, End(p, S)) /\ UNCHANGED <<tables, cached>>
    BY <2>4 DEF LogoutAll
  <2> QED BY <2>1, <2>2, <2>3, <2>4
<1>2. PICK p \in Principals, S \in SUBSET SessionIds :
        Goes(r, End(p, S)) /\ UNCHANGED <<tables, cached>>
  BY <1>1
<1> QED BY <1>2, EndIsRequest, OnlyMoves

-----------------------------------------------------------------------------
(* A sign-in.                                                              *)

LEMMA LoginKeeps ==
  ASSUME IInv, NEW r \in Requests, NEW p \in Principals, NEW d \in Headers, Login(r, p, d)
  PROVE  CalmStep
<1> DEFINE x == [at |-> IF d = NoDevice THEN "openRow" ELSE "closeRows",
                 owner |-> p, device |-> d]
<1>1. x \in SignInRequest /\ x.at \in {"openRow", "closeRows"}
  BY SessionAssumption DEF SignInRequest
<1>2. x \in Request BY <1>1 DEF Request
<1>3. Goes(r, x) /\ UNCHANGED <<tables, cached>> BY DEF Login
<1> HIDE DEF x
<1> QED BY <1>1, <1>2, <1>3, OnlyMoves DEF IInv

LEMMA LoginClosesRowsKeeps ==
  ASSUME IInv, NEW r \in Requests, LoginClosesRows(r)
  PROVE  CalmStep
<1> USE DEF IInv
<1> DEFINE x == [req[r] EXCEPT !.at = "openRow"]
<1>1. req[r] \in SignInRequest BY RequestKinds DEF TypeOK, LoginClosesRows
<1>2. x \in SignInRequest /\ x.at = "openRow" BY <1>1 DEF SignInRequest
<1>3. x \in Request BY <1>2 DEF Request
<1>4. Goes(r, x) /\ token' = token /\ account' = account /\ device' = device
      /\ cached' = cached
  BY DEF LoginClosesRows
<1>5. history' \in [SessionIds -> HistoryRow \cup {NoRow}] /\ Begun \subseteq Begun'
  <2>1. history' = [s \in SessionIds |->
          IF s \in Begun /\ history[s].owner = req[r].owner
                         /\ history[s].device = req[r].device
            THEN [history[s] EXCEPT !.state = "closed"] ELSE history[s]]
    BY DEF LoginClosesRows
  <2>2. \A s \in SessionIds :
          /\ history'[s] \in HistoryRow \cup {NoRow}
          /\ s \in Begun => history'[s] # NoRow
    BY <2>1, HistoryFields, RowsApart DEF TypeOK, Begun
  <2>3. DOMAIN history' = SessionIds /\ history' = [s \in SessionIds |-> history'[s]]
    BY <2>1
  <2>4. history' \in [SessionIds -> HistoryRow \cup {NoRow}]
    <3> DEFINE R == HistoryRow \cup {NoRow}
    <3>1. \A s \in SessionIds : history'[s] \in R BY <2>2
    <3> HIDE DEF R
    <3>2. history' \in [SessionIds -> R] BY <2>3, <3>1
    <3> QED BY <3>2 DEF R
  <2> QED BY <2>2, <2>4 DEF Begun
<1> HIDE DEF x
<1> QED BY <1>2, <1>3, <1>4, <1>5, MovesOn DEF TypeOK

-----------------------------------------------------------------------------
(* The other actions that take nothing but tokens and successors away.     *)

LEMMA UpsertKeeps ==
  ASSUME IInv, NEW r \in Requests, UpsertReads(r) \/ UpsertWrites(r)
  PROVE  CalmStep
<1> USE DEF IInv
<1> DEFINE x == [req[r] EXCEPT !.at = "touch"]
<1>1. req[r] \in IssueRequest BY RequestKinds DEF TypeOK, UpsertReads, UpsertWrites
<1>2. x \in IssueRequest /\ x.at = "touch" BY <1>1 DEF IssueRequest
<1>3. x \in Request BY <1>2 DEF Request
<1>4. CASE UpsertReads(r)
  <2>1. UNCHANGED <<tables, cached>> /\ (Goes(r, Idle) \/ Goes(r, x))
    BY <1>4 DEF UpsertReads, Answers
  <2> HIDE DEF x
  <2> QED BY <2>1, <1>2, <1>3, OnlyMoves, IdleIsRequest
<1>5. CASE UpsertWrites(r)
  <2>1. /\ Goes(r, Idle) /\ token' = token /\ account' = account
        /\ history' = history /\ cached' = cached
        /\ device' = [device EXCEPT ![req[r].owner][req[r].device] = "active"]
    BY <1>5 DEF UpsertWrites, Answers
  <2>2. device' \in [Principals -> [DeviceIds -> {"none", "active", "signedOut"}]]
    BY <2>1 DEF TypeOK
  <2>3. Begun' = Begun BY <2>1 DEF Begun
  <2> QED BY <2>1, <2>2, <2>3, MovesOn, IdleIsRequest DEF TypeOK
<1> QED BY <1>4, <1>5

LEMMA RefreshKeeps ==
  ASSUME IInv, NEW r \in Requests, NEW t \in Tokens, NEW d \in Headers, Refresh(r, t, d)
  PROVE  CalmStep
<1> USE DEF IInv
<1> DEFINE on == IF token[t].device = NoDevice THEN d ELSE token[t].device
           x == [at |-> IF on = NoDevice THEN "rotate" ELSE "device",
                 owner |-> token[t].owner, old |-> t,
                 session |-> token[t].family, device |-> on]
           S == {token[t].family}
<1>1. t \in Issued /\ UNCHANGED <<tables, cached>>
      /\ (Goes(r, End(token[t].owner, S)) \/ Goes(r, x))
  BY DEF Refresh
<1>2. S \in SUBSET SessionIds /\ token[t].owner \in Principals
  BY <1>1, TokenFields
<1>3. x \in RefreshRequest /\ x.at \in {"rotate", "device"} /\ x.old = t
      /\ x.session = token[t].family
  <2>1. on \in DeviceIds \cup {NoDevice}
    BY <1>1, TokenFields, SessionAssumption
  <2>2. token[t].owner \in Principals /\ token[t].family \in SessionIds
    BY <1>1, TokenFields
  <2> HIDE DEF on
  <2> QED BY <2>1, <2>2 DEF RefreshRequest
<1>4. x \in Request BY <1>3 DEF Request
<1> HIDE DEF x, S
<1>5. CASE Goes(r, x)
  BY <1>1, <1>3, <1>4, <1>5, OnlyMoves
<1>6. CASE Goes(r, End(token[t].owner, S))
  BY <1>1, <1>2, <1>6, EndIsRequest, OnlyMoves
<1> QED BY <1>1, <1>5, <1>6

LEMMA RefreshChecksDeviceKeeps ==
  ASSUME IInv, NEW r \in Requests, RefreshChecksDevice(r)
  PROVE  CalmStep
<1> USE DEF IInv
<1> DEFINE x == [req[r] EXCEPT !.at = "rotate"]
           S == {req[r].session}
<1>1. req[r] \in RefreshRequest /\ req[r].at = "device"
  BY RequestKinds DEF TypeOK, RefreshChecksDevice
<1>2. /\ x \in RefreshRequest /\ x.at = "rotate"
      /\ x.old = req[r].old /\ x.session = req[r].session
  BY <1>1 DEF RefreshRequest
<1>3. S \in SUBSET SessionIds /\ req[r].owner \in Principals
  BY <1>1 DEF RefreshRequest
<1>4. x \in Request BY <1>2 DEF Request
<1>5. UNCHANGED <<tables, cached>> /\ (Goes(r, End(req[r].owner, S)) \/ Goes(r, x))
  BY DEF RefreshChecksDevice
<1>6. req[r].old \in Issued /\ token[req[r].old].family = req[r].session
  BY <1>1 DEF KnownSessions
<1> HIDE DEF x, S
<1>7. CASE Goes(r, x)
  BY <1>2, <1>4, <1>5, <1>6, <1>7, OnlyMoves
<1>8. CASE Goes(r, End(req[r].owner, S))
  BY <1>3, <1>5, <1>8, EndIsRequest, OnlyMoves
<1> QED BY <1>5, <1>7, <1>8

LEMMA RefreshChecksAccountKeeps ==
  ASSUME IInv, NEW r \in Requests, RefreshChecksAccount(r)
  PROVE  CalmStep
<1> USE DEF IInv
<1> DEFINE x == [req[r] EXCEPT !.at = "issue"]
<1>1. req[r] \in IssueRequest /\ req[r].at = "account"
  BY RequestKinds DEF TypeOK, RefreshChecksAccount
<1>2. x \in IssueRequest /\ x.at = "issue" /\ x.session = req[r].session
  BY <1>1 DEF IssueRequest
<1>3. x \in Request BY <1>2 DEF Request
<1>4. UNCHANGED <<tables, cached>> /\ (Goes(r, Idle) \/ Goes(r, x))
  BY DEF RefreshChecksAccount, Answers
<1>5. Holds(r, x.session) BY <1>1, <1>2 DEF Holds
<1> HIDE DEF x
<1> QED BY <1>2, <1>3, <1>4, <1>5, OnlyMoves, IdleIsRequest

LEMMA CheckKeeps ==
  ASSUME IInv, NEW r \in Requests,
         (\E s \in SessionIds : CheckReads(r, s)) \/ CheckMarks(r)
  PROVE  CalmStep
<1> USE DEF IInv
<1>1. ASSUME NEW s \in SessionIds, CheckReads(r, s)
      PROVE  CalmStep
  <2> DEFINE x == [at |-> "mark", session |-> s]
  <2>1. x \in CheckRequest /\ x.at = "mark" BY DEF CheckRequest
  <2>2. x \in Request BY <2>1 DEF Request
  <2>3. UNCHANGED <<tables, cached>> /\ Goes(r, x) BY <1>1 DEF CheckReads
  <2> HIDE DEF x
  <2> QED BY <2>1, <2>2, <2>3, OnlyMoves
<1>2. CASE CheckMarks(r)
  <2>1. req[r] \in CheckRequest BY <1>2, RequestKinds DEF TypeOK, CheckMarks
  <2>2. token' = token /\ account' = account /\ device' = device
        /\ history' = history /\ cached' = cached \cup {req[r].session} /\ Goes(r, Idle)
    BY <1>2 DEF CheckMarks, tables, Answers
  <2>3. cached' \subseteq SessionIds BY <2>1, <2>2 DEF CheckRequest, TypeOK
  <2>4. Begun' = Begun BY <2>2 DEF Begun
  <2> QED BY <2>2, <2>3, <2>4, MovesOn, IdleIsRequest DEF TypeOK
<1> QED BY <1>1, <1>2

\* A step that leaves the requests alone.
LEMMA TablesMove ==
  ASSUME IInv, KeepsTokens, history' = history, req' = req
  PROVE  KnownSessions' /\ Fewer /\ Begun \subseteq Begun'
<1> USE DEF IInv
<1>1. Begun' = Begun BY DEF Begun
<1>2. ASSUME NEW s \in SessionIds, NEW t \in Unrevoked(s)'
      PROVE  t \in Unrevoked(s)
  <2>1. t \in Issued' /\ token'[t].family = s /\ token'[t].state # "revoked"
    BY <1>2 DEF Unrevoked, TokensOf
  <2> QED BY <2>1 DEF KeepsTokens, Unrevoked, TokensOf
<1>3. Fewer BY <1>2 DEF Fewer, Holds
<1>4. KnownSessions' BY <1>1 DEF KnownSessions, KeepsTokens
<1> QED BY <1>1, <1>3, <1>4

LEMMA AccountsKeep ==
  ASSUME IInv, NEW p \in Principals,
         RemoveUser(p) \/ \E standing \in Standing : SetStanding(p, standing)
  PROVE  CalmStep
<1> USE DEF IInv
<1>1. /\ history' = history /\ req' = req /\ device' = device /\ cached' = cached
      /\ account' \in [Principals -> Standing]
  BY DEF RemoveUser, SetStanding, TypeOK, Standing
<1>2. token' = token \/ token' = Revoked(p, SessionIds)
  BY DEF RemoveUser, SetStanding
<1>3. KeepsTokens /\ token' \in [Tokens -> TokenRow \cup {NoRow}]
  <2>1. CASE token' = token BY <2>1, SameTokens DEF TypeOK
  <2>2. CASE token' = Revoked(p, SessionIds)
    BY <2>2, RevokedRows DEF KeepsTokens, Issued
  <2> QED BY <1>2, <2>1, <2>2
<1> QED BY <1>1, <1>3, TablesMove DEF CalmStep, TypeOK

LEMMA TokenExpiresKeeps ==
  ASSUME IInv, NEW t \in Tokens, TokenExpires(t)
  PROVE  CalmStep
<1> USE DEF IInv
<1> DEFINE x == [token[t] EXCEPT !.state = "expired"]
<1>1. /\ history' = history /\ req' = req /\ device' = device /\ cached' = cached
      /\ account' = account /\ token' = [token EXCEPT ![t] = x]
      /\ t \in Issued /\ token[t].state = "usable"
  BY DEF TokenExpires, Usable
<1>2. x \in TokenRow /\ x # NoRow /\ x.family = token[t].family
  BY <1>1, TokenFields, RowsApart
<1> HIDE DEF x
<1>3. token' \in [Tokens -> TokenRow \cup {NoRow}] BY <1>1, <1>2 DEF TypeOK
<1>4. KeepsTokens BY <1>1, <1>2 DEF KeepsTokens, Issued, TypeOK
<1> QED BY <1>1, <1>3, <1>4, TablesMove DEF CalmStep, TypeOK

LEMMA MarkerExpiresKeeps ==
  ASSUME IInv, NEW s \in SessionIds, MarkerExpires(s)
  PROVE  CalmStep
<1> USE DEF IInv
<1>1. token' = token /\ account' = account /\ device' = device /\ history' = history
      /\ req' = req /\ cached' \subseteq SessionIds
  BY DEF MarkerExpires, tables, TypeOK
<1> QED BY <1>1, SameTokens, TablesMove DEF CalmStep, TypeOK

LEMMA CrashKeeps ==
  ASSUME IInv, Crash
  PROVE  CalmStep
<1> USE DEF IInv
<1>1. token' = token /\ account' = account /\ device' = device /\ history' = history
      /\ cached' = cached /\ req' = [r \in Requests |-> Idle]
  BY DEF Crash, tables
<1>2. TypeOK' BY <1>1, IdleIsRequest DEF TypeOK
<1>3. Begun' = Begun /\ Issued' = Issued BY <1>1 DEF Begun, Issued
<1>4. \A r \in Requests : req'[r].at = "idle" BY <1>1, IdleIsRequest
<1>5. Fewer
  BY <1>1, <1>3, <1>4 DEF Fewer, Unrevoked, TokensOf, Holds
<1>6. KnownSessions' BY <1>1, <1>3, <1>4 DEF KnownSessions
<1> QED BY <1>2, <1>3, <1>5, <1>6 DEF CalmStep

LEMMA StutterKeeps ==
  ASSUME IInv, UNCHANGED vars
  PROVE  CalmStep
<1> USE DEF IInv
<1>1. token' = token /\ account' = account /\ device' = device /\ history' = history
      /\ cached' = cached /\ req' = req
  BY DEF vars, tables
<1> QED BY <1>1, SameTokens, TablesMove DEF CalmStep, TypeOK

-----------------------------------------------------------------------------
(* The three steps of a session's succession: it begins, its token is      *)
(* given up by the request that is to issue the next, and that is issued.  *)

SafeStep == IInv' /\ \A s \in SessionIds : Ended(s) => Ended(s)'

LEMMA CalmIsSafe ==
  ASSUME IInv, CalmStep
  PROVE  SafeStep
BY Calm, CalmEnds DEF SafeStep, IInv, CalmStep

LEMMA LoginOpensRowKeeps ==
  ASSUME IInv, NEW r \in Requests, NEW s \in SessionIds, LoginOpensRow(r, s)
  PROVE  SafeStep
<1> USE DEF IInv
<1> DEFINE x == [at |-> "issue", owner |-> req[r].owner, session |-> s,
                 device |-> req[r].device, signIn |-> TRUE]
           h == [owner |-> req[r].owner, device |-> req[r].device, state |-> "open"]
<1>1. req[r] \in SignInRequest BY RequestKinds DEF TypeOK, LoginOpensRow
<1>2. x \in IssueRequest /\ x.at = "issue" /\ x.session = s /\ h \in HistoryRow
  BY <1>1 DEF SignInRequest, IssueRequest, HistoryRow
<1>3. x \in Request /\ h # NoRow BY <1>2, RowsApart DEF Request
<1>4. /\ token' = token /\ account' = account /\ device' = device /\ cached' = cached
      /\ history' = [history EXCEPT ![s] = h] /\ Goes(r, x)
      /\ Begun = 1..(s - 1)
  BY DEF LoginOpensRow
<1> HIDE DEF x, h
<1>5. s \notin Begun BY <1>4 DEF SessionIds
<1>6. Begun' = Begun \cup {s} BY <1>3, <1>4 DEF Begun, TypeOK
<1>7. /\ req' \in [Requests -> Request] /\ req'[r] = x
      /\ \A q \in Requests : q # r => req'[q] = req[q]
  BY <1>3, <1>4, GoesType
<1>8. TypeOK' BY <1>2, <1>4, <1>7 DEF TypeOK
<1>9. Issued' = Issued /\ \A u \in SessionIds : Unrevoked(u)' = Unrevoked(u)
  BY <1>4 DEF Issued, Unrevoked, TokensOf
<1>10. Unrevoked(s) = {}
  BY <1>5 DEF Unrevoked, TokensOf, KnownSessions
<1>11. \A q \in Requests : ~Holds(q, s)
  BY <1>5 DEF Holds, KnownSessions
<1>12. \A u \in SessionIds, q \in Requests :
         Holds(q, u)' => Holds(q, u) \/ (q = r /\ u = s)
  BY <1>2, <1>7 DEF Holds
<1>13. KnownSessions'
  <2>1. \A t \in Issued' : token'[t].family \in Begun'
    BY <1>4, <1>6, <1>9 DEF KnownSessions
  <2>2. ASSUME NEW q \in Requests
        PROVE  /\ req'[q].at \in {"account", "issue"} => req'[q].session \in Begun'
               /\ req'[q].at \in {"device", "rotate"}
                    => /\ req'[q].old \in Issued'
                       /\ token'[req'[q].old].family = req'[q].session
    BY <1>2, <1>4, <1>6, <1>7, <1>9 DEF KnownSessions
  <2> QED BY <2>1, <2>2 DEF KnownSessions
<1>14. OneUsableToken' BY <1>9 DEF OneUsableToken
<1>15. OneSuccessor'
  BY <1>9, <1>10, <1>11, <1>12 DEF OneSuccessor
<1>16. \A u \in SessionIds : Ended(u) => Ended(u)'
  BY <1>5, <1>6, <1>9, <1>12 DEF Ended
<1> QED BY <1>8, <1>13, <1>14, <1>15, <1>16 DEF SafeStep

LEMMA RefreshRotatesKeeps ==
  ASSUME IInv, NEW r \in Requests, RefreshRotates(r)
  PROVE  SafeStep
<1> USE DEF IInv
<1> DEFINE t == req[r].old
           f == req[r].session
           S == {f}
           rev == [token[t] EXCEPT !.state = "revoked"]
           x == [at |-> "account", owner |-> req[r].owner, session |-> f,
                 device |-> req[r].device, signIn |-> FALSE]
<1>1. req[r] \in RefreshRequest /\ req[r].at = "rotate"
  BY RequestKinds DEF TypeOK, RefreshRotates
<1>2. f \in SessionIds /\ S \in SUBSET SessionIds /\ t \in Tokens
      /\ req[r].owner \in Principals
  BY <1>1 DEF RefreshRequest
<1>3. t \in Issued /\ token[t].family = f
  BY <1>1 DEF KnownSessions
<1>4. /\ account' = account /\ device' = device /\ history' = history /\ cached' = cached
  BY DEF RefreshRotates
<1>5. CASE token[t].state = "revoked"
  <2>1. Goes(r, End(req[r].owner, S)) /\ UNCHANGED <<tables, cached>>
    BY <1>4, <1>5 DEF RefreshRotates, tables
  <2> HIDE DEF S
  <2>2. CalmStep BY <1>2, <2>1, EndIsRequest, OnlyMoves
  <2> QED BY <2>2, CalmIsSafe
<1>6. CASE token[t].state # "revoked"
  <2>1. token' = [token EXCEPT ![t].state = "revoked"] /\ Goes(r, x)
    BY <1>6 DEF RefreshRotates, Successor
  <2>2. rev \in TokenRow /\ rev # NoRow /\ rev.family = f /\ rev.state = "revoked"
    <3>1. rev.state = "revoked" BY <1>3, TokenFields DEF TokenRow
    <3> QED BY <3>1, <1>3, TokenFields, RowsApart
  <2>3. token' = [token EXCEPT ![t] = rev] BY <2>1
  <2>4. x \in IssueRequest /\ x.at = "account" /\ x.session = f
    BY <1>1 DEF RefreshRequest, IssueRequest
  <2>5. x \in Request BY <2>4 DEF Request
  <2> HIDE DEF x, rev, S
  <2>6. /\ req' \in [Requests -> Request] /\ req'[r] = x
        /\ \A q \in Requests : q # r => req'[q] = req[q]
    BY <2>1, <2>5, GoesType
  <2>7. token' \in [Tokens -> TokenRow \cup {NoRow}] BY <2>2, <2>3 DEF TypeOK
  <2>8. TypeOK' BY <1>4, <2>6, <2>7 DEF TypeOK
  <2>9. /\ Issued' = Issued /\ \A u \in Issued : token'[u].family = token[u].family
        /\ \A u \in Tokens : u # t => token'[u] = token[u]
        /\ token'[t] = rev
    BY <1>2, <1>3, <2>2, <2>3 DEF Issued, TypeOK
  <2>10. ASSUME NEW s \in SessionIds
         PROVE  Unrevoked(s)' = Unrevoked(s) \ {t}
    BY <2>2, <2>9 DEF Unrevoked, TokensOf, Issued
  <2>11. t \in Unrevoked(f) BY <1>3, <1>6 DEF Unrevoked, TokensOf
  <2>12. ASSUME NEW s \in SessionIds, s = f
         PROVE  Unrevoked(s)' = {}
    BY <2>10, <2>11, <2>12 DEF OneUsableToken
  <2>13. \A q \in Requests : ~Holds(q, f) BY <1>2, <2>11 DEF OneSuccessor
  <2>14. \A u \in SessionIds, q \in Requests :
           Holds(q, u)' => Holds(q, u) \/ (q = r /\ u = f)
    BY <2>4, <2>6 DEF Holds
  <2>15. Begun' = Begun /\ f \in Begun
    BY <1>3, <1>4 DEF Begun, KnownSessions
  <2>16. KnownSessions'
    <3>1. \A u \in Issued' : token'[u].family \in Begun'
      BY <2>9, <2>15 DEF KnownSessions
    <3>2. ASSUME NEW q \in Requests
          PROVE  /\ req'[q].at \in {"account", "issue"} => req'[q].session \in Begun'
                 /\ req'[q].at \in {"device", "rotate"}
                      => /\ req'[q].old \in Issued'
                         /\ token'[req'[q].old].family = req'[q].session
      BY <2>4, <2>6, <2>9, <2>15 DEF KnownSessions
    <3> QED BY <3>1, <3>2 DEF KnownSessions
  <2>17. OneUsableToken' BY <2>10 DEF OneUsableToken
  <2>18. OneSuccessor'
    BY <2>10, <2>12, <2>13, <2>14 DEF OneSuccessor
  <2>19. \A u \in SessionIds : Ended(u) => Ended(u)'
    BY <2>10, <2>11, <2>14, <2>15 DEF Ended
  <2> QED BY <2>8, <2>16, <2>17, <2>18, <2>19 DEF SafeStep
<1> QED BY <1>5, <1>6

LEMMA IssueTokenKeeps ==
  ASSUME IInv, NEW r \in Requests, NEW t \in Tokens, IssueToken(r, t)
  PROVE  SafeStep
<1> USE DEF IInv
<1> DEFINE f == req[r].session
           row == [owner |-> req[r].owner, family |-> f,
                   device |-> req[r].device, state |-> "usable"]
           y == [req[r] EXCEPT !.at = "upsert"]
<1>1. req[r] \in IssueRequest /\ req[r].at = "issue"
  BY RequestKinds DEF TypeOK, IssueToken
<1>2. f \in SessionIds /\ y \in IssueRequest /\ y.at = "upsert"
      /\ row \in TokenRow /\ row.family = f /\ row.state = "usable"
  BY <1>1 DEF IssueRequest, TokenRow, TokenState
<1>3. y \in Request /\ row # NoRow BY <1>2, RowsApart DEF Request
<1>4. /\ token' = [token EXCEPT ![t] = row] /\ Issued = 1..(t - 1)
      /\ account' = account /\ device' = device /\ history' = history /\ cached' = cached
      /\ Goes(r, Idle) \/ Goes(r, y)
  BY DEF IssueToken, Answers
<1> HIDE DEF row
<1>5. PICK x \in {Idle, y} : Goes(r, x) BY <1>4
<1>6. x \in Request /\ x.at \in {"idle", "upsert"} BY <1>2, <1>3, <1>5, IdleIsRequest
<1> HIDE DEF y
<1>7. /\ req' \in [Requests -> Request] /\ req'[r] = x
      /\ \A q \in Requests : q # r => req'[q] = req[q]
  BY <1>5, <1>6, GoesType
<1>8. TypeOK'
  <2>1. token' \in [Tokens -> TokenRow \cup {NoRow}] BY <1>2, <1>4 DEF TypeOK
  <2> QED BY <2>1, <1>4, <1>7 DEF TypeOK
<1>9. t \notin Issued BY <1>4 DEF Tokens
<1>10. /\ Issued' = Issued \cup {t} /\ token'[t] = row
       /\ \A u \in Issued : token'[u] = token[u]
  BY <1>3, <1>4, <1>9 DEF Issued, TypeOK
<1>11. ASSUME NEW s \in SessionIds
       PROVE  Unrevoked(s)' = IF s = f THEN Unrevoked(s) \cup {t} ELSE Unrevoked(s)
  BY <1>2, <1>9, <1>10 DEF Unrevoked, TokensOf
<1>12. Holds(r, f) BY <1>1 DEF Holds
<1>13. Unrevoked(f) = {} /\ \A q \in Requests : Holds(q, f) => q = r
  BY <1>2, <1>12 DEF OneSuccessor
<1>14. \A u \in SessionIds, q \in Requests : Holds(q, u)' => Holds(q, u) /\ q # r
  BY <1>6, <1>7 DEF Holds
<1>15. Begun' = Begun /\ f \in Begun BY <1>1, <1>4 DEF Begun, KnownSessions
<1>16. KnownSessions'
  <2>1. \A u \in Issued' : token'[u].family \in Begun'
    BY <1>2, <1>10, <1>15 DEF KnownSessions
  <2>2. ASSUME NEW q \in Requests
        PROVE  /\ req'[q].at \in {"account", "issue"} => req'[q].session \in Begun'
               /\ req'[q].at \in {"device", "rotate"}
                    => /\ req'[q].old \in Issued'
                       /\ token'[req'[q].old].family = req'[q].session
    BY <1>6, <1>7, <1>10, <1>15 DEF KnownSessions
  <2> QED BY <2>1, <2>2 DEF KnownSessions
<1>17. OneUsableToken' BY <1>11, <1>13 DEF OneUsableToken
<1>18. OneSuccessor' BY <1>11, <1>13, <1>14 DEF OneSuccessor
<1>19. \A u \in SessionIds : Ended(u) => Ended(u)'
  BY <1>11, <1>12, <1>14, <1>15 DEF Ended
<1> QED BY <1>8, <1>16, <1>17, <1>18, <1>19 DEF SafeStep

-----------------------------------------------------------------------------
(* The theorems.                                                           *)

LEMMA NextKeeps ==
  ASSUME IInv, [Next]_vars
  PROVE  SafeStep
<1>1. ASSUME NEW r \in Requests, Step(r)
      PROVE  SafeStep
  BY <1>1, EndListsKeeps, EndRevokesKeeps, EndForgetsKeeps, LoginClosesRowsKeeps,
     LoginOpensRowKeeps, IssueTokenKeeps, UpsertKeeps, RefreshChecksDeviceKeeps,
     RefreshRotatesKeeps, RefreshChecksAccountKeeps, CheckKeeps, CalmIsSafe DEF Step
<1>2. ASSUME NEW r \in Requests, Arrives(r)
      PROVE  SafeStep
  BY <1>2, SignOutsKeep, LoginKeeps, RefreshKeeps, CheckKeeps, CalmIsSafe DEF Arrives
<1>3. CASE \E s \in SessionIds : MarkerExpires(s)
  BY <1>3, MarkerExpiresKeeps, CalmIsSafe
<1>4. CASE \E p \in Principals :
             RemoveUser(p) \/ \E standing \in Standing : SetStanding(p, standing)
  BY <1>4, AccountsKeep, CalmIsSafe
<1>5. CASE \E t \in Tokens : TokenExpires(t)
  BY <1>5, TokenExpiresKeeps, CalmIsSafe
<1>6. CASE Crash BY <1>6, CrashKeeps, CalmIsSafe
<1>7. CASE UNCHANGED vars BY <1>7, StutterKeeps, CalmIsSafe
<1> QED BY <1>1, <1>2, <1>3, <1>4, <1>5, <1>6, <1>7 DEF Next

LEMMA InitIsSafe == Init => IInv
<1> SUFFICES ASSUME Init PROVE IInv OBVIOUS
<1>1. Issued = {} BY DEF Init, Issued
<1>2. \A r \in Requests : req[r] = Idle /\ req[r].at = "idle"
  BY IdleIsRequest DEF Init
<1>3. TypeOK BY IdleIsRequest DEF Init, TypeOK, Standing
<1>4. OneUsableToken BY <1>1 DEF OneUsableToken, Unrevoked, TokensOf
<1>5. OneSuccessor BY <1>2 DEF OneSuccessor, Holds
<1>6. KnownSessions BY <1>1, <1>2 DEF KnownSessions
<1> QED BY <1>3, <1>4, <1>5, <1>6 DEF IInv

\* The inductive invariant: types, one token and one successor per session, and
\* no token or request of a session that has not begun.
THEOREM InductiveInvariant == Spec => []IInv
<1>1. IInv /\ [Next]_vars => IInv' BY NextKeeps DEF SafeStep
<1> QED BY <1>1, InitIsSafe, PTL DEF Spec

\* However many refreshes, replays and sign-outs of a session run at a time, one
\* of its tokens at most is accepted by the next refresh.
THEOREM OneUsableTokenHolds == Spec => []OneUsableToken
<1>1. IInv => OneUsableToken BY DEF IInv
<1> QED BY <1>1, InductiveInvariant, PTL

\* A session that has ended never has a token again: no retry, replay or late
\* answer of a refresh revives it.
THEOREM EndedStaysEndedHolds == Spec => EndedStaysEnded
<1>1. IInv /\ [Next]_vars => [\A s \in SessionIds : Ended(s) => Ended(s)']_vars
  BY NextKeeps DEF SafeStep
<1> QED BY <1>1, InductiveInvariant, PTL DEF Spec, EndedStaysEnded

-----------------------------------------------------------------------------
(* Permissions: what a role owns, and where it is named.                    *)

\* What a role owns, by a policy that is attached to it or by an inline policy.
LEMMA OwnedIs ==
  ASSUME NEW d, NEW r, NEW c
  PROVE  c \in Owned(d, r) <=>
           \/ \E p \in Policies : <<r, p>> \in d.attached /\ Live(d, p) /\ c \in d.policy[p].codes
           \/ \E i \in Inlines : d.inline[i].live /\ InlineOf[i] = r /\ c \in d.inline[i].codes
<1> DEFINE A == UNION {d.policy[p].codes : p \in {x \in Attached(d, r) : Live(d, x)}}
           B == UNION {d.inline[i].codes : i \in {x \in Inlines : d.inline[x].live /\ InlineOf[x] = r}}
<1>1. c \in A <=>
        \E p \in Policies : <<r, p>> \in d.attached /\ Live(d, p) /\ c \in d.policy[p].codes
  BY DEF Attached
<1>2. c \in B <=>
        \E i \in Inlines : d.inline[i].live /\ InlineOf[i] = r /\ c \in d.inline[i].codes
  OBVIOUS
<1>3. Owned(d, r) = A \cup B
  BY DEF Owned
<1> HIDE DEF A, B
<1> QED  BY <1>1, <1>2, <1>3

\* A role that can approve.
LEMMA EligibleIs ==
  ASSUME NEW d, NEW t, NEW r
  PROVE  r \in Eligible(d, t) <=>
           r \in Roles /\ r # SuperAdmin /\ \E c \in Owned(d, r) : c \in ApproveCodes[t]
BY DEF Eligible

\* An ACTIVE definition has a type and names roles.
LEMMA ActiveIs ==
  ASSUME NEW y \in Definition, y.active
  PROVE  y.type \in Types /\ y.roles \subseteq Roles /\ y \in [active: {TRUE}, type: Types, roles: SUBSET Roles]
<1>1. CASE y = NoDefinition
  BY <1>1 DEF NoDefinition
<1>2. CASE y \in [active: {TRUE}, type: Types, roles: SUBSET Roles]
  BY <1>2
<1> QED  BY <1>1, <1>2 DEF Definition

\* What a role can do, and where it is named, is in two databases the same: it is
\* named in no more of them.
Same(d, e, r) ==
  /\ \A p \in Policies : <<r, p>> \in e.attached <=> <<r, p>> \in d.attached
  /\ \A p \in Policies : <<r, p>> \in d.attached => e.policy[p] = d.policy[p]
  /\ \A i \in Inlines : InlineOf[i] = r => e.inline[i] = d.inline[i]
  /\ \A x \in Definitions : e.definition[x].active /\ r \in e.definition[x].roles
                              => e.definition[x] = d.definition[x]

LEMMA SameOwned ==
  ASSUME NEW d, NEW e, NEW r, Same(d, e, r)
  PROVE  Owned(e, r) = Owned(d, r)
<1>1. ASSUME NEW c PROVE c \in Owned(e, r) <=> c \in Owned(d, r)
  BY OwnedIs DEF Same, Live
<1> QED  BY <1>1

LEMMA SameEligible ==
  ASSUME NEW d, NEW e, NEW r, NEW t, Same(d, e, r)
  PROVE  r \in Eligible(e, t) <=> r \in Eligible(d, t)
BY SameOwned, EligibleIs

LEMMA SameDecides ==
  ASSUME NEW d, NEW e, NEW r, Same(d, e, r), Decides(d, r)
  PROVE  Decides(e, r)
BY SameEligible DEF Decides, Same

\* A role that owns no less, and that no more levels name, can still approve.
LEMMA MoreDecides ==
  ASSUME NEW d, NEW e, NEW r, Decides(d, r), Owned(d, r) \subseteq Owned(e, r),
         \A x \in Definitions : e.definition[x].active /\ r \in e.definition[x].roles
                                  => e.definition[x] = d.definition[x]
  PROVE  Decides(e, r)
BY EligibleIs DEF Decides

\* assertApproverEligibilityKept does what it is for: if only the removed codes may
\* have gone from the role, it can still approve.
LEMMA KeptDecides ==
  ASSUME NEW d, NEW e, NEW rs, NEW r \in rs, NEW removed,
         Decides(d, r), e.definition = d.definition,
         d.definition \in [Definitions -> Definition],
         Owned(d, r) \ removed \subseteq Owned(e, r),
         EligibilityKept(e, rs, removed)
  PROVE  Decides(e, r)
<1> SUFFICES ASSUME NEW x \in Definitions, d.definition[x].active, r \in d.definition[x].roles
             PROVE  r \in Eligible(e, d.definition[x].type)
  BY DEF Decides
<1> DEFINE t == d.definition[x].type
<1>1. t \in Types
  BY ActiveIs
<1>2. r \in Eligible(d, t)
  BY DEF Decides
<1>3. PICK c \in Owned(d, r) : c \in ApproveCodes[t]
  BY <1>2, EligibleIs
<1>4. CASE c \in Owned(e, r)
  BY <1>2, <1>3, <1>4, EligibleIs
<1>5. CASE c \in removed
  <2>1. ApproveCodes[t] \cap removed # {}
    BY <1>3, <1>5
  <2>2. x \in ActiveFor(e, t)
    BY DEF ActiveFor
  <2>3. (e.definition[x].roles \cap rs) \ {SuperAdmin} \subseteq Eligible(e, t)
    BY <1>1, <2>1, <2>2 DEF EligibilityKept
  <2> QED  BY <1>2, <2>3, EligibleIs
<1> QED  BY <1>3, <1>4, <1>5

-----------------------------------------------------------------------------
\* What the writes of the requests leave of the tables.
LEMMA EditedIs ==
  ASSUME NEW d \in Database, NEW p \in Policies, NEW codes, NEW state
  PROVE  /\ Edited(d, p, codes, state).attached = d.attached
         /\ Edited(d, p, codes, state).inline = d.inline
         /\ Edited(d, p, codes, state).definition = d.definition
         /\ Edited(d, p, codes, state).policy[p].codes = codes
         /\ Edited(d, p, codes, state).policy[p].state = state
         /\ \A o \in Policies \ {p} : Edited(d, p, codes, state).policy[o] = d.policy[o]
BY DEF Edited, Database, PolicyRow

LEMMA EditedType ==
  ASSUME NEW d \in Database, NEW p \in Policies, NEW codes \in SUBSET Codes,
         NEW state \in {"none", "live", "deleted"}
  PROVE  Edited(d, p, codes, state) \in Database
<1> DEFINE row == [d.policy[p] EXCEPT !.codes = codes, !.state = state]
<1>1. row \in PolicyRow
  BY DEF Database, PolicyRow
<1>2. Edited(d, p, codes, state) = [d EXCEPT !.policy = [d.policy EXCEPT ![p] = row]]
  BY DEF Edited, Database, PolicyRow
<1> HIDE DEF row
<1> QED  BY <1>1, <1>2 DEF Database

LEMMA DetachedIs ==
  ASSUME NEW d \in Database, NEW c
  PROVE  /\ Detached(d, c).policy = d.policy
         /\ Detached(d, c).inline = d.inline
         /\ Detached(d, c).definition = d.definition
         /\ \A r, p : <<r, p>> \in Detached(d, c).attached <=>
              /\ <<r, p>> \in d.attached
              /\ c.lost \/ <<r, p>> # <<c.role, c.policy>>
BY DEF Detached, Database

LEMMA InlinedIs ==
  ASSUME NEW d \in Database, NEW i \in Inlines, NEW live, NEW codes
  PROVE  /\ Inlined(d, i, live, codes).policy = d.policy
         /\ Inlined(d, i, live, codes).attached = d.attached
         /\ Inlined(d, i, live, codes).definition = d.definition
         /\ Inlined(d, i, live, codes).inline[i] = [live |-> live, codes |-> codes]
         /\ \A o \in Inlines \ {i} : Inlined(d, i, live, codes).inline[o] = d.inline[o]
BY DEF Inlined, Database

\* The change from d to e concerns the things ts alone.
Frame(d, e, ts) ==
  /\ \A r \in Roles \ ts : Same(d, e, r)
  /\ \A p \in Policies \ ts : e.policy[p] = d.policy[p] /\ Holders(e, p) = Holders(d, p)
  /\ \A t \in Types \ ts : ActiveFor(e, t) \subseteq ActiveFor(d, t)
  /\ \A p \in Policies : d.policy[p].state # "none" => e.policy[p].state # "none"

\* A request in flight when another commits.
After(c, e, ts) == [c EXCEPT !.since = @ \cup ts, !.lost = @ \/ Gone(c, e)]

LEMMA AfterIs ==
  ASSUME NEW c \in Call, NEW e, NEW ts
  PROVE  /\ After(c, e, ts).op = c.op /\ After(c, e, ts).at = c.at
         /\ After(c, e, ts).role = c.role /\ After(c, e, ts).policy = c.policy
         /\ After(c, e, ts).inline = c.inline /\ After(c, e, ts).type = c.type
         /\ After(c, e, ts).codes = c.codes /\ After(c, e, ts).roles = c.roles
         /\ After(c, e, ts).old = c.old /\ After(c, e, ts).revives = c.revives
         /\ After(c, e, ts).previous = c.previous
         /\ After(c, e, ts).since = c.since \cup ts
         /\ After(c, e, ts).lost = (c.lost \/ Gone(c, e))
BY DEF After, Call

LEMMA AfterType ==
  ASSUME NEW c \in Call, NEW e, NEW ts \in SUBSET Things
  PROVE  After(c, e, ts) \in Call
BY DEF After, Call, Gone

LEMMA UntouchedAfter ==
  ASSUME NEW c \in Call, NEW e, NEW ts, NEW s, NEW z, s \subseteq z, NEW th,
         Untouched(z, After(c, e, ts), th)
  PROVE  Untouched(s, c, th) /\ th \notin ts
BY AfterIs DEF Untouched

LEMMA SameInlined ==
  ASSUME NEW d \in Database, NEW e \in Database, NEW r, Same(d, e, r),
         NEW i \in Inlines, NEW live, NEW codes
  PROVE  Same(Inlined(d, i, live, codes), Inlined(e, i, live, codes), r)
<1> DEFINE D == Inlined(d, i, live, codes)  E == Inlined(e, i, live, codes)
<1>1. /\ D.attached = d.attached /\ D.policy = d.policy /\ D.definition = d.definition
      /\ D.inline[i] = [live |-> live, codes |-> codes]
      /\ \A o \in Inlines \ {i} : D.inline[o] = d.inline[o]
  BY InlinedIs
<1>2. /\ E.attached = e.attached /\ E.policy = e.policy /\ E.definition = e.definition
      /\ E.inline[i] = [live |-> live, codes |-> codes]
      /\ \A o \in Inlines \ {i} : E.inline[o] = e.inline[o]
  BY InlinedIs
<1> SUFFICES Same(D, E, r)
  OBVIOUS
<1> HIDE DEF D, E
<1> QED  BY <1>1, <1>2 DEF Same

\* A check still stands after a commit of another request.
LEMMA StandsKept ==
  ASSUME NEW d \in Database, NEW e \in Database, NEW s, NEW z, s \subseteq z, NEW ts,
         Frame(d, e, ts), NEW c \in Call, Stands(d, s, c)
  PROVE  Stands(e, z, After(c, e, ts))
<1> DEFINE a == After(c, e, ts)
<1>0. /\ c.role \in Roles /\ c.policy \in Policies /\ c.inline \in Inlines /\ c.type \in Types
      /\ InlineOf[c.inline] \in Roles /\ c.roles \subseteq Roles
  BY PermissionsAssumption DEF Call
<1>a. /\ a.op = c.op /\ a.at = c.at /\ a.role = c.role /\ a.policy = c.policy
      /\ a.inline = c.inline /\ a.type = c.type /\ a.codes = c.codes /\ a.roles = c.roles
      /\ a.old = c.old /\ a.revives = c.revives /\ a.previous = c.previous
      /\ a.lost = (c.lost \/ Gone(c, e))
  BY AfterIs
<1>b. ASSUME NEW th, Untouched(z, a, th)
      PROVE  Untouched(s, c, th) /\ th \notin ts
  BY <1>b, UntouchedAfter
<1>c. \A r \in Roles \ ts : Same(d, e, r)
  BY DEF Frame
<1> SUFFICES Stands(e, z, a)
  OBVIOUS
<1> HIDE DEF a
<1>1. CASE c.op = "attach"
  <2>1. AttachStands(e, z, a)
    <3>0. e.policy[c.policy].state # "none"
      BY <1>0, <1>1 DEF Stands, AttachStands, Frame
    <3> SUFFICES ASSUME Untouched(z, a, c.policy) PROVE Sound(e, c.role, c.policy)
      BY <1>a, <3>0 DEF AttachStands
    <3>1. Sound(d, c.role, c.policy)
      BY <1>1, <1>b DEF Stands, AttachStands
    <3>2. e.policy[c.policy] = d.policy[c.policy]
      BY <1>0, <1>b DEF Frame
    <3> QED  BY <3>1, <3>2 DEF Sound, Live, CleanRows
  <2> QED  BY <1>1, <1>a, <2>1 DEF Stands
<1>2. CASE c.op = "detach"
  <2>1. c.role # SuperAdmin
    BY <1>2 DEF Stands, DetachStands
  <2> SUFFICES ASSUME Untouched(z, a, c.role)
               PROVE  /\ <<c.role, c.policy>> \in e.attached
                      /\ c.at = "loaded"  => e.policy[c.policy].codes = c.old
                      /\ c.at = "checked" => Decides(Detached(e, a), c.role)
    BY <1>2, <1>a, <2>1 DEF Stands, DetachStands
  <2>2. /\ <<c.role, c.policy>> \in d.attached
        /\ c.at = "loaded"  => d.policy[c.policy].codes = c.old
        /\ c.at = "checked" => Decides(Detached(d, c), c.role)
    BY <1>2, <1>b DEF Stands, DetachStands
  <2>3. Same(d, e, c.role)
    BY <1>0, <1>b, <1>c
  <2>4. <<c.role, c.policy>> \in e.attached /\ e.policy[c.policy] = d.policy[c.policy]
    BY <1>0, <2>2, <2>3 DEF Same
  <2>5. a.lost = c.lost
    BY <1>2, <1>a, <2>4 DEF Gone, Call
  <2>6. Same(Detached(d, c), Detached(e, a), c.role)
    <3> DEFINE D == Detached(d, c)  E == Detached(e, a)
    <3>1. /\ D.policy = d.policy /\ D.inline = d.inline /\ D.definition = d.definition
          /\ E.policy = e.policy /\ E.inline = e.inline /\ E.definition = e.definition
      BY DetachedIs
    <3>2. \A p \in Policies : <<c.role, p>> \in D.attached <=>
            <<c.role, p>> \in d.attached /\ (c.lost \/ p # c.policy)
      BY DetachedIs
    <3>a. \A r, p : <<r, p>> \in E.attached <=>
            <<r, p>> \in e.attached /\ (a.lost \/ <<r, p>> # <<a.role, a.policy>>)
      BY DetachedIs
    <3>3. \A p \in Policies : <<c.role, p>> \in E.attached <=>
            <<c.role, p>> \in e.attached /\ (c.lost \/ p # c.policy)
      <4> HIDE DEF E
      <4> QED  BY <1>a, <2>5, <3>a
    <3> SUFFICES Same(D, E, c.role)
      OBVIOUS
    <3> HIDE DEF D, E
    <3> QED  BY <2>3, <3>1, <3>2, <3>3 DEF Same
  <2> QED  BY <2>2, <2>4, <2>6, SameDecides
<1>3. CASE c.op = "edit"
  <2> DEFINE p == c.policy
  <2>1. Untouched(z, a, p) => NoApprovalFor(Holders(e, p), c.codes)
    BY <1>0, <1>3, <1>b DEF Stands, EditStands, Frame
  <2>2. ASSUME NEW r \in Holders(e, p), Untouched(z, a, r)
        PROVE  /\ c.at = "loaded"  => e.policy[p].codes = c.old
               /\ c.at = "checked" => Decides(Edited(e, p, c.codes, "live"), r)
               /\ c.at = "checked" => c.revives \/ Live(e, p)
    <3>1. r \in Roles /\ Same(d, e, r) /\ Untouched(s, c, r)
      BY <1>b, <1>c, <2>2 DEF Holders
    <3>2. r \in Holders(d, p) /\ e.policy[p] = d.policy[p]
      BY <1>0, <2>2, <3>1 DEF Same, Holders
    <3>3. /\ c.at = "loaded"  => d.policy[p].codes = c.old
          /\ c.at = "checked" => Decides(Edited(d, p, c.codes, "live"), r)
          /\ c.at = "checked" => c.revives \/ Live(d, p)
      BY <1>3, <3>1, <3>2 DEF Stands, EditStands
    <3>4. Same(Edited(d, p, c.codes, "live"), Edited(e, p, c.codes, "live"), r)
      <4> DEFINE D == Edited(d, p, c.codes, "live")  E == Edited(e, p, c.codes, "live")
      <4>1. /\ D.attached = d.attached /\ D.inline = d.inline /\ D.definition = d.definition
            /\ E.attached = e.attached /\ E.inline = e.inline /\ E.definition = e.definition
        BY <1>0, EditedIs
      <4>2. E.policy[p] = D.policy[p]
        BY <1>0, <3>2 DEF Edited, Database, PolicyRow
      <4>3. \A o \in Policies \ {p} : E.policy[o] = e.policy[o] /\ D.policy[o] = d.policy[o]
        BY <1>0, EditedIs
      <4> SUFFICES Same(D, E, r)
        OBVIOUS
      <4> HIDE DEF D, E
      <4> QED  BY <3>1, <4>1, <4>2, <4>3 DEF Same
    <3> QED  BY <3>2, <3>3, <3>4, SameDecides DEF Live
  <2> QED  BY <1>3, <1>a, <2>1, <2>2 DEF Stands, EditStands
<1>4. CASE c.op = "remove"
  <2>1. Untouched(z, a, c.policy) => Holders(e, c.policy) = {}
    BY <1>0, <1>4, <1>b DEF Stands, RemoveStands, Frame
  <2>2. ASSUME NEW r \in Holders(e, c.policy), Untouched(z, a, r) PROVE FALSE
    <3>1. r \in Roles /\ Same(d, e, r) /\ Untouched(s, c, r)
      BY <1>b, <1>c, <2>2 DEF Holders
    <3>2. r \in Holders(d, c.policy)
      BY <1>0, <2>2, <3>1 DEF Same, Holders
    <3> QED  BY <1>4, <3>1, <3>2 DEF Stands, RemoveStands
  <2> QED  BY <1>4, <1>a, <2>1, <2>2 DEF Stands, RemoveStands
<1>5. CASE c.op = "editInline"
  <2> DEFINE i == c.inline  r == InlineOf[i]
  <2> SUFFICES ASSUME Untouched(z, a, r)
               PROVE  /\ e.inline[i].live
                      /\ c.at = "loaded"  => e.inline[i].codes = c.old
                      /\ c.at = "checked" => Decides(Inlined(e, i, TRUE, c.codes), r)
    BY <1>5, <1>a DEF Stands, EditInlineStands
  <2>1. Same(d, e, r) /\ Untouched(s, c, r)
    BY <1>0, <1>b, <1>c
  <2>2. /\ d.inline[i].live
        /\ c.at = "loaded"  => d.inline[i].codes = c.old
        /\ c.at = "checked" => Decides(Inlined(d, i, TRUE, c.codes), r)
    BY <1>5, <2>1 DEF Stands, EditInlineStands
  <2>3. e.inline[i] = d.inline[i]
    BY <1>0, <2>1 DEF Same
  <2>4. Same(Inlined(d, i, TRUE, c.codes), Inlined(e, i, TRUE, c.codes), r)
    BY <1>0, <2>1, SameInlined
  <2> QED  BY <2>2, <2>3, <2>4, SameDecides
<1>6. CASE c.op = "removeInline"
  <2> DEFINE i == c.inline  r == InlineOf[i]
  <2> SUFFICES ASSUME Untouched(z, a, r) PROVE Decides(Inlined(e, i, FALSE, {}), r)
    BY <1>6, <1>a DEF Stands, RemoveInlineStands
  <2>1. Same(d, e, r) /\ Untouched(s, c, r)
    BY <1>0, <1>b, <1>c
  <2>2. Decides(Inlined(d, i, FALSE, {}), r)
    BY <1>6, <2>1 DEF Stands, RemoveInlineStands
  <2>3. Same(Inlined(d, i, FALSE, {}), Inlined(e, i, FALSE, {}), r)
    BY <1>0, <2>1, SameInlined
  <2> QED  BY <2>2, <2>3, SameDecides
<1>7. CASE c.op = "publish"
  <2>1. \A r \in c.roles : Untouched(z, a, r) => r \in Eligible(e, c.type)
    BY <1>0, <1>7, <1>b, <1>c, SameEligible DEF Stands, PublishStands
  <2>2. c.at = "checked" /\ Untouched(z, a, c.type) => ActiveFor(e, c.type) \subseteq c.previous
    BY <1>0, <1>7, <1>b DEF Stands, PublishStands, Frame
  <2> QED  BY <1>7, <1>a, <2>1, <2>2 DEF Stands, PublishStands
<1> QED  BY <1>1, <1>2, <1>3, <1>4, <1>5, <1>6, <1>7 DEF Call, Ops

-----------------------------------------------------------------------------
LEMMA InFlight ==
  /\ \A c \in Call : c \notin {New, Answered}
  /\ New # Answered
<1>1. ASSUME NEW c \in Call PROVE c.at # "new" /\ c.at # "ended"
  BY DEF Call
<1>2. New.at = "new" /\ Answered.at = "ended"
  BY DEF New, Answered
<1> QED  BY <1>1, <1>2

\* A request reads, checks, or ends without a change.
LEMMA LoadStep ==
  ASSUME PermissionsInv, NEW q \in Changes, NEW c \in {Answered} \cup Call, Load(q, c),
         c \in Call => process.at = "up" /\ Stands(db, suspect, c)
  PROVE  PermissionsInv'
<1>1. /\ call' = [call EXCEPT ![q] = c]
      /\ db' = db /\ process' = process /\ suspect' = suspect
  BY DEF Load
<1>2. PermissionsTypeOK'
  BY <1>1 DEF PermissionsInv, PermissionsTypeOK
<1>3. ForeignKey' /\ Decidable' /\ Unambiguous' /\ AttachedSound' /\ StartHalfway'
  BY <1>1 DEF PermissionsInv, ForeignKey, Decidable, Unambiguous, AttachedSound, StartHalfway
<1>4. \A o \in Changes : call'[o] = IF o = q THEN c ELSE call[o]
  BY <1>1 DEF PermissionsInv, PermissionsTypeOK
<1>5. Settled'
  BY <1>1, <1>4 DEF PermissionsInv, Settled
<1>6. AllStand'
  BY <1>1, <1>4 DEF PermissionsInv, AllStand
<1> QED  BY <1>2, <1>3, <1>5, <1>6 DEF PermissionsInv

\* A request commits: it must leave alone what it does not name, and nobody else may
\* have touched what it names, unless that is right all the same.
LEMMA CommitStep ==
  ASSUME PermissionsInv, NEW q \in Changes, process.at = "up",
         NEW new \in Database, NEW ts \in SUBSET Things, NEW since,
         Commit(q, new, ts, since), Frame(db, new, ts),
         \A a \in new.attached : new.policy[a[2]].state # "none",
         \A r \in Roles \cap ts : r \in suspect \cup since \/ Decides(new, r),
         \A t \in Types \cap ts : t \in suspect \cup since
                                   \/ \A x, y \in ActiveFor(new, t) : x = y,
         \A p \in Policies \cap ts : p \in suspect \cup since
                                   \/ \A r \in Roles : p \in Attached(new, r) => Sound(new, r, p)
  PROVE  PermissionsInv'
<1>1. /\ db' = new /\ process' = process /\ suspect' = suspect \cup (ts \cap since)
      /\ call' = [x \in Changes |->
           IF x = q THEN Answered
           ELSE IF call[x] \in {New, Answered} THEN call[x] ELSE After(call[x], new, ts)]
  BY DEF Commit, After
<1>2. \A x \in Changes : call[x] \in {New, Answered} \cup Call
  BY DEF PermissionsInv, PermissionsTypeOK
<1>3. PermissionsTypeOK'
  <2>1. \A x \in Changes : call'[x] \in {New, Answered} \cup Call
    BY <1>1, <1>2, AfterType
  <2> QED  BY <1>1, <2>1 DEF PermissionsInv, PermissionsTypeOK
<1>4. ForeignKey' /\ Settled' /\ StartHalfway'
  BY <1>1 DEF ForeignKey, Settled, StartHalfway
<1>5. Decidable'
  <2> SUFFICES ASSUME NEW r \in Roles, r \notin suspect'
               PROVE  Decides(new, r)
    BY <1>1 DEF Decidable
  <2>1. CASE r \in ts
    BY <1>1, <2>1
  <2>2. CASE r \notin ts
    BY <1>1, <2>2, SameDecides DEF PermissionsInv, Decidable, Frame
  <2> QED  BY <2>1, <2>2
<1>6. Unambiguous'
  BY <1>1 DEF PermissionsInv, Unambiguous, Frame
<1>7. AttachedSound'
  <2> SUFFICES ASSUME NEW r \in Roles, NEW p \in Policies, <<r, p>> \in new.attached, p \notin suspect'
               PROVE  Sound(new, r, p)
    BY <1>1 DEF AttachedSound, Attached
  <2>1. CASE p \in ts
    BY <1>1, <2>1 DEF Attached
  <2>2. CASE p \notin ts
    <3>1. new.policy[p] = db.policy[p] /\ Holders(new, p) = Holders(db, p)
      BY <2>2 DEF Frame
    <3>2. p \in Attached(db, r) \ suspect
      BY <1>1, <3>1 DEF Holders, Attached
    <3>3. Sound(db, r, p)
      BY <3>2 DEF PermissionsInv, AttachedSound
    <3> QED  BY <3>1, <3>3 DEF Sound, Live, CleanRows
  <2> QED  BY <2>1, <2>2
<1>8. AllStand'
  <2> SUFFICES ASSUME NEW x \in Changes, call'[x] \notin {New, Answered}
               PROVE  Stands(new, suspect', call'[x])
    BY <1>1 DEF AllStand
  <2>1. call[x] \in Call /\ call'[x] = After(call[x], new, ts)
    BY <1>1, <1>2
  <2>2. Stands(db, suspect, call[x])
    BY <2>1, InFlight DEF PermissionsInv, AllStand
  <2>3. db \in Database /\ suspect \subseteq suspect'
    BY <1>1 DEF PermissionsInv, PermissionsTypeOK
  <2>4. Stands(new, suspect', After(call[x], new, ts))
    BY <2>1, <2>2, <2>3, StandsKept
  <2> QED  BY <2>1, <2>4
<1> QED  BY <1>3, <1>4, <1>5, <1>6, <1>7, <1>8 DEF PermissionsInv

-----------------------------------------------------------------------------
(* The steps of a request before its commit.                               *)

LEMMA BaseType == Base \in Call
<1>1. (CHOOSE i \in Inlines : TRUE) \in Inlines /\ (CHOOSE t \in Types : TRUE) \in Types
  BY PermissionsAssumption
<1> QED  BY <1>1, PermissionsAssumption DEF Base, Call, Ops

LEMMA CheckedIs ==
  ASSUME NEW c \in Call
  PROVE  LET k == [c EXCEPT !.at = "checked"] IN
         /\ k \in Call
         /\ k.op = c.op /\ k.at = "checked" /\ k.role = c.role /\ k.policy = c.policy
         /\ k.inline = c.inline /\ k.type = c.type /\ k.codes = c.codes /\ k.roles = c.roles
         /\ k.old = c.old /\ k.revives = c.revives /\ k.previous = c.previous
         /\ k.since = c.since /\ k.lost = c.lost
BY DEF Call

\* What a request that is not new or answered is.
LEMMA AtIs ==
  ASSUME PermissionsInv, NEW q \in Changes, NEW op, NEW at, At(q, op, at)
  PROVE  /\ call[q] \in Call /\ call[q].op = op /\ call[q].at = at
         /\ Stands(db, suspect, call[q]) /\ process.at = "up"
BY DEF At, PermissionsInv, PermissionsTypeOK, AllStand, Settled

LEMMA LoadAttachStep ==
  ASSUME PermissionsInv, NEW q \in Changes, NEW r \in Roles, NEW p \in Policies, LoadAttach(q, r, p)
  PROVE  PermissionsInv'
<1> DEFINE c == [Base EXCEPT !.op = "attach", !.at = "checked", !.role = r, !.policy = p]
<1>1. c \in Call /\ c.op = "attach" /\ c.role = r /\ c.policy = p
  BY BaseType DEF Call, Ops
<1>2. Load(q, c) /\ process.at = "up" /\ Live(db, p) /\ NoApprovalFor({r}, db.policy[p].codes)
  BY DEF LoadAttach, Up
<1> HIDE DEF c
<1>3. Stands(db, suspect, c)
  BY <1>1, <1>2 DEF Stands, AttachStands, Sound, Live, CleanRows, NoApprovalFor
<1> QED  BY <1>1, <1>2, <1>3, LoadStep

LEMMA LoadDetachStep ==
  ASSUME PermissionsInv, NEW q \in Changes, NEW r \in Roles, NEW p \in Policies, LoadDetach(q, r, p)
  PROVE  PermissionsInv'
<1> DEFINE c == [Base EXCEPT !.op = "detach", !.role = r, !.policy = p, !.old = db.policy[p].codes]
<1>0. db.policy[p].codes \subseteq Codes
  BY DEF PermissionsInv, PermissionsTypeOK, Database, PolicyRow
<1>1. /\ c \in Call /\ c.op = "detach" /\ c.at = "loaded" /\ c.role = r /\ c.policy = p
      /\ c.old = db.policy[p].codes
  <2>1. Base.at = "loaded"
    BY DEF Base
  <2> QED  BY <1>0, <2>1, BaseType DEF Call, Ops
<1>2. Load(q, c) /\ process.at = "up" /\ <<r, p>> \in db.attached /\ r # SuperAdmin
  BY DEF LoadDetach, Up
<1> HIDE DEF c
<1>3. Stands(db, suspect, c)
  BY <1>1, <1>2 DEF Stands, DetachStands
<1> QED  BY <1>1, <1>2, <1>3, LoadStep

LEMMA CheckDetachStep ==
  ASSUME PermissionsInv, NEW q \in Changes, CheckDetach(q)
  PROVE  PermissionsInv'
<1> DEFINE c == call[q]  k == [c EXCEPT !.at = "checked"]
<1>1. /\ c \in Call /\ c.op = "detach" /\ c.at = "loaded" /\ process.at = "up"
      /\ DetachStands(db, suspect, c) /\ db \in Database
  BY AtIs DEF CheckDetach, Stands, PermissionsInv, PermissionsTypeOK
<1>2. Load(q, k) /\ EligibilityKept(Detached(db, c), {c.role}, c.old)
  BY DEF CheckDetach
<1>3. /\ k \in Call /\ k.op = "detach" /\ k.at = "checked" /\ k.role = c.role
      /\ k.policy = c.policy /\ k.lost = c.lost /\ k.since = c.since /\ k.old = c.old
  BY <1>1, CheckedIs
<1>4. Detached(db, k) = Detached(db, c)
  BY <1>3 DEF Detached
<1> HIDE DEF c, k
<1>5. ASSUME Untouched(suspect, c, c.role)
      PROVE  Decides(Detached(db, c), c.role)
  <2> DEFINE r == c.role  p == c.policy  e == Detached(db, c)
  <2>1. r \in Roles /\ p \in Policies /\ <<r, p>> \in db.attached /\ db.policy[p].codes = c.old
    BY <1>1, <1>5 DEF Call, DetachStands
  <2>2. Decides(db, r)
    BY <1>5, <2>1 DEF PermissionsInv, Decidable, Untouched
  <2>3. /\ e.policy = db.policy /\ e.inline = db.inline /\ e.definition = db.definition
        /\ \A o \in Policies \ {p} : <<r, o>> \in db.attached => <<r, o>> \in e.attached
    BY <1>1, DetachedIs
  <2> HIDE DEF e
  <2>4. ASSUME NEW x \in Owned(db, r), x \notin c.old
        PROVE  x \in Owned(e, r)
    BY <2>1, <2>3, <2>4, OwnedIs DEF Live
  <2>5. EligibilityKept(e, {r}, c.old)
    BY <1>2 DEF e
  <2>6. db.definition \in [Definitions -> Definition]
    BY <1>1 DEF Database
  <2>7. Decides(e, r)
    BY <2>2, <2>3, <2>4, <2>5, <2>6, KeptDecides
  <2> QED  BY <2>7 DEF e
<1>6. Stands(db, suspect, k)
  BY <1>1, <1>3, <1>4, <1>5 DEF Stands, DetachStands, Untouched
<1> QED  BY <1>1, <1>2, <1>3, <1>6, LoadStep

LEMMA LoadEditStep ==
  ASSUME PermissionsInv, NEW q \in Changes, NEW p \in Policies, NEW codes \in Bodies,
         LoadEdit(q, p, codes)
  PROVE  PermissionsInv'
<1> DEFINE c == [Base EXCEPT !.op = "edit", !.policy = p, !.codes = codes,
                             !.old = db.policy[p].codes]
<1>0. db.policy[p].codes \subseteq Codes /\ codes \subseteq Codes /\ Base.at = "loaded"
  BY PermissionsAssumption DEF PermissionsInv, PermissionsTypeOK, Database, PolicyRow, Base
<1>1. /\ c \in Call /\ c.op = "edit" /\ c.at = "loaded" /\ c.policy = p /\ c.codes = codes
      /\ c.old = db.policy[p].codes
  BY <1>0, BaseType DEF Call, Ops
<1>2. Load(q, c) /\ process.at = "up" /\ NoApprovalFor(Holders(db, p), codes)
  BY DEF LoadEdit, Up
<1> HIDE DEF c
<1>3. Stands(db, suspect, c)
  BY <1>1, <1>2 DEF Stands, EditStands
<1> QED  BY <1>1, <1>2, <1>3, LoadStep

LEMMA CheckEditStep ==
  ASSUME PermissionsInv, NEW q \in Changes, CheckEdit(q)
  PROVE  PermissionsInv'
<1> DEFINE c == call[q]  p == c.policy
           k == [c EXCEPT !.at = "checked", !.revives = ~ Live(db, p)]
           e == Edited(db, p, c.codes, "live")
<1>1. /\ c \in Call /\ c.op = "edit" /\ c.at = "loaded" /\ process.at = "up" /\ p \in Policies
      /\ EditStands(db, suspect, c) /\ db \in Database
  BY AtIs DEF CheckEdit, Stands, PermissionsInv, PermissionsTypeOK, Call
<1>2. Load(q, k) /\ EligibilityKept(e, Holders(db, p), c.old \ c.codes)
  BY DEF CheckEdit
<1>3. /\ k \in Call /\ k.op = "edit" /\ k.at = "checked" /\ k.policy = p
      /\ k.codes = c.codes /\ k.since = c.since /\ k.revives = ~ Live(db, p)
  BY <1>1 DEF Call
<1>4. /\ e.attached = db.attached /\ e.inline = db.inline /\ e.definition = db.definition
      /\ e.policy[p].codes = c.codes /\ e.policy[p].state = "live"
      /\ \A o \in Policies \ {p} : e.policy[o] = db.policy[o]
  BY <1>1, EditedIs
<1>e. e = Edited(db, p, c.codes, "live")
  OBVIOUS
<1> HIDE DEF k, e
<1>5. ASSUME NEW r \in Holders(db, p), Untouched(suspect, c, r)
      PROVE  Decides(e, r)
  <2>1. r \in Roles /\ <<r, p>> \in db.attached /\ db.policy[p].codes = c.old
    BY <1>1, <1>5 DEF EditStands, Holders
  <2>2. Decides(db, r)
    BY <1>5, <2>1 DEF PermissionsInv, Decidable, Untouched
  <2>3. ASSUME NEW x \in Owned(db, r), x \notin c.old \ c.codes
        PROVE  x \in Owned(e, r)
    BY <1>1, <1>4, <2>1, <2>3, OwnedIs DEF Live
  <2>4. db.definition \in [Definitions -> Definition]
    BY <1>1 DEF Database
  <2> QED  BY <1>2, <1>4, <2>2, <2>3, <2>4, KeptDecides
<1>6. Stands(db, suspect, k)
  BY <1>1, <1>3, <1>5, <1>e DEF Stands, EditStands, Untouched
<1> QED  BY <1>1, <1>2, <1>3, <1>6, LoadStep

LEMMA LoadRemoveStep ==
  ASSUME PermissionsInv, NEW q \in Changes, NEW p \in Policies, LoadRemove(q, p)
  PROVE  PermissionsInv'
<1> DEFINE c == [Base EXCEPT !.op = "remove", !.at = "checked", !.policy = p]
<1>1. c \in Call /\ c.op = "remove" /\ c.policy = p
  BY BaseType DEF Call, Ops
<1>2. Load(q, c) /\ process.at = "up" /\ Holders(db, p) = {}
  BY DEF LoadRemove, Up
<1> HIDE DEF c
<1>3. Stands(db, suspect, c)
  BY <1>1, <1>2 DEF Stands, RemoveStands
<1> QED  BY <1>1, <1>2, <1>3, LoadStep

LEMMA LoadEditInlineStep ==
  ASSUME PermissionsInv, NEW q \in Changes, NEW i \in Inlines, NEW codes \in Bodies,
         LoadEditInline(q, i, codes)
  PROVE  PermissionsInv'
<1> DEFINE c == [Base EXCEPT !.op = "editInline", !.inline = i, !.codes = codes,
                             !.old = db.inline[i].codes]
<1>0. db.inline[i].codes \subseteq Codes /\ codes \subseteq Codes /\ Base.at = "loaded"
  BY PermissionsAssumption DEF PermissionsInv, PermissionsTypeOK, Database, InlineRow, Base
<1>1. /\ c \in Call /\ c.op = "editInline" /\ c.at = "loaded" /\ c.inline = i /\ c.codes = codes
      /\ c.old = db.inline[i].codes
  BY <1>0, BaseType DEF Call, Ops
<1>2. Load(q, c) /\ process.at = "up" /\ db.inline[i].live
  BY DEF LoadEditInline, Up
<1> HIDE DEF c
<1>3. Stands(db, suspect, c)
  BY <1>1, <1>2 DEF Stands, EditInlineStands
<1> QED  BY <1>1, <1>2, <1>3, LoadStep

LEMMA CheckEditInlineStep ==
  ASSUME PermissionsInv, NEW q \in Changes, CheckEditInline(q)
  PROVE  PermissionsInv'
<1> DEFINE c == call[q]  k == [c EXCEPT !.at = "checked"]  i == c.inline  r == InlineOf[i]
           e == Inlined(db, i, TRUE, c.codes)
<1>1. /\ c \in Call /\ c.op = "editInline" /\ c.at = "loaded" /\ process.at = "up"
      /\ EditInlineStands(db, suspect, c) /\ db \in Database
  BY AtIs DEF CheckEditInline, Stands, PermissionsInv, PermissionsTypeOK
<1>2. Load(q, k) /\ EligibilityKept(e, {r}, c.old \ c.codes)
  BY DEF CheckEditInline
<1>3. /\ k \in Call /\ k.op = "editInline" /\ k.at = "checked" /\ k.inline = i
      /\ k.codes = c.codes /\ k.since = c.since
  BY <1>1, CheckedIs
<1>4. i \in Inlines /\ r \in Roles
  BY <1>1, PermissionsAssumption DEF Call
<1>5. /\ e.attached = db.attached /\ e.policy = db.policy /\ e.definition = db.definition
      /\ e.inline[i] = [live |-> TRUE, codes |-> c.codes]
      /\ \A o \in Inlines \ {i} : e.inline[o] = db.inline[o]
  <2>1. e.inline = [db.inline EXCEPT ![i] = [live |-> TRUE, codes |-> c.codes]]
    BY <1>1 DEF Inlined, Database
  <2> QED  BY <1>1, <1>4, <2>1 DEF Inlined, Database
<1>e. e = Inlined(db, i, TRUE, c.codes)
  OBVIOUS
<1> HIDE DEF k, e
<1>6. ASSUME Untouched(suspect, c, r)
      PROVE  db.inline[i].live /\ Decides(e, r)
  <2>1. db.inline[i].live /\ db.inline[i].codes = c.old
    BY <1>1, <1>6 DEF EditInlineStands
  <2>2. Decides(db, r)
    BY <1>4, <1>6 DEF PermissionsInv, Decidable, Untouched
  <2>3. ASSUME NEW x \in Owned(db, r), x \notin c.old \ c.codes
        PROVE  x \in Owned(e, r)
    <3>1. CASE \E p \in Policies : <<r, p>> \in db.attached /\ Live(db, p)
                                     /\ x \in db.policy[p].codes
      BY <1>5, <3>1, OwnedIs DEF Live
    <3>2. ASSUME NEW j \in Inlines, db.inline[j].live, InlineOf[j] = r, x \in db.inline[j].codes
          PROVE  e.inline[j].live /\ x \in e.inline[j].codes
      <4>1. CASE j = i
        <5>1. x \in c.codes
          BY <2>1, <2>3, <3>2, <4>1
        <5> QED  BY <1>5, <4>1, <5>1
      <4>2. CASE j # i
        BY <1>5, <3>2, <4>2
      <4> QED  BY <4>1, <4>2
    <3> QED  BY <2>3, <3>1, <3>2, OwnedIs
  <2>4. db.definition \in [Definitions -> Definition]
    BY <1>1 DEF Database
  <2> QED  BY <1>2, <1>5, <2>1, <2>2, <2>3, <2>4, KeptDecides
<1>7. Stands(db, suspect, k)
  BY <1>1, <1>3, <1>6, <1>e DEF Stands, EditInlineStands, Untouched
<1> QED  BY <1>1, <1>2, <1>3, <1>7, LoadStep

LEMMA CheckRemoveInlineStep ==
  ASSUME PermissionsInv, NEW q \in Changes, NEW i \in Inlines, CheckRemoveInline(q, i)
  PROVE  PermissionsInv'
<1> DEFINE c == [Base EXCEPT !.op = "removeInline", !.at = "checked", !.inline = i]
           r == InlineOf[i]
           e == Inlined(db, i, FALSE, {})
<1>1. c \in Call /\ c.op = "removeInline" /\ c.inline = i
  BY BaseType DEF Call, Ops
<1>2. /\ Load(q, c) /\ process.at = "up" /\ db.inline[i].live
      /\ EligibilityKept(e, {r}, db.inline[i].codes)
  BY DEF CheckRemoveInline, Up
<1>3. r \in Roles /\ db \in Database /\ db.definition \in [Definitions -> Definition]
  BY PermissionsAssumption DEF PermissionsInv, PermissionsTypeOK, Database
<1>4. /\ e.attached = db.attached /\ e.policy = db.policy /\ e.definition = db.definition
      /\ \A o \in Inlines \ {i} : e.inline[o] = db.inline[o]
  <2>1. e.inline = [db.inline EXCEPT ![i] = [live |-> FALSE, codes |-> {}]]
    BY <1>3 DEF Inlined, Database
  <2> QED  BY <1>3, <2>1 DEF Inlined, Database
<1>e. e = Inlined(db, i, FALSE, {})
  OBVIOUS
<1> HIDE DEF c, e
<1>5. ASSUME Untouched(suspect, c, r)
      PROVE  Decides(e, r)
  <2>1. Decides(db, r)
    BY <1>3, <1>5 DEF PermissionsInv, Decidable, Untouched
  <2>2. ASSUME NEW x \in Owned(db, r), x \notin db.inline[i].codes
        PROVE  x \in Owned(e, r)
    BY <1>4, <2>2, OwnedIs DEF Live
  <2> QED  BY <1>2, <1>3, <1>4, <2>1, <2>2, KeptDecides
<1>6. Stands(db, suspect, c)
  BY <1>1, <1>5, <1>e DEF Stands, RemoveInlineStands
<1> QED  BY <1>1, <1>2, <1>6, LoadStep

LEMMA LoadPublishStep ==
  ASSUME PermissionsInv, NEW q \in Changes, NEW t \in Types, NEW rs \in SUBSET Roles,
         LoadPublish(q, t, rs)
  PROVE  PermissionsInv'
<1> DEFINE c == [Base EXCEPT !.op = "publish", !.type = t, !.roles = rs]
<1>0. Base.at = "loaded"
  BY DEF Base
<1>1. c \in Call /\ c.op = "publish" /\ c.at = "loaded" /\ c.type = t /\ c.roles = rs
  BY <1>0, BaseType DEF Call, Ops
<1>2. Load(q, c) /\ process.at = "up" /\ rs \subseteq Eligible(db, t)
  BY DEF LoadPublish, Up
<1> HIDE DEF c
<1>3. Stands(db, suspect, c)
  BY <1>1, <1>2 DEF Stands, PublishStands
<1> QED  BY <1>1, <1>2, <1>3, LoadStep

LEMMA FindPreviousStep ==
  ASSUME PermissionsInv, NEW q \in Changes, FindPrevious(q)
  PROVE  PermissionsInv'
<1> DEFINE c == call[q]  old == ActiveFor(db, c.type)
<1>1. /\ c \in Call /\ c.op = "publish" /\ c.at = "loaded" /\ process.at = "up"
      /\ PublishStands(db, suspect, c) /\ c.type \in Types
  BY AtIs DEF FindPrevious, Stands, Call
<1>2. PICK previous \in (IF old = {} THEN {{}} ELSE {{x} : x \in old}) :
        Load(q, [c EXCEPT !.at = "checked", !.previous = previous])
  BY DEF FindPrevious
<1> DEFINE k == [c EXCEPT !.at = "checked", !.previous = previous]
<1>3. previous \subseteq Definitions
  BY DEF ActiveFor
<1>4. /\ k \in Call /\ k.op = "publish" /\ k.at = "checked" /\ k.type = c.type
      /\ k.roles = c.roles /\ k.since = c.since /\ k.previous = previous
  BY <1>1, <1>3 DEF Call
<1> HIDE DEF k
<1>5. ASSUME Untouched(suspect, c, c.type) PROVE old \subseteq previous
  <2>1. \A x, y \in old : x = y
    BY <1>1, <1>5 DEF PermissionsInv, Unambiguous, Untouched
  <2> QED  BY <2>1
<1>6. Stands(db, suspect, k)
  BY <1>1, <1>4, <1>5 DEF Stands, PublishStands, Untouched
<1>7. Load(q, k)
  BY <1>2 DEF k
<1> QED  BY <1>1, <1>4, <1>6, <1>7, LoadStep

-----------------------------------------------------------------------------
(* The commits of the requests.                                            *)

\* The foreign key, and what Things are.
LEMMA Kinds ==
  ASSUME PermissionsInv
  PROVE  /\ db \in Database /\ suspect \subseteq Things /\ ForeignKey
         /\ Roles \cap Policies = {} /\ Roles \cap Types = {} /\ Policies \cap Types = {}
         /\ Roles \subseteq Things /\ Policies \subseteq Things /\ Types \subseteq Things
BY PermissionsAssumption DEF PermissionsInv, PermissionsTypeOK, Things

LEMMA CreatePolicyStep ==
  ASSUME PermissionsInv, NEW q \in Changes, NEW p \in Policies, NEW codes \in Bodies,
         CreatePolicy(q, p, codes)
  PROVE  PermissionsInv'
<1> DEFINE row == [state |-> "live", system |-> FALSE, codes |-> codes]
           e == [db EXCEPT !.policy[p] = row]
<1>1. Commit(q, e, {p}, {}) /\ process.at = "up" /\ db.policy[p].state = "none"
  BY DEF CreatePolicy, Up
<1>2. row \in PolicyRow /\ row.state # "none"
  BY PermissionsAssumption DEF PolicyRow
<1> HIDE DEF row
<1>3. /\ e \in Database /\ e.attached = db.attached /\ e.inline = db.inline
      /\ e.definition = db.definition /\ e.policy[p] = row
      /\ \A o \in Policies \ {p} : e.policy[o] = db.policy[o]
  BY <1>2, Kinds DEF Database
<1> HIDE DEF e
<1>4. \A a \in db.attached : a[2] \in Policies \ {p}
  BY <1>1, Kinds DEF ForeignKey, Database
<1>5. \A r \in Roles : <<r, p>> \notin db.attached
  BY <1>4
<1>6. Frame(db, e, {p})
  BY <1>2, <1>3, <1>5 DEF Frame, Same, Holders, ActiveFor
<1>7. \A a \in e.attached : e.policy[a[2]].state # "none"
  BY <1>3, <1>4, Kinds DEF ForeignKey
<1>8. \A r \in Roles : p \notin Attached(e, r)
  BY <1>3, <1>5 DEF Attached
<1> QED  BY <1>1, <1>3, <1>6, <1>7, <1>8, Kinds, CommitStep

LEMMA CommitAttachStep ==
  ASSUME PermissionsInv, NEW q \in Changes, CommitAttach(q)
  PROVE  PermissionsInv'
<1> DEFINE c == call[q]  r == c.role  p == c.policy
           e == [db EXCEPT !.attached = @ \cup {<<r, p>>}]
<1>1. /\ c \in Call /\ process.at = "up" /\ AttachStands(db, suspect, c)
      /\ r \in Roles /\ p \in Policies
  BY AtIs DEF CommitAttach, Stands, Call
<1>2. Commit(q, e, {r, p}, c.since)
  BY DEF CommitAttach
<1>3. /\ e \in Database /\ e.policy = db.policy /\ e.inline = db.inline
      /\ e.definition = db.definition /\ e.attached = db.attached \cup {<<r, p>>}
  BY <1>1, Kinds DEF Database
<1>s. {r, p} \in SUBSET Things
  BY <1>1, Kinds
<1> HIDE DEF e
<1>4. Frame(db, e, {r, p})
  BY <1>3 DEF Frame, Same, Holders, ActiveFor
<1>5. \A a \in e.attached : e.policy[a[2]].state # "none"
  BY <1>1, <1>3, Kinds DEF ForeignKey, AttachStands
<1>6. \A o \in Roles \cap {r, p} : o \in suspect \cup c.since \/ Decides(e, o)
  <2> SUFFICES ASSUME r \notin suspect PROVE Decides(e, r)
    BY <1>1, Kinds
  <2>1. Decides(db, r)
    BY <1>1 DEF PermissionsInv, Decidable
  <2>2. ASSUME NEW x \in Owned(db, r) PROVE x \in Owned(e, r)
    <3>1. CASE \E o \in Policies : <<r, o>> \in db.attached /\ Live(db, o) /\ x \in db.policy[o].codes
      <4>1. PICK o \in Policies : <<r, o>> \in db.attached /\ Live(db, o) /\ x \in db.policy[o].codes
        BY <3>1
      <4>2. <<r, o>> \in e.attached /\ Live(e, o) /\ x \in e.policy[o].codes
        BY <1>3, <4>1 DEF Live
      <4> QED  BY <4>2, OwnedIs
    <3>2. CASE \E j \in Inlines : db.inline[j].live /\ InlineOf[j] = r /\ x \in db.inline[j].codes
      BY <1>3, <3>2, OwnedIs
    <3>3. \/ \E o \in Policies : <<r, o>> \in db.attached /\ Live(db, o) /\ x \in db.policy[o].codes
          \/ \E j \in Inlines : db.inline[j].live /\ InlineOf[j] = r /\ x \in db.inline[j].codes
      BY <2>2, OwnedIs
    <3> QED  BY <3>1, <3>2, <3>3
  <2> QED  BY <1>3, <2>1, <2>2, MoreDecides
<1>7. \A o \in Policies \cap {r, p} : o \in suspect \cup c.since
                 \/ \A z \in Roles : o \in Attached(e, z) => Sound(e, z, o)
  <2> SUFFICES ASSUME p \notin suspect \cup c.since, NEW z \in Roles, p \in Attached(e, z)
               PROVE  Sound(e, z, p)
    BY <1>1, Kinds
  <2>1. CASE z = r
    BY <1>1, <1>3, <2>1 DEF AttachStands, Untouched, Sound, Live, CleanRows
  <2>2. CASE z # r
    <3>1. p \in Attached(db, z)
      BY <1>3, <2>2 DEF Attached
    <3>2. Sound(db, z, p)
      BY <3>1 DEF PermissionsInv, AttachedSound
    <3> QED  BY <1>3, <3>2 DEF Sound, Live, CleanRows
  <2> QED  BY <2>1, <2>2
<1>8. Types \cap {r, p} = {}
  BY <1>1, Kinds
<1> QED  BY <1>1, <1>2, <1>3, <1>s, <1>4, <1>5, <1>6, <1>7, <1>8, CommitStep

LEMMA CommitDetachStep ==
  ASSUME PermissionsInv, NEW q \in Changes, CommitDetach(q)
  PROVE  PermissionsInv'
<1> DEFINE c == call[q]  r == c.role  p == c.policy  e == Detached(db, c)
           ts == IF c.lost THEN {} ELSE {r, p}
<1>1. /\ c \in Call /\ c.at = "checked" /\ process.at = "up" /\ DetachStands(db, suspect, c)
      /\ r \in Roles /\ p \in Policies /\ c.lost \in BOOLEAN
  BY AtIs DEF CommitDetach, Stands, Call
<1>2. Commit(q, e, ts, c.since)
  BY DEF CommitDetach
<1>s. ts \in SUBSET Things
  BY <1>1, Kinds
<1>3. e \in Database
  BY Kinds DEF Detached, Database
<1>4. /\ e.policy = db.policy /\ e.inline = db.inline /\ e.definition = db.definition
      /\ \A a, b : <<a, b>> \in e.attached <=>
           /\ <<a, b>> \in db.attached
           /\ c.lost \/ <<a, b>> # <<r, p>>
  BY Kinds, DetachedIs
<1>5. e.attached \subseteq db.attached
  BY Kinds DEF Detached, Database
<1>e. e = Detached(db, c)
  OBVIOUS
<1> HIDE DEF e
<1>6. Frame(db, e, ts)
  BY <1>1, <1>4 DEF Frame, Same, Holders, ActiveFor
<1>7. \A a \in e.attached : e.policy[a[2]].state # "none"
  BY <1>4, <1>5, Kinds DEF ForeignKey
<1>8. \A o \in Roles \cap ts : o \in suspect \cup c.since \/ Decides(e, o)
  BY <1>1, <1>e, Kinds DEF DetachStands, Untouched
<1>9. \A o \in Policies \cap ts : o \in suspect \cup c.since
                 \/ \A z \in Roles : o \in Attached(e, z) => Sound(e, z, o)
  <2> SUFFICES ASSUME NEW o \in Policies, o \notin suspect, NEW z \in Roles, o \in Attached(e, z)
               PROVE  Sound(e, z, o)
    OBVIOUS
  <2>1. o \in Attached(db, z)
    BY <1>5 DEF Attached
  <2>2. Sound(db, z, o)
    BY <2>1 DEF PermissionsInv, AttachedSound
  <2> QED  BY <1>4, <2>2 DEF Sound, Live, CleanRows
<1>10. Types \cap ts = {}
  BY <1>1, Kinds
<1> QED  BY <1>1, <1>2, <1>3, <1>s, <1>6, <1>7, <1>8, <1>9, <1>10, CommitStep

LEMMA CommitEditStep ==
  ASSUME PermissionsInv, NEW q \in Changes, CommitEdit(q)
  PROVE  PermissionsInv'
<1> DEFINE c == call[q]  p == c.policy  ts == {p} \cup Holders(db, p)
           state == IF c.revives THEN "live" ELSE db.policy[p].state
           e == Edited(db, p, c.codes, state)
<1>1. /\ c \in Call /\ c.at = "checked" /\ process.at = "up" /\ EditStands(db, suspect, c)
      /\ p \in Policies /\ c.codes \subseteq Codes /\ c.revives \in BOOLEAN
  BY AtIs DEF CommitEdit, Stands, Call
<1>2. Commit(q, e, ts, c.since)
  BY DEF CommitEdit
<1>s. ts \in SUBSET Things
  BY <1>1, Kinds DEF Holders
<1>t. state \in {"none", "live", "deleted"} /\ (state # "live" => state = db.policy[p].state)
      /\ (c.revives => state = "live")
  BY <1>1, Kinds DEF Database, PolicyRow
<1>e. e = Edited(db, p, c.codes, state)
  OBVIOUS
<1> HIDE DEF state
<1>3. e \in Database
  BY <1>1, <1>t, Kinds, EditedType
<1>4. /\ e.attached = db.attached /\ e.inline = db.inline /\ e.definition = db.definition
      /\ e.policy[p].codes = c.codes /\ e.policy[p].state = state
      /\ \A o \in Policies \ {p} : e.policy[o] = db.policy[o]
  BY <1>1, Kinds, EditedIs
<1> HIDE DEF e
<1>5. ASSUME NEW r \in Roles \ ts PROVE Same(db, e, r)
  <2>1. <<r, p>> \notin db.attached
    BY DEF Holders
  <2> QED  BY <1>4, <2>1 DEF Same
<1>6. Frame(db, e, ts)
  <2>1. \A o \in Policies : db.policy[o].state # "none" => e.policy[o].state # "none"
    BY <1>1, <1>t, <1>4
  <2> QED  BY <1>4, <1>5, <2>1 DEF Frame, Holders, ActiveFor
<1>7. \A a \in e.attached : e.policy[a[2]].state # "none"
  BY <1>4, <1>6, Kinds DEF ForeignKey, Frame, Database
<1>8. ASSUME NEW r \in Roles \cap ts, r \notin suspect \cup c.since PROVE Decides(e, r)
  <2>1. r \in Holders(db, p) /\ Untouched(suspect, c, r)
    BY <1>1, <1>8, Kinds DEF Untouched
  <2>2. Decides(Edited(db, p, c.codes, "live"), r) /\ (c.revives \/ Live(db, p))
    BY <1>1, <2>1 DEF EditStands
  <2>3. state = "live"
    BY <1>1, <1>t, <2>2 DEF Live
  <2> QED  BY <1>e, <2>2, <2>3
<1>9. ASSUME NEW o \in Policies \cap ts, o \notin suspect \cup c.since,
             NEW z \in Roles, o \in Attached(e, z)
      PROVE  Sound(e, z, o)
  <2>1. o = p /\ Untouched(suspect, c, p) /\ z \in Holders(db, p)
    BY <1>4, <1>9, Kinds DEF Holders, Untouched, Attached
  <2>2. NoApprovalFor(Holders(db, p), c.codes)
    BY <1>1, <2>1 DEF EditStands
  <2>3. Live(db, p)
    <3>1. p \in Attached(db, z) \ suspect
      BY <1>4, <1>9, <2>1 DEF Attached
    <3> QED  BY <3>1 DEF PermissionsInv, AttachedSound, Sound
  <2> QED  BY <1>4, <1>t, <2>1, <2>2, <2>3 DEF Sound, Live, CleanRows, NoApprovalFor
<1>10. Types \cap ts = {}
  BY <1>1, Kinds DEF Holders
<1> HIDE DEF ts
<1> QED  BY <1>1, <1>2, <1>3, <1>s, <1>6, <1>7, <1>8, <1>9, <1>10, CommitStep

LEMMA CommitRemoveStep ==
  ASSUME PermissionsInv, NEW q \in Changes, CommitRemove(q)
  PROVE  PermissionsInv'
<1> DEFINE c == call[q]  p == c.policy  ts == {p} \cup Holders(db, p)
           e == Edited(db, p, {}, "deleted")
<1>1. /\ c \in Call /\ process.at = "up" /\ RemoveStands(db, suspect, c) /\ p \in Policies
  BY AtIs DEF CommitRemove, Stands, Call
<1>2. Commit(q, e, ts, c.since)
  BY DEF CommitRemove
<1>s. ts \in SUBSET Things
  BY <1>1, Kinds DEF Holders
<1>3. e \in Database
  BY <1>1, Kinds, EditedType
<1>4. /\ e.attached = db.attached /\ e.inline = db.inline /\ e.definition = db.definition
      /\ e.policy[p].state = "deleted"
      /\ \A o \in Policies \ {p} : e.policy[o] = db.policy[o]
  BY <1>1, Kinds, EditedIs
<1> HIDE DEF e
<1>5. ASSUME NEW r \in Roles \ ts PROVE Same(db, e, r)
  <2>1. <<r, p>> \notin db.attached
    BY DEF Holders
  <2> QED  BY <1>4, <2>1 DEF Same
<1>6. Frame(db, e, ts)
  <2>1. \A o \in Policies : db.policy[o].state # "none" => e.policy[o].state # "none"
    BY <1>1, <1>4
  <2> QED  BY <1>4, <1>5, <2>1 DEF Frame, Holders, ActiveFor
<1>7. \A a \in e.attached : e.policy[a[2]].state # "none"
  BY <1>4, <1>6, Kinds DEF ForeignKey, Frame, Database
<1>8. \A r \in Roles \cap ts : r \in suspect \cup c.since
  BY <1>1, Kinds DEF RemoveStands, Untouched
<1>9. ASSUME NEW o \in Policies \cap ts, o \notin suspect \cup c.since, NEW z \in Roles
      PROVE  o \notin Attached(e, z)
  BY <1>1, <1>4, <1>9, Kinds DEF Holders, Untouched, Attached, RemoveStands
<1>10. Types \cap ts = {}
  BY <1>1, Kinds DEF Holders
<1> HIDE DEF ts
<1> QED  BY <1>1, <1>2, <1>3, <1>s, <1>6, <1>7, <1>8, <1>9, <1>10, CommitStep

\* A write of one inline policy, by whoever may.
LEMMA InlineStep ==
  ASSUME PermissionsInv, NEW q \in Changes, NEW i \in Inlines, NEW row \in InlineRow, NEW since,
         NEW e, e = [db EXCEPT !.inline[i] = row], process.at = "up",
         Commit(q, e, {InlineOf[i]}, since),
         InlineOf[i] \in suspect \cup since \/ Decides(e, InlineOf[i])
  PROVE  PermissionsInv'
<1> DEFINE r == InlineOf[i]
<1>1. r \in Roles
  BY PermissionsAssumption
<1>2. /\ e \in Database /\ e.attached = db.attached /\ e.policy = db.policy
      /\ e.definition = db.definition /\ \A o \in Inlines \ {i} : e.inline[o] = db.inline[o]
  BY Kinds DEF Database
<1>3. Frame(db, e, {r})
  BY <1>2 DEF Frame, Same, Holders, ActiveFor
<1>4. \A a \in e.attached : e.policy[a[2]].state # "none"
  BY <1>2, Kinds DEF ForeignKey
<1>5. {r} \in SUBSET Things /\ Types \cap {r} = {} /\ Policies \cap {r} = {}
  BY <1>1, Kinds
<1>6. \A o \in Roles \cap {r} : o \in suspect \cup since \/ Decides(e, o)
  OBVIOUS
<1> HIDE DEF r
<1>7. Commit(q, e, {r}, since)
  BY DEF r
<1> QED  BY <1>2, <1>3, <1>4, <1>5, <1>6, <1>7, CommitStep

LEMMA CreateInlineStep ==
  ASSUME PermissionsInv, NEW q \in Changes, NEW i \in Inlines, NEW codes \in Bodies,
         CreateInline(q, i, codes)
  PROVE  PermissionsInv'
<1> DEFINE row == [live |-> TRUE, codes |-> codes]  e == [db EXCEPT !.inline[i] = row]
           r == InlineOf[i]
<1>1. Commit(q, e, {r}, {}) /\ process.at = "up" /\ ~ db.inline[i].live
  BY DEF CreateInline, Up, Inlined
<1>2. row \in InlineRow /\ r \in Roles
  BY PermissionsAssumption DEF InlineRow
<1> HIDE DEF row
<1>3. /\ e.attached = db.attached /\ e.policy = db.policy
      /\ e.definition = db.definition /\ \A o \in Inlines \ {i} : e.inline[o] = db.inline[o]
  BY Kinds DEF Database
<1>e. e = [db EXCEPT !.inline[i] = row]
  OBVIOUS
<1> HIDE DEF e
<1>4. ASSUME r \notin suspect PROVE Decides(e, r)
  <2>1. Decides(db, r)
    BY <1>2, <1>4 DEF PermissionsInv, Decidable
  <2>2. ASSUME NEW x \in Owned(db, r) PROVE x \in Owned(e, r)
    BY <1>1, <1>3, <2>2, OwnedIs DEF Live
  <2> QED  BY <1>3, <2>1, <2>2, MoreDecides
<1> QED  BY <1>1, <1>2, <1>e, <1>4, InlineStep

LEMMA CommitEditInlineStep ==
  ASSUME PermissionsInv, NEW q \in Changes, CommitEditInline(q)
  PROVE  PermissionsInv'
<1> DEFINE c == call[q]  i == c.inline  r == InlineOf[i]
           row == [live |-> db.inline[i].live, codes |-> c.codes]
           e == [db EXCEPT !.inline[i] = row]
<1>1. /\ c \in Call /\ c.at = "checked" /\ process.at = "up" /\ EditInlineStands(db, suspect, c)
      /\ i \in Inlines /\ c.codes \subseteq Codes
  BY AtIs DEF CommitEditInline, Stands, Call
<1>2. Commit(q, e, {r}, c.since)
  BY DEF CommitEditInline, Inlined
<1>3. row \in InlineRow /\ db.inline[i].live \in BOOLEAN
  BY <1>1, Kinds DEF InlineRow, Database
<1>4. ASSUME r \notin suspect \cup c.since PROVE Decides(e, r)
  <2>1. db.inline[i].live = TRUE /\ Decides(Inlined(db, i, TRUE, c.codes), r)
    BY <1>1, <1>3, <1>4 DEF EditInlineStands, Untouched
  <2> QED  BY <2>1 DEF Inlined
<1>e. e = [db EXCEPT !.inline[i] = row]
  OBVIOUS
<1> HIDE DEF row, e
<1> QED  BY <1>1, <1>2, <1>3, <1>4, <1>e, InlineStep

LEMMA CommitRemoveInlineStep ==
  ASSUME PermissionsInv, NEW q \in Changes, CommitRemoveInline(q)
  PROVE  PermissionsInv'
<1> DEFINE c == call[q]  i == c.inline  r == InlineOf[i]
           row == [live |-> FALSE, codes |-> {}]
           e == [db EXCEPT !.inline[i] = row]
<1>1. /\ c \in Call /\ process.at = "up" /\ RemoveInlineStands(db, suspect, c) /\ i \in Inlines
  BY AtIs DEF CommitRemoveInline, Stands, Call
<1>2. Load(q, Answered) \/ Commit(q, e, {r}, c.since)
  BY DEF CommitRemoveInline, Inlined
<1>3. row \in InlineRow
  BY DEF InlineRow
<1>4. r \notin suspect \cup c.since => Decides(e, r)
  BY <1>1 DEF RemoveInlineStands, Untouched, Inlined
<1>e. e = [db EXCEPT !.inline[i] = row]
  OBVIOUS
<1> HIDE DEF row, e
<1>5. CASE Commit(q, e, {r}, c.since)
  BY <1>1, <1>3, <1>4, <1>5, <1>e, InlineStep
<1>6. CASE Load(q, Answered)
  BY <1>6, InFlight, LoadStep
<1> QED  BY <1>2, <1>5, <1>6

LEMMA CommitPublishStep ==
  ASSUME PermissionsInv, NEW q \in Changes, CommitPublish(q)
  PROVE  PermissionsInv'
<1> DEFINE c == call[q]  ts == {c.type} \cup c.roles
           kept == [x \in Definitions |-> IF x \in c.previous THEN NoDefinition ELSE db.definition[x]]
           made == [active |-> TRUE, type |-> c.type, roles |-> c.roles]
<1>1. /\ c \in Call /\ c.at = "checked" /\ process.at = "up" /\ PublishStands(db, suspect, c)
      /\ c.type \in Types /\ c.roles \subseteq Roles
  BY AtIs DEF CommitPublish, Stands, Call
<1>2. PICK n \in Definitions : Commit(q, [db EXCEPT !.definition = [kept EXCEPT ![n] = made]], ts, c.since)
  BY DEF CommitPublish
<1> DEFINE e == [db EXCEPT !.definition = [kept EXCEPT ![n] = made]]
<1>s. ts \in SUBSET Things
  BY <1>1, Kinds
<1>3. made \in Definition /\ NoDefinition \in Definition /\ ~ NoDefinition.active
  BY <1>1 DEF Definition, NoDefinition
<1>4. e \in Database
  BY <1>3, Kinds DEF Database
<1>5. /\ e.attached = db.attached /\ e.policy = db.policy /\ e.inline = db.inline
      /\ e.definition[n] = made
      /\ \A x \in Definitions \ {n} :
           e.definition[x] = IF x \in c.previous THEN NoDefinition ELSE db.definition[x]
  BY Kinds DEF Database
<1>6. made.active /\ made.type = c.type /\ made.roles = c.roles
  OBVIOUS
<1>c. Commit(q, e, ts, c.since)
  BY <1>2
<1> HIDE DEF e, made
<1>7. \A x \in Definitions \ {n} : e.definition[x].active
                => x \notin c.previous /\ e.definition[x] = db.definition[x]
  BY <1>3, <1>5
<1>8. Frame(db, e, ts)
  <2>1. ASSUME NEW r \in Roles \ ts, NEW x \in Definitions,
               e.definition[x].active, r \in e.definition[x].roles
        PROVE  e.definition[x] = db.definition[x]
    BY <1>5, <1>6, <1>7, <2>1
  <2>2. ASSUME NEW t \in Types \ ts, NEW x \in ActiveFor(e, t) PROVE x \in ActiveFor(db, t)
    BY <1>5, <1>6, <1>7, <2>2 DEF ActiveFor
  <2> QED  BY <1>5, <2>1, <2>2 DEF Frame, Same, Holders
<1>9. \A a \in e.attached : e.policy[a[2]].state # "none"
  BY <1>5, Kinds DEF ForeignKey
<1>10. ASSUME NEW r \in Roles \cap ts, r \notin suspect \cup c.since PROVE Decides(e, r)
  <2>1. r \in Eligible(db, c.type) /\ Decides(db, r)
    BY <1>1, <1>10, Kinds DEF PublishStands, Untouched, PermissionsInv, Decidable
  <2>2. Owned(e, r) = Owned(db, r)
    BY <1>5 DEF Owned, Attached, Live
  <2>3. ASSUME NEW x \in Definitions, e.definition[x].active, r \in e.definition[x].roles
        PROVE  r \in Eligible(db, e.definition[x].type)
    BY <1>5, <1>6, <1>7, <2>1, <2>3 DEF Decides
  <2> QED  BY <2>2, <2>3, EligibleIs DEF Decides
<1>11. ASSUME NEW t \in Types \cap ts, t \notin suspect \cup c.since,
              NEW x \in ActiveFor(e, t), NEW y \in ActiveFor(e, t)
       PROVE  x = y
  <2>1. t = c.type /\ ActiveFor(db, t) \subseteq c.previous
    BY <1>1, <1>11, Kinds DEF PublishStands, Untouched
  <2>2. \A z \in ActiveFor(e, t) : z = n
    BY <1>7, <2>1 DEF ActiveFor
  <2> QED  BY <2>2
<1>12. Policies \cap ts = {}
  BY <1>1, Kinds
<1> HIDE DEF ts
<1> QED  BY <1>1, <1>c, <1>4, <1>s, <1>8, <1>9, <1>10, <1>11, <1>12, CommitStep

LEMMA RequestStep ==
  ASSUME PermissionsInv, NEW q \in Changes,
         PolicyRequest(q) \/ InlineRequest(q) \/ PublishRequest(q) \/ Refused(q)
  PROVE  PermissionsInv'
<1>1. CASE PolicyRequest(q)
  BY <1>1, CreatePolicyStep, LoadEditStep, LoadAttachStep, LoadDetachStep, LoadRemoveStep,
     CommitAttachStep, CheckDetachStep, CommitDetachStep, CheckEditStep, CommitEditStep,
     CommitRemoveStep DEF PolicyRequest
<1>2. CASE InlineRequest(q)
  BY <1>2, CreateInlineStep, LoadEditInlineStep, CheckRemoveInlineStep, CheckEditInlineStep,
     CommitEditInlineStep, CommitRemoveInlineStep DEF InlineRequest
<1>3. CASE PublishRequest(q)
  BY <1>3, LoadPublishStep, FindPreviousStep, CommitPublishStep DEF PublishRequest
<1>4. CASE Refused(q)
  BY <1>4, InFlight, LoadStep DEF Refused
<1> QED  BY <1>1, <1>2, <1>3, <1>4

-----------------------------------------------------------------------------
(* The synchronisation at the start, and the process.                      *)

\* While nobody listens, only what it writes can change a role.
LEMMA StartKeeps ==
  ASSUME PermissionsInv, process.at # "up", call' = call,
         PermissionsTypeOK', ForeignKey', Decidable', AttachedSound', StartHalfway',
         db'.definition = db.definition, Types \cap suspect \subseteq suspect'
  PROVE  PermissionsInv'
<1>1. \A q \in Changes : call'[q] \in {New, Answered}
  BY DEF PermissionsInv, Settled
<1>2. Settled' /\ AllStand'
  BY <1>1 DEF Settled, AllStand
<1>3. Unambiguous'
  BY DEF PermissionsInv, Unambiguous, ActiveFor
<1> QED  BY <1>2, <1>3 DEF PermissionsInv

\* A role is not worse off for a policy that lists more and is live.
LEMMA PolicyGrows ==
  ASSUME NEW d \in Database, NEW p \in Policies, NEW row \in PolicyRow, NEW r,
         Live(d, p) => row.state = "live" /\ d.policy[p].codes \subseteq row.codes
  PROVE  Owned(d, r) \subseteq Owned([d EXCEPT !.policy[p] = row], r)
<1> DEFINE e == [d EXCEPT !.policy[p] = row]
<1>1. /\ e.attached = d.attached /\ e.inline = d.inline /\ e.policy[p] = row
      /\ \A o \in Policies \ {p} : e.policy[o] = d.policy[o]
  BY DEF Database
<1> SUFFICES Owned(d, r) \subseteq Owned(e, r)
  OBVIOUS
<1> HIDE DEF e
<1> SUFFICES ASSUME NEW x \in Owned(d, r) PROVE x \in Owned(e, r)
  OBVIOUS
<1>2. CASE \E o \in Policies : <<r, o>> \in d.attached /\ Live(d, o) /\ x \in d.policy[o].codes
  <2>1. PICK o \in Policies : <<r, o>> \in d.attached /\ Live(d, o) /\ x \in d.policy[o].codes
    BY <1>2
  <2>2. <<r, o>> \in e.attached /\ Live(e, o) /\ x \in e.policy[o].codes
    BY <1>1, <2>1 DEF Live
  <2> QED  BY <2>2, OwnedIs
<1>3. CASE \E i \in Inlines : d.inline[i].live /\ InlineOf[i] = r /\ x \in d.inline[i].codes
  BY <1>1, <1>3, OwnedIs
<1>4. \/ \E o \in Policies : <<r, o>> \in d.attached /\ Live(d, o) /\ x \in d.policy[o].codes
      \/ \E i \in Inlines : d.inline[i].live /\ InlineOf[i] = r /\ x \in d.inline[i].codes
  BY OwnedIs
<1> QED  BY <1>2, <1>3, <1>4

LEMMA StartStep ==
  ASSUME PermissionsInv, Start
  PROVE  PermissionsInv'
<1>1. /\ process.at = "down" /\ process' = [NoProcess EXCEPT !.at = "attaching", !.starts = process.starts + 1]
      /\ process.starts + 1 \in 0..MaxStarts
      /\ db' = db /\ call' = call /\ suspect' = suspect
  BY PermissionsAssumption DEF Start, PermissionsInv, PermissionsTypeOK
<1>2. process'.at = "attaching"
  BY <1>1 DEF NoProcess
<1>3. PermissionsTypeOK'
  BY <1>1, PermissionsAssumption DEF PermissionsInv, PermissionsTypeOK, NoProcess, Phases
<1>4. ForeignKey' /\ Decidable' /\ AttachedSound' /\ StartHalfway'
  BY <1>1, <1>2 DEF PermissionsInv, ForeignKey, Decidable, AttachedSound, StartHalfway
<1> QED  BY <1>1, <1>3, <1>4, StartKeeps

LEMMA MakeNamedStep ==
  ASSUME PermissionsInv, MakeNamed
  PROVE  PermissionsInv'
<1> DEFINE row == [db.policy[Named] EXCEPT !.state = "live", !.system = TRUE]
<1>1. /\ process.at = "attaching" /\ db' = [db EXCEPT !.policy[Named] = row]
      /\ process' = process /\ call' = call /\ suspect' = suspect
  BY DEF MakeNamed, Saves
<1>2. Named \in Policies
  BY PermissionsAssumption
<1>3. row \in PolicyRow /\ row.state = "live" /\ row.codes = db.policy[Named].codes
  BY <1>2, Kinds DEF Database, PolicyRow
<1> HIDE DEF row
<1>4. /\ db'.attached = db.attached /\ db'.inline = db.inline /\ db'.definition = db.definition
      /\ db'.policy[Named] = row /\ \A o \in Policies \ {Named} : db'.policy[o] = db.policy[o]
      /\ db' \in Database
  BY <1>1, <1>2, <1>3, Kinds DEF Database
<1>5. PermissionsTypeOK'
  BY <1>1, <1>4 DEF PermissionsInv, PermissionsTypeOK
<1>6. ForeignKey' /\ StartHalfway'
  BY <1>1, <1>3, <1>4, Kinds DEF ForeignKey, StartHalfway, Database
<1>7. Decidable'
  <2> SUFFICES ASSUME NEW r \in Roles, r \notin suspect PROVE Decides(db', r)
    BY <1>1 DEF Decidable
  <2>1. Owned(db, r) \subseteq Owned(db', r)
    BY <1>1, <1>2, <1>3, Kinds, PolicyGrows
  <2>2. Decides(db, r)
    BY DEF PermissionsInv, Decidable
  <2> QED  BY <1>4, <2>1, <2>2, MoreDecides
<1>8. AttachedSound'
  <2> SUFFICES ASSUME NEW r \in Roles, NEW p \in Attached(db, r) \ suspect
               PROVE  Sound(db', r, p)
    BY <1>1, <1>4 DEF AttachedSound, Attached
  <2>1. Sound(db, r, p)
    BY DEF PermissionsInv, AttachedSound
  <2> QED  BY <1>3, <1>4, <2>1 DEF Sound, Live, CleanRows, Attached
<1> QED  BY <1>1, <1>4, <1>5, <1>6, <1>7, <1>8, StartKeeps

LEMMA AttachNamedStep ==
  ASSUME PermissionsInv, AttachNamed
  PROVE  PermissionsInv'
<1>1. /\ process.at = "attaching" /\ db' = [db EXCEPT !.attached = @ \cup {<<SuperAdmin, Named>>}]
      /\ process' = process /\ call' = call /\ Live(db, Named)
      /\ suspect' = IF CleanRows(db, Named) THEN suspect ELSE suspect \cup {Named}
  BY DEF AttachNamed
<1>2. Named \in Policies /\ SuperAdmin \in Roles /\ suspect \subseteq suspect' /\ suspect' \subseteq Things
  BY <1>1, PermissionsAssumption, Kinds
<1>3. /\ db'.policy = db.policy /\ db'.inline = db.inline /\ db'.definition = db.definition
      /\ db'.attached = db.attached \cup {<<SuperAdmin, Named>>} /\ db' \in Database
  BY <1>1, <1>2, Kinds DEF Database
<1>4. PermissionsTypeOK'
  BY <1>1, <1>2, <1>3 DEF PermissionsInv, PermissionsTypeOK
<1>5. ForeignKey' /\ StartHalfway'
  BY <1>1, <1>3, Kinds DEF ForeignKey, StartHalfway, Live
<1>6. Decidable'
  <2> SUFFICES ASSUME NEW r \in Roles, r \notin suspect PROVE Decides(db', r)
    BY <1>2 DEF Decidable
  <2>1. ASSUME NEW x \in Owned(db, r) PROVE x \in Owned(db', r)
    <3>1. CASE \E o \in Policies : <<r, o>> \in db.attached /\ Live(db, o) /\ x \in db.policy[o].codes
      <4>1. PICK o \in Policies : <<r, o>> \in db.attached /\ Live(db, o) /\ x \in db.policy[o].codes
        BY <3>1
      <4>2. <<r, o>> \in db'.attached /\ Live(db', o) /\ x \in db'.policy[o].codes
        BY <1>3, <4>1 DEF Live
      <4> QED  BY <4>2, OwnedIs
    <3>2. CASE \E i \in Inlines : db.inline[i].live /\ InlineOf[i] = r /\ x \in db.inline[i].codes
      BY <1>3, <3>2, OwnedIs
    <3> QED  BY <2>1, <3>1, <3>2, OwnedIs
  <2>2. Decides(db, r)
    BY DEF PermissionsInv, Decidable
  <2> QED  BY <1>3, <2>1, <2>2, MoreDecides
<1>7. AttachedSound'
  <2> SUFFICES ASSUME NEW r \in Roles, NEW p \in Policies, <<r, p>> \in db'.attached, p \notin suspect'
               PROVE  Sound(db', r, p)
    BY DEF AttachedSound, Attached
  <2>1. CASE <<r, p>> \in db.attached
    <3>1. Sound(db, r, p)
      BY <1>2, <2>1 DEF PermissionsInv, AttachedSound, Attached
    <3> QED  BY <1>3, <3>1 DEF Sound, Live, CleanRows
  <2>2. CASE <<r, p>> = <<SuperAdmin, Named>>
    BY <1>1, <1>3, <2>2 DEF Sound, Live, CleanRows
  <2> QED  BY <1>3, <2>1, <2>2
<1> QED  BY <1>1, <1>2, <1>3, <1>4, <1>5, <1>6, <1>7, StartKeeps

LEMMA PickPrimaryStep ==
  ASSUME PermissionsInv, NEW p \in Policies, PickPrimary(p)
  PROVE  PermissionsInv'
<1> DEFINE row == [db.policy[p] EXCEPT !.system = TRUE]
           granted == UNION {db.policy[x].codes : x \in {y \in Attached(db, SuperAdmin) : Live(db, y)}}
<1>1. /\ process.at = "attaching" /\ db' = [db EXCEPT !.policy[p] = row]
      /\ call' = call /\ suspect' = suspect /\ Live(db, p) /\ <<SuperAdmin, p>> \in db.attached
      /\ process' = [process EXCEPT !.at = "granting", !.primary = p, !.todo = Resources,
                                    !.granted = granted]
  BY DEF PickPrimary, Saves, Attached
<1>2. row \in PolicyRow /\ row.state = db.policy[p].state /\ row.codes = db.policy[p].codes
  BY Kinds DEF Database, PolicyRow
<1> HIDE DEF row
<1>3. /\ db'.attached = db.attached /\ db'.inline = db.inline /\ db'.definition = db.definition
      /\ db'.policy[p] = row /\ \A o \in Policies \ {p} : db'.policy[o] = db.policy[o]
      /\ db' \in Database
  BY <1>1, <1>2, Kinds DEF Database
<1>4. granted \subseteq Owned(db, SuperAdmin) /\ granted \subseteq Codes
  <2>1. granted \subseteq Owned(db, SuperAdmin)
    BY DEF Owned
  <2>2. \A x \in Policies : db.policy[x].codes \subseteq Codes
    BY Kinds DEF Database, PolicyRow
  <2> QED  BY <2>1, <2>2 DEF Attached
<1> HIDE DEF granted
<1>5. /\ process'.at = "granting" /\ process'.primary = p /\ process'.todo = Resources
      /\ process'.granted = granted
  BY <1>1 DEF PermissionsInv, PermissionsTypeOK
<1>6. PermissionsTypeOK'
  <2>1. process' \in [at: Phases, primary: Policies, granted: SUBSET Codes,
                      todo: SUBSET Resources, changed: BOOLEAN, synced: BOOLEAN,
                      starts: 0..MaxStarts]
    BY <1>1, <1>4 DEF PermissionsInv, PermissionsTypeOK, Phases
  <2> QED  BY <1>1, <1>3, <2>1 DEF PermissionsInv, PermissionsTypeOK
<1>7. ForeignKey'
  BY <1>2, <1>3, Kinds DEF ForeignKey, Database
<1>8. \A r : Owned(db, r) \subseteq Owned(db', r)
  BY <1>1, <1>2, Kinds, PolicyGrows DEF Live
<1>9. StartHalfway'
  BY <1>1, <1>2, <1>3, <1>4, <1>5, <1>8 DEF StartHalfway, Live
<1>10. Decidable'
  <2> SUFFICES ASSUME NEW r \in Roles, r \notin suspect PROVE Decides(db', r)
    BY <1>1 DEF Decidable
  <2>1. Decides(db, r)
    BY DEF PermissionsInv, Decidable
  <2> QED  BY <1>3, <1>8, <2>1, MoreDecides
<1>11. AttachedSound'
  <2> SUFFICES ASSUME NEW r \in Roles, NEW o \in Attached(db, r) \ suspect
               PROVE  Sound(db', r, o)
    BY <1>1, <1>3 DEF AttachedSound, Attached
  <2>1. Sound(db, r, o)
    BY DEF PermissionsInv, AttachedSound
  <2> QED  BY <1>2, <1>3, <2>1 DEF Sound, Live, CleanRows, Attached
<1> QED  BY <1>1, <1>3, <1>6, <1>7, <1>9, <1>10, <1>11, StartKeeps

LEMMA GrantResourceStep ==
  ASSUME PermissionsInv, NEW res \in Resources, GrantResource(res)
  PROVE  PermissionsInv'
<1> DEFINE p == process.primary
           row == [db.policy[p] EXCEPT !.codes = @ \cup Missing(res)]
<1>1. /\ process.at = "granting" /\ db' = [db EXCEPT !.policy[p] = row]
      /\ call' = call /\ suspect' = suspect
      /\ process' = [process EXCEPT !.todo = @ \ {res},
                                    !.changed = process.changed \/ Missing(res) # {}]
  BY DEF GrantResource, Saves
<1>2. p \in Policies /\ db.policy[p] \in PolicyRow /\ Missing(res) \subseteq Codes \ Business
      /\ Missing(res) = Grantable(res) \ process.granted
  BY Kinds DEF PermissionsInv, PermissionsTypeOK, Database, Missing, Grantable
<1>3. /\ row \in PolicyRow /\ row.state = db.policy[p].state
      /\ row.codes = db.policy[p].codes \cup Missing(res)
  BY <1>2 DEF PolicyRow
<1> HIDE DEF row
<1>4. /\ db'.attached = db.attached /\ db'.inline = db.inline /\ db'.definition = db.definition
      /\ db'.policy[p] = row /\ \A o \in Policies \ {p} : db'.policy[o] = db.policy[o]
      /\ db' \in Database
  BY <1>1, <1>2, <1>3, Kinds DEF Database
<1>5. /\ process'.at = "granting" /\ process'.primary = p /\ process'.todo = process.todo \ {res}
      /\ process'.granted = process.granted
  BY <1>1 DEF PermissionsInv, PermissionsTypeOK
<1>6. PermissionsTypeOK'
  BY <1>1, <1>4 DEF PermissionsInv, PermissionsTypeOK
<1>7. ForeignKey'
  BY <1>3, <1>4, Kinds DEF ForeignKey, Database
<1>8. \A r : Owned(db, r) \subseteq Owned(db', r)
  BY <1>1, <1>2, <1>3, Kinds, PolicyGrows DEF Live
<1>9. StartHalfway'
  <2>1. /\ Live(db, p) /\ <<SuperAdmin, p>> \in db.attached
        /\ process.granted \ Business \subseteq Owned(db, SuperAdmin)
        /\ \A x \in Resources : x \in process.todo \/ Grantable(x) \subseteq Owned(db, SuperAdmin)
    BY <1>1 DEF PermissionsInv, StartHalfway
  <2>2. Live(db', p) /\ <<SuperAdmin, p>> \in db'.attached
    BY <1>3, <1>4, <2>1 DEF Live
  <2>3. Missing(res) \subseteq Owned(db', SuperAdmin)
    BY <1>2, <1>3, <1>4, <2>2, OwnedIs
  <2>4. Grantable(res) \cap Business = {}
    BY DEF Grantable
  <2>5. Grantable(res) \subseteq Owned(db', SuperAdmin)
    BY <1>2, <1>8, <2>1, <2>3, <2>4
  <2>6. \A x \in Resources : x \in process'.todo \/ Grantable(x) \subseteq Owned(db', SuperAdmin)
    BY <1>5, <1>8, <2>1, <2>5
  <2>7. process'.granted \ Business \subseteq Owned(db', SuperAdmin)
    BY <1>5, <1>8, <2>1
  <2> QED  BY <1>5, <2>2, <2>6, <2>7 DEF StartHalfway
<1>10. Decidable'
  <2> SUFFICES ASSUME NEW r \in Roles, r \notin suspect PROVE Decides(db', r)
    BY <1>1 DEF Decidable
  <2>1. Decides(db, r)
    BY DEF PermissionsInv, Decidable
  <2> QED  BY <1>4, <1>8, <2>1, MoreDecides
<1>11. AttachedSound'
  <2> SUFFICES ASSUME NEW r \in Roles, NEW o \in Attached(db, r) \ suspect
               PROVE  Sound(db', r, o)
    BY <1>1, <1>4 DEF AttachedSound, Attached
  <2>1. Sound(db, r, o)
    BY DEF PermissionsInv, AttachedSound
  <2>2. CASE o = p
    BY <1>2, <1>3, <1>4, <2>1, <2>2 DEF Sound, Live, CleanRows
  <2>3. CASE o # p
    BY <1>4, <2>1, <2>3 DEF Sound, Live, CleanRows, Attached
  <2> QED  BY <2>2, <2>3
<1> QED  BY <1>1, <1>4, <1>6, <1>7, <1>9, <1>10, <1>11, StartKeeps

LEMMA BeginStripStep ==
  ASSUME PermissionsInv, BeginStrip
  PROVE  PermissionsInv'
<1>1. /\ process.at = "granting" /\ process.todo = {}
      /\ process' = [process EXCEPT !.at = "stripping", !.todo = Resources]
      /\ db' = db /\ call' = call /\ suspect' = suspect
  BY DEF BeginStrip
<1>2. /\ process'.at = "stripping" /\ process'.primary = process.primary
      /\ process'.todo = Resources /\ process'.granted = process.granted
  BY <1>1 DEF PermissionsInv, PermissionsTypeOK
<1>3. PermissionsTypeOK'
  BY <1>1 DEF PermissionsInv, PermissionsTypeOK, Phases
<1>4. StartHalfway'
  <2>1. \A c \in db.policy[process.primary].codes : ResourceOf[c] \in Resources
    BY PermissionsAssumption, Kinds DEF PermissionsInv, PermissionsTypeOK, Database, PolicyRow
  <2> QED  BY <1>1, <1>2, <2>1 DEF PermissionsInv, StartHalfway
<1>5. ForeignKey' /\ Decidable' /\ AttachedSound'
  BY <1>1 DEF PermissionsInv, ForeignKey, Decidable, AttachedSound
<1> QED  BY <1>1, <1>3, <1>4, <1>5, StartKeeps

LEMMA StripResourceStep ==
  ASSUME PermissionsInv, NEW res \in Resources, StripResource(res)
  PROVE  PermissionsInv'
<1> DEFINE p == process.primary
           out == {c \in db.policy[p].codes \cap Business : ResourceOf[c] = res}
           row == [db.policy[p] EXCEPT !.codes = @ \ out]
<1>1. /\ process.at = "stripping" /\ db' = [db EXCEPT !.policy[p] = row] /\ call' = call
      /\ process' = [process EXCEPT !.todo = @ \ {res}, !.changed = process.changed \/ out # {}]
      /\ suspect' = IF out = {} THEN suspect ELSE suspect \cup (Holders(db, p) \ {SuperAdmin})
  BY DEF StripResource, Saves
<1>2. p \in Policies /\ db.policy[p] \in PolicyRow /\ out \subseteq Business
      /\ \A c \in db.policy[p].codes \cap Business : ResourceOf[c] = res => c \in out
  BY Kinds DEF PermissionsInv, PermissionsTypeOK, Database
<1>3. /\ row \in PolicyRow /\ row.state = db.policy[p].state
      /\ row.codes = db.policy[p].codes \ out
  BY <1>2 DEF PolicyRow
<1> HIDE DEF row, out
<1>4. /\ db'.attached = db.attached /\ db'.inline = db.inline /\ db'.definition = db.definition
      /\ db'.policy[p] = row /\ \A o \in Policies \ {p} : db'.policy[o] = db.policy[o]
      /\ db' \in Database
  BY <1>1, <1>2, <1>3, Kinds DEF Database
<1>5. /\ process'.at = "stripping" /\ process'.primary = p /\ process'.todo = process.todo \ {res}
      /\ process'.granted = process.granted
  BY <1>1 DEF PermissionsInv, PermissionsTypeOK
<1>6. suspect \subseteq suspect' /\ suspect' \subseteq Things
  BY <1>1, Kinds DEF Holders
<1>7. PermissionsTypeOK'
  <2>1. (out # {}) \in BOOLEAN
    OBVIOUS
  <2> QED  BY <1>1, <1>4, <1>6, <2>1 DEF PermissionsInv, PermissionsTypeOK
<1>8. ForeignKey'
  BY <1>3, <1>4, Kinds DEF ForeignKey, Database
\* Whoever holds the policy loses business codes only, and nobody else loses any.
<1>9. ASSUME NEW r, NEW x \in Owned(db, r), x \notin out \/ <<r, p>> \notin db.attached
      PROVE  x \in Owned(db', r)
  <2>1. CASE \E o \in Policies : <<r, o>> \in db.attached /\ Live(db, o) /\ x \in db.policy[o].codes
    <3>1. PICK o \in Policies : <<r, o>> \in db.attached /\ Live(db, o) /\ x \in db.policy[o].codes
      BY <2>1
    <3>2. <<r, o>> \in db'.attached /\ Live(db', o) /\ x \in db'.policy[o].codes
      <4>1. CASE o = p
        BY <1>3, <1>4, <1>9, <3>1, <4>1 DEF Live
      <4>2. CASE o # p
        BY <1>4, <3>1, <4>2 DEF Live
      <4> QED  BY <4>1, <4>2
    <3> QED  BY <3>2, OwnedIs
  <2>2. CASE \E i \in Inlines : db.inline[i].live /\ InlineOf[i] = r /\ x \in db.inline[i].codes
    BY <1>4, <2>2, OwnedIs
  <2> QED  BY <1>9, <2>1, <2>2, OwnedIs
<1>10. StartHalfway'
  <2>1. /\ Live(db, p) /\ <<SuperAdmin, p>> \in db.attached
        /\ process.granted \ Business \subseteq Owned(db, SuperAdmin)
        /\ \A x \in Resources : Grantable(x) \subseteq Owned(db, SuperAdmin)
        /\ \A c \in db.policy[p].codes \cap Business : ResourceOf[c] \in process.todo
    BY <1>1 DEF PermissionsInv, StartHalfway
  <2>2. Live(db', p) /\ <<SuperAdmin, p>> \in db'.attached
    BY <1>3, <1>4, <2>1 DEF Live
  <2>3. Owned(db, SuperAdmin) \ Business \subseteq Owned(db', SuperAdmin)
    BY <1>2, <1>9
  <2>4. process'.granted \ Business \subseteq Owned(db', SuperAdmin)
    BY <1>5, <2>1, <2>3
  <2>5. \A x \in Resources : Grantable(x) \subseteq Owned(db', SuperAdmin)
    BY <2>1, <2>3 DEF Grantable
  <2>6. \A c \in db'.policy[p].codes \cap Business : ResourceOf[c] \in process'.todo
    BY <1>2, <1>3, <1>4, <1>5, <2>1
  <2> QED  BY <1>5, <2>2, <2>4, <2>5, <2>6 DEF StartHalfway
<1>11. Decidable'
  <2> SUFFICES ASSUME NEW r \in Roles, r \notin suspect' PROVE Decides(db', r)
    BY DEF Decidable
  <2>1. Decides(db, r)
    BY <1>6 DEF PermissionsInv, Decidable
  <2>2. CASE r = SuperAdmin
    <3>1. \A x \in Definitions : ~ (db.definition[x].active /\ r \in db.definition[x].roles)
      BY <2>1, <2>2, EligibleIs DEF Decides
    <3> QED  BY <1>4, <3>1 DEF Decides
  <2>3. CASE r # SuperAdmin
    <3>1. out = {} \/ <<r, p>> \notin db.attached
      BY <1>1, <2>3 DEF Holders
    <3>2. Owned(db, r) \subseteq Owned(db', r)
      BY <1>9, <3>1
    <3> QED  BY <1>4, <2>1, <3>2, MoreDecides
  <2> QED  BY <2>2, <2>3
<1>12. AttachedSound'
  <2> SUFFICES ASSUME NEW r \in Roles, NEW o \in Attached(db, r) \ suspect
               PROVE  Sound(db', r, o)
    BY <1>4, <1>6 DEF AttachedSound, Attached
  <2>1. Sound(db, r, o)
    BY DEF PermissionsInv, AttachedSound
  <2>2. CASE o = p
    BY <1>3, <1>4, <2>1, <2>2 DEF Sound, Live, CleanRows
  <2>3. CASE o # p
    BY <1>4, <2>1, <2>3 DEF Sound, Live, CleanRows, Attached
  <2> QED  BY <2>2, <2>3
<1> QED  BY <1>1, <1>4, <1>6, <1>7, <1>8, <1>10, <1>11, <1>12, StartKeeps

\* What the synchronisation has reached when it ends.
LEMMA SyncedReaches ==
  ASSUME PermissionsInv, Synced
  PROVE  Covered(db) /\ CleanRows(db, process.primary) /\ Live(db, process.primary)
<1>1. process.at = "stripping" /\ process.todo = {}
  BY DEF Synced
<1>2. /\ Live(db, process.primary)
      /\ \A res \in Resources : Grantable(res) \subseteq Owned(db, SuperAdmin)
      /\ db.policy[process.primary].codes \cap Business = {}
  BY <1>1 DEF PermissionsInv, StartHalfway
<1>3. \A res \in Resources : Grantable(res) \subseteq Granted(db, SuperAdmin)
  BY <1>2 DEF Granted, Grantable
<1> QED  BY <1>2, <1>3 DEF Covered, CleanRows

LEMMA SyncedStep ==
  ASSUME PermissionsInv, Synced
  PROVE  PermissionsInv'
<1>1. /\ process.at = "stripping" /\ process' = [process EXCEPT !.at = "up", !.synced = TRUE]
      /\ suspect' = suspect \ {process.primary} /\ db' = db /\ call' = call
  BY DEF Synced
<1>2. process'.at = "up" /\ process.primary \in Policies
  BY <1>1 DEF PermissionsInv, PermissionsTypeOK
<1>3. PermissionsTypeOK'
  BY <1>1 DEF PermissionsInv, PermissionsTypeOK, Phases
<1>4. ForeignKey' /\ Decidable' /\ StartHalfway'
  BY <1>1, <1>2, Kinds DEF PermissionsInv, ForeignKey, Decidable, StartHalfway
<1>5. AttachedSound'
  <2> SUFFICES ASSUME NEW r \in Roles, NEW o \in Attached(db, r), o \notin suspect \ {process.primary}
               PROVE  Sound(db, r, o)
    BY <1>1 DEF AttachedSound
  <2>1. CASE o = process.primary
    BY <2>1, SyncedReaches DEF Sound
  <2>2. CASE o # process.primary
    BY <2>2 DEF PermissionsInv, AttachedSound
  <2> QED  BY <2>1, <2>2
<1>6. Types \cap suspect \subseteq suspect'
  BY <1>1, <1>2, Kinds
<1> QED  BY <1>1, <1>3, <1>4, <1>5, <1>6, StartKeeps

LEMMA StartFailsStep ==
  ASSUME PermissionsInv, StartFails
  PROVE  PermissionsInv'
<1>1. /\ process.at # "up" /\ process' = [process EXCEPT !.at = "up", !.synced = FALSE]
      /\ db' = db /\ call' = call /\ suspect' = suspect
  BY DEF StartFails, Starting
<1>2. process'.at = "up"
  BY <1>1 DEF PermissionsInv, PermissionsTypeOK
<1>3. PermissionsTypeOK'
  BY <1>1 DEF PermissionsInv, PermissionsTypeOK, Phases
<1>4. ForeignKey' /\ Decidable' /\ AttachedSound' /\ StartHalfway'
  BY <1>1, <1>2 DEF PermissionsInv, ForeignKey, Decidable, AttachedSound, StartHalfway
<1> QED  BY <1>1, <1>3, <1>4, StartKeeps

LEMMA DiesStep ==
  ASSUME PermissionsInv, Dies
  PROVE  PermissionsInv'
<1>1. /\ process' = [NoProcess EXCEPT !.starts = process.starts]
      /\ call' = [q \in Changes |-> IF call[q] = New THEN New ELSE Answered]
      /\ db' = db /\ suspect' = suspect
  BY DEF Dies
<1>2. process'.at = "down"
  BY <1>1 DEF NoProcess
<1>3. PermissionsTypeOK'
  BY <1>1, PermissionsAssumption DEF PermissionsInv, PermissionsTypeOK, NoProcess, Phases
<1>4. \A q \in Changes : call'[q] \in {New, Answered}
  BY <1>1
<1>5. ForeignKey' /\ Decidable' /\ Unambiguous' /\ AttachedSound' /\ StartHalfway'
  BY <1>1, <1>2 DEF PermissionsInv, ForeignKey, Decidable, Unambiguous, AttachedSound, StartHalfway
<1>6. Settled' /\ AllStand'
  BY <1>4 DEF Settled, AllStand
<1> QED  BY <1>3, <1>5, <1>6 DEF PermissionsInv

LEMMA PermissionsInitially ==
  ASSUME PermissionsInit
  PROVE  PermissionsInv
<1>1. db \in Database /\ ForeignKey
  BY PermissionsAssumption DEF PermissionsInit, ForeignKey
<1>2. suspect = Wrong(db) /\ process = NoProcess /\ call = [q \in Changes |-> New]
  BY DEF PermissionsInit
<1>3. process.at = "down"
  BY <1>2 DEF NoProcess
<1>4. Wrong(db) \subseteq Things
  BY DEF Wrong, Things
<1>5. PermissionsTypeOK
  BY <1>1, <1>2, <1>4, PermissionsAssumption DEF PermissionsTypeOK, NoProcess, Phases
<1>6. Settled /\ AllStand /\ StartHalfway
  BY <1>2, <1>3 DEF Settled, AllStand, StartHalfway
<1>7. Decidable
  BY <1>2 DEF Decidable, Decides, Wrong
<1>8. Unambiguous
  BY <1>2 DEF Unambiguous, Wrong
<1>9. AttachedSound
  BY <1>2 DEF AttachedSound, Attached, Wrong
<1> QED  BY <1>1, <1>5, <1>6, <1>7, <1>8, <1>9 DEF PermissionsInv

LEMMA PermissionsStep ==
  ASSUME PermissionsInv, [PermissionsNext]_permissionsVars
  PROVE  PermissionsInv'
<1>1. CASE UNCHANGED permissionsVars
  <2>1. db' = db /\ process' = process /\ call' = call /\ suspect' = suspect
    BY <1>1 DEF permissionsVars
  <2>2. PermissionsTypeOK' /\ ForeignKey' /\ Settled' /\ AllStand' /\ StartHalfway'
    BY <2>1 DEF PermissionsInv, PermissionsTypeOK, ForeignKey, Settled, AllStand, StartHalfway
  <2>3. Decidable' /\ Unambiguous' /\ AttachedSound'
    BY <2>1 DEF PermissionsInv, Decidable, Unambiguous, AttachedSound
  <2> QED  BY <2>2, <2>3 DEF PermissionsInv
<1>2. CASE \E q \in Changes :
             PolicyRequest(q) \/ InlineRequest(q) \/ PublishRequest(q) \/ Refused(q)
  BY <1>2, RequestStep
<1>3. CASE Synchronise
  BY <1>3, StartStep, MakeNamedStep, AttachNamedStep, PickPrimaryStep, GrantResourceStep,
     StripResourceStep, BeginStripStep, SyncedStep, StartFailsStep, DiesStep DEF Synchronise
<1> QED  BY <1>1, <1>2, <1>3 DEF PermissionsNext

\* The inductive invariant of the permissions, for any databases to start from.
THEOREM PermissionsInvariant == PermissionsSpec => []PermissionsInv
<1>1. PermissionsInit => PermissionsInv
  BY PermissionsInitially
<1>2. PermissionsInv /\ [PermissionsNext]_permissionsVars => PermissionsInv'
  BY PermissionsStep
<1> QED  BY <1>1, <1>2, PTL DEF PermissionsSpec

\* Every row and request keeps its type.
THEOREM PermissionsTyped == PermissionsSpec => []PermissionsTypeOK
<1>1. PermissionsInv => PermissionsTypeOK
  BY DEF PermissionsInv
<1> QED  BY <1>1, PermissionsInvariant, PTL

\* Whoever detaches, edits, deletes or publishes, in whatever order: a role that a
\* level names can approve, unless two changes of it overlapped or the start took the
\* code (assertApproverEligibilityKept, assertLevels).
THEOREM LevelsDecidableHolds == PermissionsSpec => []LevelsDecidable
<1>1. ASSUME PermissionsInv PROVE LevelsDecidable
  <2> SUFFICES ASSUME NEW t \in Types, NEW x \in ActiveFor(db, t),
                      NEW r \in db.definition[x].roles, r \notin suspect
               PROVE  r \in Eligible(db, t)
    BY DEF LevelsDecidable
  <2>1. x \in Definitions /\ db.definition[x].active /\ db.definition[x].type = t
    BY DEF ActiveFor
  <2>2. db.definition[x] \in Definition
    BY <1>1, <2>1, Kinds DEF Database
  <2>3. r \in Roles
    BY <2>1, <2>2, ActiveIs
  <2> QED  BY <1>1, <2>1, <2>3 DEF PermissionsInv, Decidable, Decides
<1> QED  BY <1>1, PermissionsInvariant, PTL

\* At most one definition of a type is ACTIVE, unless two versions of it were
\* published at a time (publishNewVersion).
THEOREM OneActiveHolds == PermissionsSpec => []OneActive
<1>1. ASSUME PermissionsInv PROVE OneActive
  <2> SUFFICES ASSUME NEW t \in Types \ suspect PROVE Cardinality(ActiveFor(db, t)) <= 1
    BY DEF OneActive
  <2>1. \A x, y \in ActiveFor(db, t) : x = y
    BY <1>1 DEF PermissionsInv, Unambiguous
  <2>2. CASE ActiveFor(db, t) = {}
    BY <2>2, FS_EmptySet
  <2>3. CASE ActiveFor(db, t) # {}
    <3>1. PICK x : ActiveFor(db, t) = {x}
      BY <2>1, <2>3
    <3> QED  BY <3>1, FS_Singleton
  <2> QED  BY <2>2, <2>3
<1> QED  BY <1>1, PermissionsInvariant, PTL

\* No policy attached to a role is deleted, and none of SUPER_ADMIN's lists a business
\* approval, unless an attachment overlapped an edit or a deletion, or it was so
\* already (attachPolicyToRole, updatePolicy, removePolicy, ensureAdminPolicyGrants).
THEOREM AttachedSoundHolds == PermissionsSpec => []AttachedSound
<1>1. PermissionsInv => AttachedSound
  BY DEF PermissionsInv
<1> QED  BY <1>1, PermissionsInvariant, PTL

\* A start that ends without an error leaves SUPER_ADMIN every code it may hold and its
\* system policy none it may not, whatever other starts left half done, whatever was
\* done to its policies, and whether or not the self-check looked
\* (ensureAdminPolicyGrants).
THEOREM StartCoversHolds == PermissionsSpec => StartCovers
<1> DEFINE Covers == ~ process.synced /\ process'.synced =>
                       Covered(db)' /\ CleanRows(db', process'.primary)
<1>1. ASSUME PermissionsInv, [PermissionsNext]_permissionsVars PROVE [Covers]_permissionsVars
  <2> SUFFICES ASSUME PermissionsNext, ~ process.synced, process'.synced
               PROVE  Covered(db)' /\ CleanRows(db', process'.primary)
    BY <1>1
  <2>1. CASE Synced
    <3>1. Covered(db) /\ CleanRows(db, process.primary)
      BY <1>1, <2>1, SyncedReaches
    <3>2. db' = db /\ process'.primary = process.primary
      BY <1>1, <2>1 DEF Synced, PermissionsInv, PermissionsTypeOK
    <3> QED  BY <3>1, <3>2 DEF Covered, Granted, Owned, Attached, Live, CleanRows
  <2>2. CASE process'.synced = process.synced \/ process'.synced = FALSE
    BY <2>2
  <2>3. Synced \/ process'.synced = process.synced \/ process'.synced = FALSE
    <3>1. ASSUME \E q \in Changes :
                   PolicyRequest(q) \/ InlineRequest(q) \/ PublishRequest(q) \/ Refused(q)
          PROVE  process' = process
      <4>1. ASSUME NEW q \in Changes, NEW c, Load(q, c) PROVE process' = process
        BY <4>1 DEF Load
      <4>2. ASSUME NEW q \in Changes, NEW new, NEW ts, NEW since, Commit(q, new, ts, since)
            PROVE  process' = process
        BY <4>2 DEF Commit
      <4>3. ASSUME NEW q \in Changes, PolicyRequest(q) PROVE process' = process
        BY <4>1, <4>2, <4>3 DEF PolicyRequest, CreatePolicy, LoadEdit, LoadAttach, LoadDetach,
           LoadRemove, CommitAttach, CheckDetach, CommitDetach, CheckEdit, CommitEdit, CommitRemove
      <4>4. ASSUME NEW q \in Changes, InlineRequest(q) PROVE process' = process
        BY <4>1, <4>2, <4>4 DEF InlineRequest, CreateInline, LoadEditInline, CheckRemoveInline,
           CheckEditInline, CommitEditInline, CommitRemoveInline
      <4>5. ASSUME NEW q \in Changes, PublishRequest(q) \/ Refused(q) PROVE process' = process
        BY <4>1, <4>2, <4>5 DEF PublishRequest, Refused, LoadPublish, FindPrevious, CommitPublish
      <4> QED  BY <3>1, <4>3, <4>4, <4>5
    <3>2. ASSUME Synchronise, ~ Synced
          PROVE  process'.synced = process.synced \/ process'.synced = FALSE
      BY <1>1, <3>2 DEF Synchronise, Start, MakeNamed, AttachNamed, PickPrimary, GrantResource,
         StripResource, BeginStrip, StartFails, Dies, NoProcess, PermissionsInv, PermissionsTypeOK
    <3> QED  BY <3>1, <3>2 DEF PermissionsNext
  <2> QED  BY <2>1, <2>2, <2>3
<1> QED  BY <1>1, PermissionsInvariant, PTL DEF PermissionsSpec, StartCovers

===============================================================================
