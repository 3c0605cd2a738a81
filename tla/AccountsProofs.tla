--------------------------- MODULE AccountsProofs ---------------------------
(***************************************************************************)
(* Proofs about Accounts, for every set of accounts, roles, addresses and  *)
(* requests: the invariant, then the three action properties, each of      *)
(* which a step can only disturb in its commit.  Then about Registrations, *)
(* for every set of registration requests and callers: the invariant while *)
(* at most one call of the staff and one payment of the customer are in    *)
(* flight on a request, step by step, and the two properties it implies.   *)
(***************************************************************************)
EXTENDS Accounts, Registrations, WellFoundedInduction, TLAPS

\* The release changes the address of other, deleted accounts and nothing else.
LEMMA ReleasedKeeps ==
  ASSUME TypeOK, NEW mail \in Emails, NEW u \in Users
  PROVE  /\ Released(mail, u) \in [Users -> Row]
         /\ Released(mail, u)[u] = users[u]
         /\ \A v \in Users :
              /\ Released(mail, u)[v].state = users[v].state
              /\ Released(mail, u)[v].active = users[v].active
              /\ Released(mail, u)[v].email \in {users[v].email, "tombstone"}
              /\ Live(v) => Released(mail, u)[v] = users[v]
BY DEF TypeOK, Released, Row, Live

\* A save writes a row.
LEMMA SavedIsRow ==
  ASSUME NEW row \in Row, NEW snap \in Row, NEW old \in Row, NEW edit \in Edit
  PROVE  /\ Entity(row, edit) \in Row
         /\ Saved(Entity(row, edit), snap, old) \in Row
<1>1. Entity(row, edit) \in Row
  BY AccountsAssumption DEF Entity, Row, Edit
<1>2. QED
  BY <1>1 DEF Saved, Row

LEMMA InitInv == Init => IInv
BY AccountsAssumption DEF Init, IInv, TypeOK, UniqueEmails, RequestsConsistent

\* The steps that write no table: what a request keeps is of the right type.
LEMMA AskInv ==
  ASSUME IInv, NEW q \in Requests, Asks(q)
  PROVE  IInv'
<1>1. PICK op \in Ops, a \in Users, u \in Users, rs \in SUBSET Roles, e \in Edit :
        /\ Ask(q, op, a, u, rs, e)
        /\ op = "create" => rs # {} /\ e.email # "keep"
  <2>1. PICK a \in Users :
          \/ \E e \in Edits, rs \in (SUBSET Roles) \ {{}} :
               e.email # "keep" /\ Ask(q, "create", a, a, rs, e)
          \/ \E u \in Users :
               \/ \E e \in Edits : Ask(q, "update", a, u, {}, e)
               \/ \E rs \in (SUBSET Roles) \ {{}} : Ask(q, "addRoles", a, u, rs, KeepAll)
               \/ \E r \in Roles : Ask(q, "removeRole", a, u, {r}, KeepAll)
               \/ Ask(q, "remove", a, u, {}, KeepAll)
          \/ \E r \in Roles, op \in {"editRole", "deleteRole"} : Ask(q, op, a, a, {r}, KeepAll)
    BY DEF Asks
  <2>2. KeepAll \in Edit /\ Edits \subseteq Edit
    BY AccountsAssumption DEF KeepAll, Edit
  <2>3. CASE \E e \in Edits, rs \in (SUBSET Roles) \ {{}} :
               e.email # "keep" /\ Ask(q, "create", a, a, rs, e)
    BY <2>2, <2>3 DEF Ops
  <2>4. CASE \E u \in Users, e \in Edits : Ask(q, "update", a, u, {}, e)
    BY <2>2, <2>4 DEF Ops
  <2>5. CASE \E u \in Users, rs \in SUBSET Roles :
               Ask(q, "addRoles", a, u, rs, KeepAll)
    BY <2>2, <2>5 DEF Ops
  <2>6. CASE \E u \in Users, r \in Roles : Ask(q, "removeRole", a, u, {r}, KeepAll)
    <3>1. PICK u \in Users, r \in Roles : Ask(q, "removeRole", a, u, {r}, KeepAll)
      BY <2>6
    <3>2. {r} \in SUBSET Roles /\ "removeRole" \in Ops /\ "removeRole" # "create"
      BY DEF Ops
    <3>3. QED
      BY <2>2, <3>1, <3>2
  <2>7. CASE \E u \in Users : Ask(q, "remove", a, u, {}, KeepAll)
    BY <2>2, <2>7 DEF Ops
  <2>8. CASE \E r \in Roles, op \in {"editRole", "deleteRole"} : Ask(q, op, a, a, {r}, KeepAll)
    <3>1. PICK r \in Roles, op \in {"editRole", "deleteRole"} : Ask(q, op, a, a, {r}, KeepAll)
      BY <2>8
    <3>2. {r} \in SUBSET Roles /\ op \in Ops /\ op # "create"
      BY DEF Ops
    <3>3. QED
      BY <2>2, <3>1, <3>2
  <2>9. QED
    BY <2>1, <2>3, <2>4, <2>5, <2>6, <2>7, <2>8
<1>2. TypeOK'
  <2>1. [op |-> op, at |-> IF op \in {"update", "editRole"} THEN "load" ELSE "check",
         actor |-> a, super |-> SuperAdmin \in Held(a), user |-> u, roles |-> rs,
         edit |-> e, row |-> NoRow, snap |-> NoRow, heldSnap |-> {},
         roleSnap |-> "live"] \in Call
    BY DEF Call, NoRow, Row
  <2>2. QED
    BY <1>1, <2>1 DEF Ask, IInv, TypeOK
<1>3. UniqueEmails'
  BY <1>1 DEF Ask, IInv, UniqueEmails
<1>4. RequestsConsistent'
  BY <1>1 DEF Ask, IInv, TypeOK, RequestsConsistent
<1>5. QED
  BY <1>2, <1>3, <1>4 DEF IInv

\* A request goes on to a later step, and may remember a row, a set of roles or the
\* state of a role.
LEMMA CallInv ==
  ASSUME IInv, NEW q \in Requests, UNCHANGED <<users, held, roles>>,
         \/ End(q)
         \/ /\ call[q] \in Call
            /\ \E y \in Call :
                 /\ call' = [call EXCEPT ![q] = y]
                 /\ y.op = call[q].op /\ y.roles = call[q].roles
                 /\ y.edit = call[q].edit /\ y.user = call[q].user
                 /\ y.op = "update" =>
                      \/ /\ call[q].at # "load" /\ y.row = call[q].row
                      \/ /\ y.row = users[call[q].user] /\ Live(call[q].user)
         
  PROVE  IInv'
<1>1. TypeOK'
  BY DEF IInv, TypeOK, End
<1>2. UniqueEmails'
  BY DEF IInv, UniqueEmails
<1>3. RequestsConsistent'
  <2> SUFFICES ASSUME NEW p \in Requests, call'[p] \notin {New, Ended}
               PROVE  /\ call'[p].op = "create" =>
                           call'[p].roles # {} /\ call'[p].edit.email # "keep"
                      /\ call'[p].op = "update" /\ call'[p].at # "load" =>
                           /\ call'[p].row.state = "live"
                           /\ users[call'[p].user].state # "none"
    BY DEF RequestsConsistent
  <2>1. CASE p # q
    BY <2>1 DEF IInv, TypeOK, RequestsConsistent, End
  <2>2. CASE p = q /\ End(q)
    BY <2>2 DEF IInv, TypeOK, End
  <2>3. CASE p = q /\ ~ End(q)
    <3>1. PICK y \in Call :
            /\ call[q] \in Call
            /\ call' = [call EXCEPT ![q] = y]
            /\ y.op = call[q].op /\ y.roles = call[q].roles
            /\ y.edit = call[q].edit /\ y.user = call[q].user
            /\ y.op = "update" =>
                 \/ call[q].at # "load" /\ y.row = call[q].row
                 \/ y.row = users[call[q].user] /\ Live(call[q].user)
      BY <2>3
    <3>2. call'[p] = y
      BY <3>1, <2>3 DEF IInv, TypeOK
    <3>3. call[q] \notin {New, Ended}
      BY <3>1 DEF Call, New, Ended
    <3>4. QED
      BY <3>1, <3>2, <3>3 DEF IInv, RequestsConsistent, Live
  <2>4. QED
    BY <2>1, <2>2, <2>3
<1>4. QED
  BY <1>1, <1>2, <1>3 DEF IInv

\* The steps that leave the tables alone.
LEMMA ReadingStepsInv ==
  ASSUME IInv, NEW q \in Requests,
         \/ CreateChecks(q) \/ UpdateLoads(q) \/ UpdateChecks(q) \/ UpdateBegins(q)
         \/ AddRolesChecks(q) \/ AddRolesBegins(q) \/ RemoveRoleChecks(q)
         \/ RemoveRoleBegins(q) \/ RemoveChecks(q) \/ EditRoleLoads(q)
         \/ EditRoleBegins(q) \/ DeleteRoleChecks(q) \/ Refused(q)
  PROVE  IInv'
<1> USE DEF At, Goto
<1>1. ASSUME call[q] \notin {New, Ended}
      PROVE  call[q] \in Call
  BY <1>1 DEF IInv, TypeOK
<1>2. ASSUME call[q] \in Call, NEW step \in {"begin", "commit"}, Goto(q, step),
             call[q].at # "load" \/ call[q].op # "update",
             UNCHANGED <<users, held, roles>>
      PROVE  IInv'
  <2> DEFINE y == [call[q] EXCEPT !.at = step]
  <2>1. /\ y \in Call /\ y.op = call[q].op /\ y.roles = call[q].roles
        /\ y.edit = call[q].edit /\ y.user = call[q].user /\ y.row = call[q].row
    BY <1>2 DEF Call
  <2>2. call' = [call EXCEPT ![q] = y]
    BY <1>2 DEF Goto
  <2>3. QED
    BY <1>2, <2>1, <2>2, CallInv
<1>3. CASE CreateChecks(q)
  BY <1>1, <1>2, <1>3 DEF CreateChecks
<1>4. CASE UpdateLoads(q)
  <2> DEFINE y == [call[q] EXCEPT !.at = "check", !.row = users[call[q].user]]
  <2>1. call[q] \in Call
    BY <1>1, <1>4 DEF UpdateLoads
  <2>2. /\ y \in Call /\ y.op = call[q].op /\ y.roles = call[q].roles
        /\ y.edit = call[q].edit /\ y.user = call[q].user
        /\ y.row = users[call[q].user]
    BY <2>1 DEF Call, IInv, TypeOK
  <2>3. call' = [call EXCEPT ![q] = y] /\ Live(call[q].user)
        /\ UNCHANGED <<users, held, roles>>
    BY <1>4 DEF UpdateLoads
  <2>4. QED
    BY <2>1, <2>2, <2>3, CallInv
<1>5. CASE UpdateChecks(q)
  BY <1>1, <1>2, <1>5 DEF UpdateChecks
<1>6. CASE UpdateBegins(q)
  <2> DEFINE y == [call[q] EXCEPT !.at = "commit", !.snap = users[call[q].user]]
  <2>1. call[q] \in Call /\ call[q].at = "begin"
    BY <1>1, <1>6 DEF UpdateBegins
  <2>2. /\ y \in Call /\ y.op = call[q].op /\ y.roles = call[q].roles
        /\ y.edit = call[q].edit /\ y.user = call[q].user /\ y.row = call[q].row
    BY <2>1 DEF Call, IInv, TypeOK
  <2>3. call' = [call EXCEPT ![q] = y] /\ UNCHANGED <<users, held, roles>>
    BY <1>6 DEF UpdateBegins
  <2>4. QED
    BY <2>1, <2>2, <2>3, CallInv
<1>7. CASE AddRolesChecks(q)
  BY <1>1, <1>2, <1>7 DEF AddRolesChecks
<1>8. CASE AddRolesBegins(q) \/ RemoveRoleBegins(q)
  <2> DEFINE y == [call[q] EXCEPT !.at = "commit", !.heldSnap = Held(call[q].user)]
  <2>1. call[q] \in Call /\ call[q].op # "update"
    BY <1>1, <1>8 DEF AddRolesBegins, RemoveRoleBegins
  <2>2. /\ y \in Call /\ y.op = call[q].op /\ y.roles = call[q].roles
        /\ y.edit = call[q].edit /\ y.user = call[q].user
    BY <2>1 DEF Call, Held
  <2>3. call' = [call EXCEPT ![q] = y] /\ UNCHANGED <<users, held, roles>>
    BY <1>8 DEF AddRolesBegins, RemoveRoleBegins
  <2>4. QED
    BY <2>1, <2>2, <2>3, CallInv
<1>9. CASE RemoveRoleChecks(q)
  BY <1>1, <1>2, <1>9 DEF RemoveRoleChecks
<1>10. CASE RemoveChecks(q)
  BY <1>1, <1>2, <1>10 DEF RemoveChecks
<1>11. CASE EditRoleLoads(q)
  BY <1>1, <1>2, <1>11 DEF EditRoleLoads
<1>12. CASE EditRoleBegins(q)
  <2>1. PICK r \in call[q].roles :
          call' = [call EXCEPT ![q].at = "commit", ![q].roleSnap = roles[r]]
    BY <1>12 DEF EditRoleBegins
  <2> DEFINE y == [call[q] EXCEPT !.at = "commit", !.roleSnap = roles[r]]
  <2>2. call[q] \in Call /\ call[q].op # "update"
    BY <1>1, <1>12 DEF EditRoleBegins
  <2>3. r \in Roles /\ roles[r] \in {"live", "deleted"}
    BY <2>2 DEF Call, IInv, TypeOK
  <2>4. /\ y \in Call /\ y.op = call[q].op /\ y.roles = call[q].roles
        /\ y.edit = call[q].edit /\ y.user = call[q].user
    BY <2>2, <2>3 DEF Call
  <2>5. call' = [call EXCEPT ![q] = y] /\ UNCHANGED <<users, held, roles>>
    BY <1>12, <2>1 DEF EditRoleBegins
  <2>6. QED
    BY <2>2, <2>4, <2>5, CallInv
<1>13. CASE DeleteRoleChecks(q)
  BY <1>1, <1>2, <1>13 DEF DeleteRoleChecks
<1>14. CASE Refused(q)
  BY <1>14, CallInv DEF Refused
<1>15. QED
  BY <1>3, <1>4, <1>5, <1>6, <1>7, <1>8, <1>9, <1>10, <1>11, <1>12, <1>13, <1>14

\* A commit ends its request; no row disappears.
LEMMA EndedInv ==
  ASSUME IInv, NEW q \in Requests, End(q),
         \A u \in Users : users[u].state # "none" => users'[u].state # "none"
  PROVE  /\ call' \in [Requests -> {New, Ended} \cup Call]
         /\ RequestsConsistent'
<1>1. call' \in [Requests -> {New, Ended} \cup Call]
  BY DEF IInv, TypeOK, End
<1>2. \A p \in Requests : call'[p] \notin {New, Ended} => call'[p] = call[p] /\ call[p] \in Call
  BY DEF IInv, TypeOK, End
<1>3. \A c \in Call : c.user \in Users
  BY DEF Call
<1>4. QED
  BY <1>1, <1>2, <1>3 DEF IInv, RequestsConsistent

LEMMA CreateCommitsInv ==
  ASSUME IInv, NEW q \in Requests, CreateCommits(q)
  PROVE  IInv'
<1>1. call[q] \in Call /\ call[q].edit.email \in Emails /\ call[q].roles \subseteq Roles
  BY DEF CreateCommits, At, IInv, TypeOK, RequestsConsistent, Call, Edit
<1> DEFINE mail == call[q].edit.email
<1>2. PICK u \in Users :
        /\ users[u].state = "none"
        /\ \A v \in Users \ {u} : Released(mail, u)[v].email # mail
        /\ users' = [Released(mail, u) EXCEPT
                       ![u] = [state |-> "live", email |-> mail,
                               active |-> call[q].edit.active # "off"]]
        /\ held' = held \cup ({u} \X call[q].roles)
  BY DEF CreateCommits
<1>3. TypeOK
  BY DEF IInv
<1>4. /\ users' \in [Users -> Row]
      /\ \A v \in Users : users[v].state # "none" => users'[v].state # "none"
  BY <1>1, <1>2, <1>3, ReleasedKeeps DEF Row
<1>5. UniqueEmails'
  <2>1. \A v \in Users :
          /\ Released(mail, u)[v].email \in {users[v].email, "tombstone"}
          /\ v # u => users'[v] = Released(mail, u)[v]
    BY <1>1, <1>2, <1>3, ReleasedKeeps
  <2>2. users'[u].email = mail
    BY <1>1, <1>2, <1>3, ReleasedKeeps
  <2>3. "tombstone" \notin Emails
    BY AccountsAssumption
  <2>4. QED
    BY <1>2, <2>1, <2>2, <2>3 DEF IInv, UniqueEmails
<1>6. End(q) /\ roles' = roles
  BY DEF CreateCommits
<1>7. call' \in [Requests -> {New, Ended} \cup Call] /\ RequestsConsistent'
  BY <1>4, <1>6, EndedInv
<1>8. held' \subseteq Users \X Roles
  BY <1>1, <1>2 DEF IInv, TypeOK
<1>9. QED
  BY <1>4, <1>5, <1>6, <1>7, <1>8 DEF IInv, TypeOK

\* What the commit of an update writes.
LEMMA UpdateWrites ==
  ASSUME IInv, NEW q \in Requests, UpdateCommits(q),
         NEW u, u = call[q].user, NEW freed,
         freed = IF call[q].edit.email = "keep" THEN users ELSE Released(call[q].edit.email, u)
  PROVE  /\ call[q] \in Call /\ u \in Users
         /\ freed \in [Users -> Row] /\ freed[u] = users[u]
         /\ users[u].state # "none" /\ call[q].row.state = "live"
         /\ \A v \in Users :
              /\ freed[v].state = users[v].state /\ freed[v].active = users[v].active
              /\ freed[v].email \in {users[v].email, "tombstone"}
              /\ Live(v) => freed[v] = users[v]
         /\ Saved(Entity(call[q].row, call[q].edit), call[q].snap, users[u]) \in Row
         /\ users' = [freed EXCEPT
                        ![u] = Saved(Entity(call[q].row, call[q].edit), call[q].snap, users[u])]
         /\ \/ users'[u].email = "tombstone"
            \/ \A v \in Users \ {u} : freed[v].email # users'[u].email
<1>1. call[q] \in Call /\ u \in Users
  BY DEF UpdateCommits, At, IInv, TypeOK, Call
<1>2. users[u].state # "none" /\ call[q].row.state = "live"
  BY DEF UpdateCommits, At, IInv, RequestsConsistent
<1>3. /\ freed \in [Users -> Row] /\ freed[u] = users[u]
      /\ \A v \in Users :
           /\ freed[v].state = users[v].state /\ freed[v].active = users[v].active
           /\ freed[v].email \in {users[v].email, "tombstone"}
           /\ Live(v) => freed[v] = users[v]
  <2>1. CASE call[q].edit.email = "keep"
    BY <1>1, <2>1 DEF IInv, TypeOK
  <2>2. CASE call[q].edit.email # "keep"
    <3>1. call[q].edit.email \in Emails /\ TypeOK
      BY <1>1, <2>2 DEF Call, Edit, IInv
    <3>2. QED
      BY <1>1, <2>2, <3>1, ReleasedKeeps
  <2>3. QED
    BY <2>1, <2>2
<1>4. Saved(Entity(call[q].row, call[q].edit), call[q].snap, users[u]) \in Row
  BY <1>1, SavedIsRow DEF Call, IInv, TypeOK
<1>5. /\ users' = [freed EXCEPT
                    ![u] = Saved(Entity(call[q].row, call[q].edit), call[q].snap, users[u])]
      /\ \/ Saved(Entity(call[q].row, call[q].edit), call[q].snap, users[u]).email = "tombstone"
         \/ \A v \in Users \ {u} :
              freed[v].email #
                Saved(Entity(call[q].row, call[q].edit), call[q].snap, users[u]).email
  BY <1>3 DEF UpdateCommits
<1>6. QED
  BY <1>1, <1>2, <1>3, <1>4, <1>5

LEMMA UpdateCommitsInv ==
  ASSUME IInv, NEW q \in Requests, UpdateCommits(q)
  PROVE  IInv'
<1> DEFINE u == call[q].user
           freed == IF call[q].edit.email = "keep" THEN users
                    ELSE Released(call[q].edit.email, u)
           row == Saved(Entity(call[q].row, call[q].edit), call[q].snap, users[u])
<1>1. /\ call[q] \in Call /\ u \in Users /\ freed \in [Users -> Row]
      /\ users[u].state # "none" /\ call[q].row.state = "live"
      /\ \A v \in Users :
           /\ freed[v].state = users[v].state
           /\ freed[v].email \in {users[v].email, "tombstone"}
      /\ row \in Row /\ users' = [freed EXCEPT ![u] = row]
      /\ \/ users'[u].email = "tombstone"
         \/ \A v \in Users \ {u} : freed[v].email # users'[u].email
  BY UpdateWrites
<1> HIDE DEF freed, row
<1>2. row.state # "none"
  BY <1>1 DEF row, Saved, Entity
<1>3. /\ users' \in [Users -> Row]
      /\ \A v \in Users : users[v].state # "none" => users'[v].state # "none"
  BY <1>1, <1>2
<1>4. UniqueEmails'
  BY <1>1, AccountsAssumption DEF IInv, UniqueEmails
<1>5. End(q) /\ UNCHANGED <<held, roles>>
  BY DEF UpdateCommits
<1>6. call' \in [Requests -> {New, Ended} \cup Call] /\ RequestsConsistent'
  BY <1>3, <1>5, EndedInv
<1>7. QED
  BY <1>3, <1>4, <1>5, <1>6 DEF IInv, TypeOK

\* The commits that write other tables, or only delete.
LEMMA OtherCommitsInv ==
  ASSUME IInv, NEW q \in Requests,
         \/ AddRolesCommits(q) \/ RemoveRoleCommits(q) \/ RemoveCommits(q)
         \/ EditRoleCommits(q) \/ DeleteRoleCommits(q)
  PROVE  IInv'
<1>1. call[q] \in Call
  BY DEF AddRolesCommits, RemoveRoleCommits, RemoveCommits, EditRoleCommits,
         DeleteRoleCommits, At, IInv, TypeOK
<1>2. End(q)
  BY DEF AddRolesCommits, RemoveRoleCommits, RemoveCommits, EditRoleCommits,
         DeleteRoleCommits
<1>3. /\ users' \in [Users -> Row]
      /\ \A v \in Users :
           /\ users'[v].email = users[v].email
           /\ users[v].state # "none" => users'[v].state # "none"
  <2>1. CASE RemoveCommits(q)
    BY <1>1, <2>1 DEF RemoveCommits, IInv, TypeOK, Row
  <2>2. CASE ~ RemoveCommits(q)
    BY <2>2 DEF AddRolesCommits, RemoveRoleCommits, EditRoleCommits, DeleteRoleCommits,
                IInv, TypeOK
  <2>3. QED
    BY <2>1, <2>2
<1>4. held' \subseteq Users \X Roles
  BY <1>1 DEF AddRolesCommits, RemoveRoleCommits, RemoveCommits, EditRoleCommits,
              DeleteRoleCommits, IInv, TypeOK, Call
<1>5. roles' \in [Roles -> {"live", "deleted"}]
  BY DEF AddRolesCommits, RemoveRoleCommits, RemoveCommits, EditRoleCommits,
         DeleteRoleCommits, IInv, TypeOK
<1>6. call' \in [Requests -> {New, Ended} \cup Call] /\ RequestsConsistent'
  BY <1>2, <1>3, EndedInv
<1>7. UniqueEmails'
  BY <1>3 DEF IInv, UniqueEmails
<1>8. QED
  BY <1>3, <1>4, <1>5, <1>6, <1>7 DEF IInv, TypeOK

LEMMA NextInv == IInv /\ [Next]_vars => IInv'
<1> SUFFICES ASSUME IInv, [Next]_vars
             PROVE  IInv'
  OBVIOUS
<1>1. CASE UNCHANGED vars
  BY <1>1 DEF vars, IInv, TypeOK, UniqueEmails, RequestsConsistent
<1>2. ASSUME NEW q \in Requests, Asks(q) \/ Step(q)
      PROVE  IInv'
  BY <1>2, AskInv, ReadingStepsInv, CreateCommitsInv, UpdateCommitsInv, OtherCommitsInv
     DEF Step
<1>3. QED
  BY <1>1, <1>2 DEF Next

\* Accounts are of their type, no address is held twice, and a request writes what it
\* has read of a live account.
THEOREM InductiveInvariant == Spec => []IInv
<1>1. QED
  BY InitInv, NextInv, PTL DEF Spec

-----------------------------------------------------------------------------
\* Every step but a commit leaves the accounts and their roles alone.
LEMMA OnlyCommits ==
  ASSUME [Next]_vars
  PROVE  \/ UNCHANGED <<users, held>>
         \/ \E q \in Requests :
              \/ CreateCommits(q) \/ UpdateCommits(q) \/ AddRolesCommits(q)
              \/ RemoveRoleCommits(q) \/ RemoveCommits(q)
<1>1. CASE UNCHANGED vars
  BY <1>1 DEF vars
<1>2. ASSUME NEW q \in Requests, Asks(q)
      PROVE  UNCHANGED <<users, held>>
  BY <1>2 DEF Asks, Ask
<1>3. ASSUME NEW q \in Requests, Step(q)
      PROVE  \/ UNCHANGED <<users, held>>
             \/ CreateCommits(q) \/ UpdateCommits(q) \/ AddRolesCommits(q)
             \/ RemoveRoleCommits(q) \/ RemoveCommits(q)
  BY <1>3 DEF Step, CreateChecks, UpdateLoads, UpdateChecks, UpdateBegins, AddRolesChecks,
              AddRolesBegins, RemoveRoleChecks, RemoveRoleBegins, RemoveChecks,
              EditRoleLoads, EditRoleBegins, EditRoleCommits, DeleteRoleChecks,
              DeleteRoleCommits, Refused
<1>4. QED
  BY <1>1, <1>2, <1>3 DEF Next

\* What a creation does to the other accounts.
LEMMA CreateWrites ==
  ASSUME IInv, NEW q \in Requests, CreateCommits(q)
  PROVE  /\ call[q].roles # {} /\ call[q].roles \subseteq Roles
         /\ \E u \in Users :
              /\ users[u].state = "none"
              /\ \A v \in Users \ {u} :
                   /\ users'[v].state = users[v].state
                   /\ users'[v].active = users[v].active
                   /\ Live(v) => users'[v] = users[v]
              /\ held' = held \cup ({u} \X call[q].roles)
<1>1. /\ call[q].edit.email \in Emails /\ call[q].roles \subseteq Roles
      /\ call[q].roles # {} /\ TypeOK
  BY DEF CreateCommits, At, IInv, TypeOK, RequestsConsistent, Call, Edit
<1>2. PICK u \in Users :
        /\ users[u].state = "none"
        /\ users' = [Released(call[q].edit.email, u) EXCEPT
                       ![u] = [state |-> "live", email |-> call[q].edit.email,
                               active |-> call[q].edit.active # "off"]]
        /\ held' = held \cup ({u} \X call[q].roles)
  BY DEF CreateCommits
<1>3. QED
  BY <1>1, <1>2, ReleasedKeeps

\* The last role.
LEMMA RoleKept ==
  ASSUME IInv, [Next]_vars, NEW u \in Users,
         users'[u].state = "live", users[u].state # "deleted"
  PROVE  Held(u)' # {} \/ (Live(u) /\ Held(u) = {})
<1>1. CASE UNCHANGED <<users, held>>
  <2>1. users[u].state = "live" /\ Held(u)' = Held(u)
    BY <1>1 DEF Held
  <2>2. QED
    BY <2>1 DEF Live
<1>2. ASSUME NEW q \in Requests, CreateCommits(q)
      PROVE  Held(u)' # {} \/ (Live(u) /\ Held(u) = {})
  <2>1. PICK n \in Users :
          /\ users[n].state = "none"
          /\ \A v \in Users \ {n} : users'[v].state = users[v].state
          /\ held' = held \cup ({n} \X call[q].roles)
    BY <1>2, CreateWrites
  <2>2. call[q].roles # {} /\ call[q].roles \subseteq Roles
    BY <1>2, CreateWrites
  <2>3. CASE u = n
    BY <2>1, <2>2, <2>3 DEF Held
  <2>4. CASE u # n
    BY <2>1, <2>4 DEF Held, Live
  <2>5. QED
    BY <2>3, <2>4
<1>3. ASSUME NEW q \in Requests, UpdateCommits(q)
      PROVE  Held(u)' # {} \/ (Live(u) /\ Held(u) = {})
  <2> DEFINE w == call[q].user
             freed == IF call[q].edit.email = "keep" THEN users
                      ELSE Released(call[q].edit.email, w)
             row == Saved(Entity(call[q].row, call[q].edit), call[q].snap, users[w])
  <2>1. /\ users[w].state # "none" /\ w \in Users /\ freed \in [Users -> Row]
        /\ users' = [freed EXCEPT ![w] = row]
        /\ \A v \in Users : freed[v].state = users[v].state
    BY <1>3, UpdateWrites
  <2> HIDE DEF freed, row
  <2>2. users[u].state \in {"live", "none", "deleted"}
    BY DEF IInv, TypeOK, Row
  <2>3. users[u].state = "live"
    BY <2>1, <2>2
  <2>4. Held(u)' = Held(u)
    BY <1>3 DEF UpdateCommits, Held
  <2>5. QED
    BY <2>3, <2>4 DEF Live
<1>4. ASSUME NEW q \in Requests, AddRolesCommits(q)
      PROVE  Held(u)' # {} \/ (Live(u) /\ Held(u) = {})
  BY <1>4 DEF AddRolesCommits, Held, Live
<1>5. ASSUME NEW q \in Requests, RemoveRoleCommits(q)
      PROVE  Held(u)' # {} \/ (Live(u) /\ Held(u) = {})
  <2>1. PICK r \in call[q].roles :
          /\ Held(call[q].user) \ {r} # {}
          /\ held' = held \ {<<call[q].user, r>>}
    BY <1>5 DEF RemoveRoleCommits
  <2>2. Live(u)
    BY <1>5 DEF RemoveRoleCommits, Live
  <2>3. CASE u = call[q].user
    <3>1. PICK s \in Held(u) : s # r
      BY <2>1, <2>3
    <3>2. s \in Held(u)'
      BY <2>1, <3>1 DEF Held
    <3>3. QED
      BY <3>2
  <2>4. CASE u # call[q].user
    BY <2>1, <2>2, <2>4 DEF Held
  <2>5. QED
    BY <2>3, <2>4
<1>6. ASSUME NEW q \in Requests, RemoveCommits(q)
      PROVE  Held(u)' # {} \/ (Live(u) /\ Held(u) = {})
  <2>1. /\ users' = [users EXCEPT ![call[q].user].state = "deleted"]
        /\ held' = {h \in held : h[1] # call[q].user}
    BY <1>6 DEF RemoveCommits
  <2>2. u # call[q].user
    BY <2>1 DEF IInv, TypeOK, Row
  <2>3. users[u].state = "live"
    BY <2>1, <2>2 DEF IInv, TypeOK
  <2>4. \A r \in Roles : <<u, r>> \in held' <=> <<u, r>> \in held
    BY <2>1, <2>2
  <2>5. QED
    BY <2>3, <2>4 DEF Held, Live
<1>7. QED
  BY <1>1, <1>2, <1>3, <1>4, <1>5, <1>6, OnlyCommits

\* The last administrator.
LEMMA AdminLost ==
  ASSUME IInv, [Next]_vars, Admins # {}, Admins' = {}
  PROVE  \E q \in Requests :
           /\ At(q, "update", "commit") /\ Admins = {call[q].user}
           /\ ~ call[q].row.active /\ call[q].snap.active
<1> SUFFICES ASSUME \A q \in Requests :
                      ~ /\ At(q, "update", "commit") /\ Admins = {call[q].user}
                        /\ ~ call[q].row.active /\ call[q].snap.active
             PROVE  Admins' # {}
  OBVIOUS
<1>1. CASE UNCHANGED <<users, held>>
  <2>1. Admins' = Admins
    BY <1>1 DEF Admins, Live, Held
  <2>2. QED
    BY <2>1
<1>2. ASSUME NEW q \in Requests, CreateCommits(q)
      PROVE  Admins' # {}
  <2>1. PICK n \in Users :
          /\ users[n].state = "none"
          /\ \A v \in Users \ {n} : Live(v) => users'[v] = users[v]
          /\ held' = held \cup ({n} \X call[q].roles)
    BY <1>2, CreateWrites
  <2>2. PICK a \in Admins : TRUE
    OBVIOUS
  <2>3. a # n /\ a \in Users
    BY <2>1, <2>2 DEF Admins, Live
  <2>4. a \in Admins'
    BY <2>1, <2>2, <2>3 DEF Admins, Live, Held
  <2>5. QED
    BY <2>4
<1>3. ASSUME NEW q \in Requests, UpdateCommits(q)
      PROVE  Admins' # {}
  <2> DEFINE w == call[q].user
             freed == IF call[q].edit.email = "keep" THEN users
                      ELSE Released(call[q].edit.email, w)
             entity == Entity(call[q].row, call[q].edit)
             row == Saved(entity, call[q].snap, users[w])
  <2>1. /\ w \in Users /\ freed \in [Users -> Row] /\ call[q] \in Call
        /\ users' = [freed EXCEPT ![w] = row] /\ call[q].row.state = "live"
        /\ \A v \in Users : Live(v) => freed[v] = users[v]
    BY <1>3, UpdateWrites
  <2>2. \A a \in Users : Held(a)' = Held(a)
    BY <1>3 DEF UpdateCommits, Held
  <2>3. CASE Admins = {w}
    <3>1. entity.state = "live" /\ users[w].state = "live" /\ users[w].active
      BY <2>1, <2>3 DEF Entity, Admins, Live
    <3>2. row.state = "live"
      BY <3>1 DEF Saved
    <3>3. ~ Deactivating(q)
      BY <1>3, <2>3 DEF UpdateCommits, LastAdmin
    <3>4. At(q, "update", "commit")
      BY <1>3 DEF UpdateCommits
    <3>5. call[q].row.active \/ ~ call[q].snap.active
      BY <2>3, <3>4
    <3>6. call[q].row.active \in BOOLEAN /\ call[q].snap.active \in BOOLEAN
          /\ call[q].edit.active \in {"keep", "on", "off"}
      BY <2>1 DEF Call, Row, Edit
    <3>7. entity.active = IF call[q].edit.active = "keep" THEN call[q].row.active
                          ELSE call[q].edit.active = "on"
      BY DEF Entity
    <3>8. call[q].row.active => entity.active
      BY <3>3, <3>6, <3>7 DEF Deactivating
    <3>9. row.active = IF entity.active # call[q].snap.active THEN entity.active
                       ELSE users[w].active
      BY DEF Saved
    <3>10. entity.active \in BOOLEAN
      BY <3>6, <3>7
    <3>11. row.active
      BY <3>1, <3>5, <3>6, <3>8, <3>9, <3>10
    <3>12. users'[w] = row
      BY <2>1
    <3>13. w \in Admins'
      BY <2>1, <2>2, <2>3, <3>2, <3>11, <3>12 DEF Admins, Live
    <3>14. QED
      BY <3>13
  <2>4. CASE Admins # {w}
    <3>1. PICK a \in Admins : a # w
      BY <2>4
    <3>2. a \in Users /\ Live(a) /\ users[a].active /\ SuperAdmin \in Held(a)
      BY <3>1 DEF Admins
    <3>3. users'[a] = users[a]
      BY <2>1, <3>1, <3>2
    <3>4. a \in Admins'
      BY <2>2, <3>2, <3>3 DEF Admins, Live
    <3>5. QED
      BY <3>4
  <2>5. QED
    BY <2>3, <2>4
<1>4. ASSUME NEW q \in Requests, AddRolesCommits(q)
      PROVE  Admins' # {}
  <2>1. PICK a \in Admins : TRUE
    OBVIOUS
  <2>2. a \in Admins'
    BY <1>4, <2>1 DEF AddRolesCommits, Admins, Live, Held
  <2>3. QED
    BY <2>2
<1>5. ASSUME NEW q \in Requests, RemoveRoleCommits(q)
      PROVE  Admins' # {}
  <2>1. PICK r \in call[q].roles :
          /\ r = SuperAdmin => ~ LastAdmin(call[q].user)
          /\ held' = held \ {<<call[q].user, r>>}
    BY <1>5 DEF RemoveRoleCommits
  <2>2. PICK a \in Admins : a # call[q].user \/ r # SuperAdmin
    BY <2>1 DEF LastAdmin
  <2>3. a \in Users /\ Live(a) /\ users[a].active /\ <<a, SuperAdmin>> \in held
        /\ SuperAdmin \in Roles
    BY <2>2 DEF Admins, Held
  <2>4. <<a, SuperAdmin>> \in held'
    BY <2>1, <2>2, <2>3
  <2>5. a \in Admins'
    BY <1>5, <2>3, <2>4 DEF RemoveRoleCommits, Admins, Live, Held
  <2>6. QED
    BY <2>5
<1>6. ASSUME NEW q \in Requests, RemoveCommits(q)
      PROVE  Admins' # {}
  <2>1. /\ users' = [users EXCEPT ![call[q].user].state = "deleted"]
        /\ held' = {h \in held : h[1] # call[q].user}
        /\ ~ LastAdmin(call[q].user)
    BY <1>6 DEF RemoveCommits
  <2>2. PICK a \in Admins : a # call[q].user
    BY <2>1 DEF LastAdmin
  <2>3. a \in Users /\ Live(a) /\ users[a].active /\ <<a, SuperAdmin>> \in held
        /\ SuperAdmin \in Roles
    BY <2>2 DEF Admins, Held
  <2>4. users'[a] = users[a] /\ <<a, SuperAdmin>> \in held'
    BY <2>1, <2>2, <2>3 DEF IInv, TypeOK
  <2>5. a \in Admins'
    BY <2>3, <2>4 DEF Admins, Live, Held
  <2>6. QED
    BY <2>5
<1>7. QED
  BY <1>1, <1>2, <1>3, <1>4, <1>5, <1>6, OnlyCommits

\* The address of a live account.
LEMMA AddressKeptStep ==
  ASSUME IInv, [Next]_vars, NEW u \in Users,
         Live(u), users'[u].state = "live", users[u].email \in Emails
  PROVE  \/ users'[u].email \in Emails
         \/ \E q \in Requests :
              /\ At(q, "update", "commit") /\ call[q].user = u
              /\ call[q].row.email = "tombstone"
<1>1. CASE UNCHANGED <<users, held>>
  BY <1>1
<1>2. ASSUME NEW q \in Requests, CreateCommits(q)
      PROVE  users'[u].email \in Emails
  <2>1. PICK n \in Users :
          /\ users[n].state = "none"
          /\ \A v \in Users \ {n} : Live(v) => users'[v] = users[v]
    BY <1>2, CreateWrites
  <2>2. QED
    BY <2>1 DEF Live
<1>3. ASSUME NEW q \in Requests, UpdateCommits(q),
             ~ (call[q].user = u /\ call[q].row.email = "tombstone")
      PROVE  users'[u].email \in Emails
  <2> DEFINE w == call[q].user
             freed == IF call[q].edit.email = "keep" THEN users
                      ELSE Released(call[q].edit.email, w)
             row == Saved(Entity(call[q].row, call[q].edit), call[q].snap, users[w])
  <2>1. /\ w \in Users /\ freed \in [Users -> Row] /\ call[q] \in Call
        /\ users' = [freed EXCEPT ![w] = row]
        /\ \A v \in Users : Live(v) => freed[v] = users[v]
    BY <1>3, UpdateWrites
  <2>2. CASE u # w
    BY <2>1, <2>2
  <2>3. CASE u = w
    <3>1. call[q].row.email \in Emails \cup {"tombstone"}
          /\ call[q].edit.email \in Emails \cup {"keep"}
      BY <2>1 DEF Call, Row, Edit
    <3>2. Entity(call[q].row, call[q].edit).email \in Emails
      BY <1>3, <2>3, <3>1 DEF Entity
    <3>3. row.email \in Emails
      BY <2>3, <3>2 DEF Saved
    <3>4. QED
      BY <2>1, <2>3, <3>3
  <2>4. QED
    BY <2>2, <2>3
<1>4. ASSUME NEW q \in Requests,
             \/ AddRolesCommits(q) \/ RemoveRoleCommits(q) \/ RemoveCommits(q)
      PROVE  users'[u].email \in Emails
  <2>1. users'[u].email = users[u].email
    BY <1>4 DEF AddRolesCommits, RemoveRoleCommits, RemoveCommits, IInv, TypeOK, Row
  <2>2. QED
    BY <2>1
<1>5. ASSUME NEW q \in Requests, UpdateCommits(q)
      PROVE  At(q, "update", "commit")
  BY <1>5 DEF UpdateCommits
<1>6. QED
  BY <1>1, <1>2, <1>3, <1>4, <1>5, OnlyCommits

\* An account never loses its last role to overlapping revocations.
THEOREM KeepsARoleHolds == Spec => KeepsARole
<1>1. IInv /\ [Next]_vars =>
        [\A u \in Users :
           users'[u].state = "live" /\ users[u].state # "deleted" =>
             Held(u)' # {} \/ (Live(u) /\ Held(u) = {})]_vars
  BY RoleKept
<1>2. QED
  BY <1>1, InductiveInvariant, PTL DEF Spec, KeepsARole

\* Only a save of a row that was read before it changed loses the last administrator.
THEOREM AdminsRemainHolds == Spec => AdminsRemain
<1>1. IInv /\ [Next]_vars =>
        [Admins # {} /\ Admins' = {} =>
           \E q \in Requests :
             /\ At(q, "update", "commit") /\ Admins = {call[q].user}
             /\ ~ call[q].row.active /\ call[q].snap.active]_vars
  BY AdminLost
<1>2. QED
  BY <1>1, InductiveInvariant, PTL DEF Spec, AdminsRemain

\* A live account keeps its address when another takes one over.
THEOREM AddressKeptHolds == Spec => AddressKept
<1>1. IInv /\ [Next]_vars =>
        [\A u \in Users :
           Live(u) /\ users'[u].state = "live" /\ users[u].email \in Emails =>
             \/ users'[u].email \in Emails
             \/ \E q \in Requests :
                  /\ At(q, "update", "commit") /\ call[q].user = u
                  /\ call[q].row.email = "tombstone"]_vars
  BY AddressKeptStep
<1>2. QED
  BY <1>1, InductiveInvariant, PTL DEF Spec, AddressKept

-----------------------------------------------------------------------------
(* Registrations: sequences of demands and the rows that hold them.         *)

\* Of any numbers one is the least.
LEMMA Least ==
  ASSUME NEW T \in SUBSET Nat, T # {}
  PROVE  \E x \in T : \A y \in T : x <= y
<1>1. PICK R : R = OpToRel(<, Nat) OBVIOUS
<1>2. IsWellFoundedOn(R, Nat) BY <1>1, NatLessThanWellFounded
<1>3. PICK x \in T : \A y \in T : ~(<<y, x>> \in R) BY <1>2, WFMin
<1>4. \A y \in T : ~(y < x) BY <1>1, <1>3 DEF OpToRel
<1> QED BY <1>4

\* The demands of a row are a sequence.
LEMMA DemandsAreNumbered ==
  ASSUME NEW row \in RequestRow
  PROVE  /\ row.demands \in Seq(DemandStatus) /\ Len(row.demands) \in Nat
         /\ DOMAIN row.demands = 1..Len(row.demands)
         /\ \A i \in DOMAIN row.demands : row.demands[i] \in DemandStatus
         /\ \A status : Demands(row, status) \in SUBSET Nat
BY DEF RequestRow, Demands

\* A function over the numbers of a sequence is a sequence as long.
LEMMA AsLong ==
  ASSUME NEW S, NEW s \in Seq(S), NEW t \in [DOMAIN s -> S]
  PROVE  t \in Seq(S) /\ Len(t) = Len(s) /\ DOMAIN t = DOMAIN s
<1>1. Len(s) \in Nat /\ DOMAIN s = 1..Len(s) OBVIOUS
<1>2. t \in [1..Len(s) -> S] BY <1>1
<1>3. QED BY <1>1, <1>2

\* What a save writes, column by column and demand by demand.
LEMMA WrittenIs ==
  ASSUME NEW goal \in RequestRow, NEW snap \in RequestRow, NEW row \in RequestRow,
         NEW w, w = Written(goal, snap, row)
  PROVE  /\ w \in RequestRow
         /\ w.status = IF goal.status # snap.status THEN goal.status ELSE row.status
         /\ w.customer = IF goal.customer # snap.customer THEN goal.customer
                         ELSE row.customer
         /\ w.deposit = IF goal.deposit # snap.deposit THEN goal.deposit ELSE row.deposit
         /\ Len(w.demands) = Len(row.demands)
         /\ \A i \in DOMAIN row.demands :
              w.demands[i] =
                IF i \in DOMAIN goal.demands /\ goal.demands[i] # snap.demands[i]
                  THEN goal.demands[i] ELSE row.demands[i]
<1> DEFINE ds == [i \in DOMAIN row.demands |->
                    IF i \in DOMAIN goal.demands /\ goal.demands[i] # snap.demands[i]
                      THEN goal.demands[i] ELSE row.demands[i]]
<1>1. DOMAIN row = {"status", "deposit", "customer", "demands", "ledger", "document"}
  BY DEF RequestRow
<1>2. /\ w = [f \in DOMAIN row |-> IF f = "demands" THEN ds
                ELSE IF goal[f] # snap[f] THEN goal[f] ELSE row[f]]
  BY DEF Written
<1>3. ds \in [DOMAIN row.demands -> DemandStatus]
  BY DemandsAreNumbered
<1>4. ds \in Seq(DemandStatus) /\ Len(ds) = Len(row.demands)
  BY <1>3, AsLong, DemandsAreNumbered
<1>5. /\ w.demands = ds
      /\ w.status = IF goal.status # snap.status THEN goal.status ELSE row.status
      /\ w.customer = IF goal.customer # snap.customer THEN goal.customer ELSE row.customer
      /\ w.deposit = IF goal.deposit # snap.deposit THEN goal.deposit ELSE row.deposit
      /\ w.ledger = IF goal.ledger # snap.ledger THEN goal.ledger ELSE row.ledger
      /\ w.document = IF goal.document # snap.document THEN goal.document ELSE row.document
  BY <1>1, <1>2
<1>6. w \in RequestRow
  BY <1>1, <1>2, <1>4, <1>5 DEF RequestRow
<1>7. QED
  BY <1>4, <1>5, <1>6

\* The first demand of a status moves.
LEMMA MovedIs ==
  ASSUME NEW row \in RequestRow, NEW from \in DemandStatus, NEW to \in DemandStatus,
         Demands(row, from) # {}
  PROVE  \E i \in Demands(row, from) :
           Moved(row, from, to) = [row EXCEPT !.demands[i] = to]
<1> DEFINE first == CHOOSE i \in Demands(row, from) :
                      \A j \in Demands(row, from) : i <= j
<1>1. Demands(row, from) \in SUBSET Nat
  BY DemandsAreNumbered
<1>2. first \in Demands(row, from)
  BY <1>1, Least
<1>3. Moved(row, from, to) = [row EXCEPT !.demands[first] = to]
  BY DEF Moved
<1>4. QED
  BY <1>2, <1>3

\* Moving a demand changes one entry of the demands and nothing else.
LEMMA MovedKeeps ==
  ASSUME NEW row \in RequestRow, NEW from \in DemandStatus, NEW to \in DemandStatus
  PROVE  LET moved == Moved(row, from, to) IN
         /\ moved \in RequestRow
         /\ moved.status = row.status /\ moved.customer = row.customer
         /\ moved.deposit = row.deposit
         /\ Len(moved.demands) = Len(row.demands)
         /\ Demands(row, from) # {} =>
              \E i \in Demands(row, from) :
                moved.demands = [row.demands EXCEPT ![i] = to]
<1>1. CASE Demands(row, from) = {}
  BY <1>1 DEF Moved
<1>2. CASE Demands(row, from) # {}
  <2>1. PICK i \in Demands(row, from) :
          Moved(row, from, to) = [row EXCEPT !.demands[i] = to]
    BY <1>2, MovedIs
  <2> DEFINE ds == [row.demands EXCEPT ![i] = to]
  <2>2. row.demands \in Seq(DemandStatus) /\ ds \in [DOMAIN row.demands -> DemandStatus]
    BY DemandsAreNumbered
  <2>3. ds \in Seq(DemandStatus) /\ Len(ds) = Len(row.demands)
    BY <2>2, AsLong
  <2>4. Moved(row, from, to).demands = ds
    BY <2>1 DEF RequestRow
  <2>5. Moved(row, from, to) \in RequestRow
    BY <2>1, <2>3 DEF RequestRow
  <2>6. QED
    BY <2>1, <2>3, <2>4, <2>5 DEF RequestRow
<1>3. QED
  BY <1>1, <1>2

\* A call in flight is a record of its kind, on a request there is.
LEMMA CallsAreCalls ==
  ASSUME RegistrationsTypeOK, NEW q \in Callers
  PROVE  /\ ongoing[q].at = "loaded" => ongoing[q] \in Loaded
         /\ ongoing[q].at = "begun" => ongoing[q] \in Begun
         /\ ongoing[q].at = "activating" => ongoing[q] \in Activate
         /\ ongoing[q].at \in {"loaded", "begun"} =>
              /\ ongoing[q].goal \in RequestRow /\ ongoing[q].on \in RequestIds
              /\ request[ongoing[q].on] \in RequestRow
<1>1. ongoing[q] \in {Idle} \cup Loaded \cup Begun \cup Activate
  BY DEF RegistrationsTypeOK
<1>2. QED
  BY <1>1 DEF RegistrationsTypeOK, Idle, Loaded, Begun, Activate

\* Two rows that agree in the columns of the decision and the deposit are alike to
\* every condition on them.
LEMMA SameAlike ==
  ASSUME NEW a \in RequestRow, NEW b \in RequestRow, Same(a, b)
  PROVE  /\ Unapproved(a) <=> Unapproved(b)
         /\ Approved(a) <=> Approved(b)
         /\ \A goal : Pays(goal, a) <=> Pays(goal, b)
         /\ \A op, goal : MadeOf(op, goal, a) <=> MadeOf(op, goal, b)
         /\ \A status : Demands(a, status) = Demands(b, status)
<1>1. \A status : Demands(a, status) = Demands(b, status)
  BY DEF Same, Demands
<1>2. \A from, to : Moved(a, from, to).demands = Moved(b, from, to).demands
  <2> TAKE from, to
  <2> DEFINE first == CHOOSE i \in Demands(a, from) :
                        \A j \in Demands(a, from) : i <= j
  <2>1. CASE Demands(a, from) = {}
    BY <1>1, <2>1 DEF Moved, Same
  <2>2. CASE Demands(a, from) # {}
    <3>1. /\ Moved(a, from, to) = [a EXCEPT !.demands[first] = to]
          /\ Moved(b, from, to) = [b EXCEPT !.demands[first] = to]
      BY <1>1, <2>2 DEF Moved
    <3> HIDE DEF first
    <3>2. QED
      BY <3>1 DEF Same, RequestRow
  <2>3. QED
    BY <2>1, <2>2
<1>3. \A op, goal : MadeOf(op, goal, a) <=> MadeOf(op, goal, b)
  BY <1>2 DEF Same, MadeOf
<1>4. QED
  BY <1>1, <1>3 DEF Same, Unapproved, Approved, Backed, Pays

-----------------------------------------------------------------------------
(* Saves of the staff, on the row the call is based on or on a paid one.    *)

\* What a call of the staff makes of an approved row that it saw as it is.
Honest(row, new) ==
  \/ new.deposit = row.deposit /\ new.demands = row.demands
  \/ /\ row.deposit = "REQUESTED" /\ new.deposit = "PAID_PENDING"
     /\ new.demands = Moved(row, "RAISED", "PAID").demands
  \/ /\ row.deposit = "PAID_PENDING" /\ new.deposit = "VERIFIED"
     /\ new.demands = Moved(row, "PAID", "VERIFIED").demands
  \/ /\ row.deposit = "PAID_PENDING" /\ new.deposit = "NOT_REQUIRED"
     /\ new.demands = Moved(row, "PAID", "REVERSED").demands
  \/ /\ row.deposit \in {"NOT_REQUIRED", "VERIFIED"} /\ new.deposit = "NOT_REQUIRED"
     /\ new.demands = row.demands
  \/ Len(new.demands) > Len(row.demands)

\* A call changes no number of demands of its own.
LEMMA MadeKeepsLength ==
  ASSUME NEW goal \in RequestRow, NEW row \in RequestRow, NEW op, MadeOf(op, goal, row)
  PROVE  Len(goal.demands) = Len(row.demands)
BY MovedKeeps DEF MadeOf, DemandStatus

\* A save on the row that was loaded writes what the call has made of it.
LEMMA FreshSave ==
  ASSUME NEW goal \in RequestRow, NEW snap \in RequestRow, NEW row \in RequestRow,
         goal.status = row.status, goal.customer = row.customer,
         Len(goal.demands) = Len(row.demands), Same(snap, row),
         NEW new, new = Written(goal, snap, row)
  PROVE  /\ new \in RequestRow
         /\ new.status = row.status /\ new.customer = row.customer
         /\ new.deposit = goal.deposit /\ new.demands = goal.demands
<1>1. /\ new \in RequestRow
      /\ new.status = row.status /\ new.customer = row.customer
      /\ new.deposit = goal.deposit
  BY WrittenIs DEF Same
<1>2. /\ Len(new.demands) = Len(row.demands)
      /\ \A i \in DOMAIN row.demands :
           new.demands[i] =
             IF i \in DOMAIN goal.demands /\ goal.demands[i] # snap.demands[i]
               THEN goal.demands[i] ELSE row.demands[i]
  BY WrittenIs
<1>3. \A i \in DOMAIN goal.demands : new.demands[i] = goal.demands[i]
  BY <1>1, <1>2, DemandsAreNumbered DEF Same
<1>4. /\ new.demands \in Seq(DemandStatus) /\ goal.demands \in Seq(DemandStatus)
      /\ DOMAIN new.demands = DOMAIN goal.demands
  BY <1>1, <1>2, DemandsAreNumbered
<1>5. new.demands = goal.demands
  BY <1>3, <1>4
<1>6. QED
  BY <1>1, <1>5

\* A save on a row paid since the snapshot writes what the call has changed.
LEMMA LateSave ==
  ASSUME NEW goal \in RequestRow, NEW snap \in RequestRow, NEW row \in RequestRow,
         NEW old \in RequestRow, Same(snap, old),
         goal.status = row.status, goal.customer = row.customer,
         old.status = row.status, old.customer = row.customer,
         Len(goal.demands) = Len(row.demands), Len(old.demands) = Len(row.demands),
         NEW new, new = Written(goal, snap, row)
  PROVE  /\ new \in RequestRow
         /\ new.status = row.status /\ new.customer = row.customer
         /\ new.deposit = IF goal.deposit # old.deposit THEN goal.deposit ELSE row.deposit
         /\ Len(new.demands) = Len(row.demands)
         /\ \A i \in DOMAIN row.demands :
              new.demands[i] = IF goal.demands[i] # old.demands[i]
                                 THEN goal.demands[i] ELSE row.demands[i]
<1>1. /\ new \in RequestRow
      /\ new.status = row.status /\ new.customer = row.customer
      /\ new.deposit = IF goal.deposit # old.deposit THEN goal.deposit ELSE row.deposit
  BY WrittenIs DEF Same
<1>2. /\ Len(new.demands) = Len(row.demands)
      /\ \A i \in DOMAIN row.demands :
           new.demands[i] =
             IF i \in DOMAIN goal.demands /\ goal.demands[i] # snap.demands[i]
               THEN goal.demands[i] ELSE row.demands[i]
  BY WrittenIs
<1>3. DOMAIN goal.demands = DOMAIN row.demands
  BY DemandsAreNumbered
<1>4. QED
  BY <1>1, <1>2, <1>3 DEF Same

\* The demand that was moved is there.
LEMMA MovedHas ==
  ASSUME NEW row \in RequestRow, NEW from \in DemandStatus, NEW to \in DemandStatus,
         Demands(row, from) # {}, NEW new,
         new.demands = Moved(row, from, to).demands
  PROVE  \E i \in DOMAIN row.demands :
           row.demands[i] = from /\ new.demands[i] = to /\ i \in Demands(new, to)
<1>1. PICK i \in Demands(row, from) : Moved(row, from, to) = [row EXCEPT !.demands[i] = to]
  BY MovedIs
<1>2. Moved(row, from, to).demands = [row.demands EXCEPT ![i] = to]
  BY <1>1 DEF RequestRow
<1>3. QED
  BY <1>2 DEF Demands

\* What is asked for in the row a call is made of is there in what it makes.
LEMMA MadeIsBacked ==
  ASSUME NEW goal \in RequestRow, NEW row \in RequestRow, NEW op, MadeOf(op, goal, row),
         Backed(row)
  PROVE  /\ op = "recordDepositPayment" =>
              \E i \in DOMAIN row.demands :
                row.demands[i] = "RAISED" /\ goal.demands[i] = "PAID"
         /\ op = "verifyDeposit" =>
              \E i \in DOMAIN row.demands :
                row.demands[i] = "PAID" /\ goal.demands[i] = "VERIFIED"
         /\ DOMAIN goal.demands = DOMAIN row.demands
<1>1. DOMAIN goal.demands = DOMAIN row.demands
  BY MadeKeepsLength, DemandsAreNumbered
<1>2. ASSUME op = "recordDepositPayment"
      PROVE  \E i \in DOMAIN row.demands :
                row.demands[i] = "RAISED" /\ goal.demands[i] = "PAID"
  <2>1. /\ Demands(row, "RAISED") # {}
        /\ goal.demands = Moved(row, "RAISED", "PAID").demands
    BY <1>2 DEF MadeOf, Backed
  <2>2. QED
    BY <2>1, MovedHas DEF DemandStatus
<1>3. ASSUME op = "verifyDeposit"
      PROVE  \E i \in DOMAIN row.demands :
                row.demands[i] = "PAID" /\ goal.demands[i] = "VERIFIED"
  <2>1. /\ Demands(row, "PAID") # {}
        /\ goal.demands = Moved(row, "PAID", "VERIFIED").demands
    BY <1>3 DEF MadeOf, Backed
  <2>2. QED
    BY <2>1, MovedHas DEF DemandStatus
<1>4. QED
  BY <1>1, <1>2, <1>3

\* A demand raised comes after what the save has written.
LEMMA RaisedIs ==
  ASSUME NEW goal \in RequestRow, NEW snap \in RequestRow, NEW row \in RequestRow,
         NEW new, new = DemandRaised(goal, snap, row),
         NEW w, w = Written([goal EXCEPT !.deposit = "REQUESTED"], snap, row)
  PROVE  /\ new \in RequestRow
         /\ new.status = w.status /\ new.customer = w.customer /\ new.deposit = w.deposit
         /\ new.demands = Append(w.demands, "RAISED")
         /\ Len(new.demands) = Len(row.demands) + 1
         /\ Demands(new, "RAISED") # {}
<1> DEFINE g == [goal EXCEPT !.deposit = "REQUESTED"]
<1>1. g \in RequestRow
  BY DEF RequestRow, DepositStatus
<1> HIDE DEF g
<1>2. w = Written(g, snap, row)
  BY DEF g
<1>3. w \in RequestRow /\ Len(w.demands) = Len(row.demands)
  BY <1>1, <1>2, WrittenIs
<1>4. new = [w EXCEPT !.demands = Append(@, "RAISED"),
                      !.ledger = IF @ = "none" THEN "PENDING" ELSE @]
  BY <1>2 DEF DemandRaised, g
<1>5. /\ w.demands \in Seq(DemandStatus) /\ "RAISED" \in DemandStatus
      /\ Len(w.demands) \in Nat
  BY <1>3, DemandsAreNumbered DEF DemandStatus
<1>6. /\ Append(w.demands, "RAISED") \in Seq(DemandStatus)
      /\ Len(Append(w.demands, "RAISED")) = Len(w.demands) + 1
      /\ Append(w.demands, "RAISED")[Len(w.demands) + 1] = "RAISED"
      /\ Len(w.demands) + 1 \in DOMAIN Append(w.demands, "RAISED")
  BY <1>5
<1>7. /\ new.status = w.status /\ new.customer = w.customer /\ new.deposit = w.deposit
      /\ new.demands = Append(w.demands, "RAISED") /\ new \in RequestRow
  BY <1>3, <1>4, <1>6 DEF RequestRow
<1>8. Demands(new, "RAISED") # {}
  BY <1>6, <1>7 DEF Demands
<1>9. QED
  BY <1>3, <1>6, <1>7, <1>8

-----------------------------------------------------------------------------
(* What the transaction of a deposit call of the staff leaves.              *)

SettledBy(c, row) ==
  {new \in {Written(c.goal, c.snap, row)} :
     c.op \in {"recordDepositPayment", "verifyDeposit"}} \cup
  {new \in RaiseDepositDemandIfRequired(c.goal, c.snap, row) :
     \/ c.op = "returnReceipt"
     \/ c.op = "requestDeposit" /\ (Len(new.demands) > Len(row.demands) => c.snap = row)}

\* Each result is a save with a deposit status, or one with a demand after it.
LEMMA SettledIs ==
  ASSUME NEW c, c.goal \in RequestRow, c.snap \in RequestRow, NEW row \in RequestRow,
         NEW new \in SettledBy(c, row)
  PROVE  \E g \in RequestRow, w \in RequestRow :
           /\ w = Written(g, c.snap, row)
           /\ g.status = c.goal.status /\ g.customer = c.goal.customer
           /\ g.demands = c.goal.demands
           /\ new \in RequestRow
           /\ new.status = w.status /\ new.customer = w.customer /\ new.deposit = w.deposit
           /\ \/ c.op \in {"recordDepositPayment", "verifyDeposit"} /\ new = w
                 /\ g.deposit = c.goal.deposit
              \/ c.op \in {"returnReceipt", "requestDeposit"} /\ new = w
                 /\ g.deposit = "NOT_REQUIRED"
              \/ /\ c.op \in {"returnReceipt", "requestDeposit"} /\ g.deposit = "REQUESTED"
                 /\ Demands(new, "RAISED") # {}
                 /\ Len(new.demands) = Len(row.demands) + 1
                 /\ c.op = "requestDeposit" => c.snap = row
<1>1. ASSUME NEW d \in DepositStatus
      PROVE  LET g == [c.goal EXCEPT !.deposit = d] IN
             /\ g \in RequestRow /\ Written(g, c.snap, row) \in RequestRow
             /\ g.status = c.goal.status /\ g.customer = c.goal.customer
             /\ g.demands = c.goal.demands /\ g.deposit = d
  <2> DEFINE g == [c.goal EXCEPT !.deposit = d]
  <2>1. /\ g \in RequestRow
        /\ g.status = c.goal.status /\ g.customer = c.goal.customer
        /\ g.demands = c.goal.demands /\ g.deposit = d
    BY DEF RequestRow
  <2> HIDE DEF g
  <2>2. Written(g, c.snap, row) \in RequestRow
    BY <2>1, WrittenIs
  <2>3. QED
    BY <2>1, <2>2 DEF g
<1>2. CASE c.op \in {"recordDepositPayment", "verifyDeposit"}
           /\ new = Written(c.goal, c.snap, row)
  <2>1. new \in RequestRow
    BY <1>2, WrittenIs
  <2>2. QED
    BY <1>2, <2>1
<1>3. CASE /\ c.op \in {"returnReceipt", "requestDeposit"}
           /\ new = Written([c.goal EXCEPT !.deposit = "NOT_REQUIRED"], c.snap, row)
  <2> DEFINE g == [c.goal EXCEPT !.deposit = "NOT_REQUIRED"]
  <2>1. /\ g \in RequestRow /\ Written(g, c.snap, row) \in RequestRow
        /\ g.status = c.goal.status /\ g.customer = c.goal.customer
        /\ g.demands = c.goal.demands /\ g.deposit = "NOT_REQUIRED"
    BY <1>1 DEF DepositStatus
  <2>2. new = Written(g, c.snap, row)
    BY <1>3
  <2> HIDE DEF g
  <2>3. QED
    BY <1>3, <2>1, <2>2
<1>4. CASE /\ c.op \in {"returnReceipt", "requestDeposit"}
           /\ new = DemandRaised(c.goal, c.snap, row)
           /\ c.op = "requestDeposit" =>
                (Len(new.demands) > Len(row.demands) => c.snap = row)
  <2> DEFINE g == [c.goal EXCEPT !.deposit = "REQUESTED"]
             w == Written(g, c.snap, row)
  <2>1. /\ g \in RequestRow /\ w \in RequestRow
        /\ g.status = c.goal.status /\ g.customer = c.goal.customer
        /\ g.demands = c.goal.demands /\ g.deposit = "REQUESTED"
    BY <1>1 DEF DepositStatus
  <2>2. /\ new \in RequestRow
        /\ new.status = w.status /\ new.customer = w.customer /\ new.deposit = w.deposit
        /\ Len(new.demands) = Len(row.demands) + 1
        /\ Demands(new, "RAISED") # {}
    BY <1>4, RaisedIs
  <2>3. Len(new.demands) > Len(row.demands)
    BY <2>2, DemandsAreNumbered
  <2>4. w = Written(g, c.snap, row)
    OBVIOUS
  <2> HIDE DEF g, w
  <2>5. QED
    BY <1>4, <2>1, <2>2, <2>3, <2>4
<1>5. QED
  BY <1>2, <1>3, <1>4 DEF SettledBy, RaiseDepositDemandIfRequired

\* On the row as the call has seen it, the result is backed and honest.
LEMMA FreshSettles ==
  ASSUME NEW c, c.goal \in RequestRow, c.snap \in RequestRow, c.at = "begun",
         NEW row \in RequestRow, Approved(row), Fresh(c, row), NEW new \in SettledBy(c, row)
  PROVE  /\ new \in RequestRow /\ new.customer = row.customer
         /\ Approved(new) /\ Honest(row, new)
         /\ new.deposit = "VERIFIED" => c.op = "verifyDeposit"
<1>1. MadeOf(c.op, c.goal, row) /\ Same(c.snap, row)
  BY DEF Fresh
<1>2. PICK g \in RequestRow, w \in RequestRow :
           /\ w = Written(g, c.snap, row)
           /\ g.status = c.goal.status /\ g.customer = c.goal.customer
           /\ g.demands = c.goal.demands
           /\ new \in RequestRow
           /\ new.status = w.status /\ new.customer = w.customer /\ new.deposit = w.deposit
           /\ \/ c.op \in {"recordDepositPayment", "verifyDeposit"} /\ new = w
                 /\ g.deposit = c.goal.deposit
              \/ c.op \in {"returnReceipt", "requestDeposit"} /\ new = w
                 /\ g.deposit = "NOT_REQUIRED"
              \/ /\ c.op \in {"returnReceipt", "requestDeposit"} /\ g.deposit = "REQUESTED"
                 /\ Demands(new, "RAISED") # {}
                 /\ Len(new.demands) = Len(row.demands) + 1
                 /\ c.op = "requestDeposit" => c.snap = row
  BY SettledIs
<1>3. c.goal.status = row.status /\ c.goal.customer = row.customer
  BY <1>1 DEF MadeOf
<1>4. Len(c.goal.demands) = Len(row.demands)
  BY <1>1, MadeKeepsLength
<1>5. /\ w.status = row.status /\ w.customer = row.customer
      /\ w.deposit = g.deposit /\ w.demands = c.goal.demands
  BY <1>1, <1>2, <1>3, <1>4, FreshSave
<1>6. /\ new.status = row.status /\ new.customer = row.customer /\ new.deposit = g.deposit
      /\ row.status = "APPROVED" /\ row.customer # 0
  BY <1>2, <1>5 DEF Approved
<1>7. Len(row.demands) \in Nat
  BY DemandsAreNumbered
<1>8. CASE c.op = "recordDepositPayment"
  <2>1. new.deposit = "PAID_PENDING" /\ new.demands = c.goal.demands
        /\ row.deposit = "REQUESTED" /\ c.goal.demands = Moved(row, "RAISED", "PAID").demands
    BY <1>1, <1>2, <1>5, <1>6, <1>8 DEF MadeOf
  <2>2. \E i \in DOMAIN c.goal.demands : c.goal.demands[i] = "PAID"
    BY <1>1, <1>8, MadeIsBacked DEF Approved
  <2>3. QED
    BY <1>2, <1>6, <2>1, <2>2 DEF Approved, Backed, Honest, Demands
<1>9. CASE c.op = "verifyDeposit"
  <2>1. new.deposit = "VERIFIED" /\ new.demands = c.goal.demands
        /\ row.deposit = "PAID_PENDING"
        /\ c.goal.demands = Moved(row, "PAID", "VERIFIED").demands
    BY <1>1, <1>2, <1>5, <1>6, <1>9 DEF MadeOf
  <2>2. \E i \in DOMAIN c.goal.demands : c.goal.demands[i] = "VERIFIED"
    BY <1>1, <1>9, MadeIsBacked DEF Approved
  <2>3. QED
    BY <1>2, <1>6, <1>9, <2>1, <2>2 DEF Approved, Backed, Honest, Demands
<1>10. CASE c.op \in {"returnReceipt", "requestDeposit"} /\ new = w /\ g.deposit = "NOT_REQUIRED"
  <2>1. \/ /\ row.deposit = "PAID_PENDING"
           /\ c.goal.demands = Moved(row, "PAID", "REVERSED").demands
        \/ row.deposit \in {"NOT_REQUIRED", "VERIFIED"} /\ c.goal.demands = row.demands
    BY <1>1, <1>10 DEF MadeOf
  <2>2. QED
    BY <1>2, <1>5, <1>6, <1>10, <2>1 DEF Approved, Backed, Honest
<1>11. CASE g.deposit = "REQUESTED" /\ Demands(new, "RAISED") # {}
            /\ Len(new.demands) = Len(row.demands) + 1
  BY <1>2, <1>6, <1>7, <1>11 DEF Approved, Backed, Honest
<1>12. QED
  BY <1>2, <1>8, <1>9, <1>10, <1>11

\* On a row that was paid since, it is backed as well.
LEMMA LateSettles ==
  ASSUME NEW c, c.goal \in RequestRow, c.snap \in RequestRow, c.at = "begun",
         NEW row \in RequestRow, Approved(row), Overtaken(c, row),
         NEW new \in SettledBy(c, row)
  PROVE  /\ new \in RequestRow /\ new.customer = row.customer /\ Approved(new)
         /\ new.deposit = "VERIFIED" => c.op = "verifyDeposit"
<1>1. PICK deposit \in DepositStatus, demands \in [DOMAIN row.demands -> DemandStatus] :
        LET old == [row EXCEPT !.deposit = deposit, !.demands = demands] IN
        /\ Backed(old) /\ MadeOf(c.op, c.goal, old)
        /\ Same(c.snap, old) \/ Same(c.snap, row)
  BY DEF Overtaken
<1> DEFINE old == [row EXCEPT !.deposit = deposit, !.demands = demands]
<1>2. /\ old \in RequestRow /\ old.status = row.status /\ old.customer = row.customer
      /\ Len(old.demands) = Len(row.demands)
  <2>1. row.demands \in Seq(DemandStatus)
    BY DEF RequestRow
  <2>2. demands \in Seq(DemandStatus) /\ Len(demands) = Len(row.demands)
    BY <2>1, AsLong
  <2>3. QED
    BY <2>2 DEF RequestRow
<1>3. Backed(old) /\ MadeOf(c.op, c.goal, old) /\ (Same(c.snap, old) \/ Same(c.snap, row))
  BY <1>1
<1> HIDE DEF old
<1>4. PICK g \in RequestRow, w \in RequestRow :
           /\ w = Written(g, c.snap, row)
           /\ g.status = c.goal.status /\ g.customer = c.goal.customer
           /\ g.demands = c.goal.demands
           /\ new \in RequestRow
           /\ new.status = w.status /\ new.customer = w.customer /\ new.deposit = w.deposit
           /\ \/ c.op \in {"recordDepositPayment", "verifyDeposit"} /\ new = w
                 /\ g.deposit = c.goal.deposit
              \/ c.op \in {"returnReceipt", "requestDeposit"} /\ new = w
                 /\ g.deposit = "NOT_REQUIRED"
              \/ /\ c.op \in {"returnReceipt", "requestDeposit"} /\ g.deposit = "REQUESTED"
                 /\ Demands(new, "RAISED") # {}
                 /\ Len(new.demands) = Len(row.demands) + 1
                 /\ c.op = "requestDeposit" => c.snap = row
  BY SettledIs
<1>5. /\ c.goal.status = row.status /\ c.goal.customer = row.customer
      /\ Len(c.goal.demands) = Len(row.demands)
  BY <1>2, <1>3, MadeKeepsLength DEF MadeOf
<1>6. row.status = "APPROVED" /\ row.customer # 0 /\ row.deposit = "PAID_PENDING"
  BY DEF Approved, Overtaken
<1>7. /\ c.op = "recordDepositPayment" =>
              \E i \in DOMAIN row.demands :
                old.demands[i] = "RAISED" /\ c.goal.demands[i] = "PAID"
      /\ c.op = "verifyDeposit" =>
              \E i \in DOMAIN row.demands :
                old.demands[i] = "PAID" /\ c.goal.demands[i] = "VERIFIED"
  BY <1>2, <1>3, MadeIsBacked, DemandsAreNumbered
<1>8. /\ c.op = "recordDepositPayment" => c.goal.deposit = "PAID_PENDING" /\ old.deposit = "REQUESTED"
      /\ c.op = "verifyDeposit" => c.goal.deposit = "VERIFIED" /\ old.deposit = "PAID_PENDING"
      /\ c.op = "returnReceipt" => old.deposit = "PAID_PENDING"
      /\ c.op = "requestDeposit" => old.deposit \in {"NOT_REQUIRED", "VERIFIED"} /\ c.goal.demands = old.demands
  BY <1>3 DEF MadeOf
<1>9. CASE Same(c.snap, row)
  <2>1. /\ w.status = row.status /\ w.customer = row.customer
        /\ w.deposit = g.deposit /\ w.demands = c.goal.demands
    BY <1>4, <1>5, <1>9, FreshSave
  <2>2. DOMAIN c.goal.demands = DOMAIN row.demands
    BY <1>5, DemandsAreNumbered
  <2>3. QED
    BY <1>4, <1>6, <1>7, <1>8, <2>1, <2>2 DEF Approved, Backed, Demands
<1>10. CASE Same(c.snap, old)
  <2>1. /\ w.status = row.status /\ w.customer = row.customer
        /\ w.deposit = IF g.deposit # old.deposit THEN g.deposit ELSE row.deposit
        /\ Len(w.demands) = Len(row.demands)
        /\ \A i \in DOMAIN row.demands :
             w.demands[i] = IF c.goal.demands[i] # old.demands[i]
                              THEN c.goal.demands[i] ELSE row.demands[i]
    <3>1. /\ g.status = row.status /\ g.customer = row.customer
          /\ Len(g.demands) = Len(row.demands) /\ g.demands = c.goal.demands
          /\ w = Written(g, c.snap, row)
      BY <1>4, <1>5
    <3>2. /\ w.status = row.status /\ w.customer = row.customer
          /\ w.deposit = IF g.deposit # old.deposit THEN g.deposit ELSE row.deposit
          /\ Len(w.demands) = Len(row.demands)
          /\ \A i \in DOMAIN row.demands :
                w.demands[i] = IF g.demands[i] # old.demands[i]
                                 THEN g.demands[i] ELSE row.demands[i]
      BY ONLY <1>2, <1>10, <3>1, g \in RequestRow, c.snap \in RequestRow,
              row \in RequestRow, LateSave
    <3>3. QED
      BY <3>1, <3>2
  <2>2. DOMAIN w.demands = DOMAIN row.demands
    BY <2>1, DemandsAreNumbered
  <2>3. CASE c.op = "recordDepositPayment"
    <3>1. new.deposit = "PAID_PENDING" /\ new = w
      BY <1>4, <1>8, <2>1, <2>3
    <3>2. \E i \in DOMAIN w.demands : w.demands[i] = "PAID"
      BY <1>7, <2>1, <2>2, <2>3
    <3>3. QED
      BY <1>4, <1>6, <2>1, <2>3, <3>1, <3>2 DEF Approved, Backed, Demands
  <2>4. CASE c.op = "verifyDeposit"
    <3>1. new.deposit = "VERIFIED" /\ new = w
      BY <1>4, <1>8, <2>1, <2>4
    <3>2. \E i \in DOMAIN w.demands : w.demands[i] = "VERIFIED"
      BY <1>7, <2>1, <2>2, <2>4
    <3>3. QED
      BY <1>4, <1>6, <2>1, <2>4, <3>1, <3>2 DEF Approved, Backed, Demands
  <2>5. CASE c.op \in {"returnReceipt", "requestDeposit"} /\ new = w /\ g.deposit = "NOT_REQUIRED"
    <3>1. CASE c.op = "returnReceipt" \/ old.deposit = "VERIFIED"
      BY <1>4, <1>6, <1>8, <2>1, <2>5, <3>1 DEF Approved, Backed
    <3>2. CASE c.op = "requestDeposit" /\ old.deposit = "NOT_REQUIRED"
      <4>1. new.deposit = "PAID_PENDING"
            /\ \A i \in DOMAIN row.demands : new.demands[i] = row.demands[i]
        BY <1>4, <1>6, <1>8, <2>1, <2>5, <3>2
      <4>2. Demands(new, "PAID") # {}
        BY <1>6, <2>2, <2>5, <4>1 DEF Approved, Backed, Demands
      <4>3. QED
        BY <1>4, <1>6, <2>1, <4>1, <4>2 DEF Approved, Backed
    <3>3. QED
      BY <1>8, <2>5, <3>1, <3>2
  <2>6. CASE c.op = "returnReceipt" /\ g.deposit = "REQUESTED" /\ Demands(new, "RAISED") # {}
    BY <1>4, <1>6, <1>8, <2>1, <2>6 DEF Approved, Backed
  <2>7. CASE c.op = "requestDeposit" /\ c.snap = row
    BY <1>6, <1>8, <1>10, <2>7 DEF Same
  <2>8. QED
    BY <1>4, <2>3, <2>4, <2>5, <2>6, <2>7
<1>11. QED
  BY <1>3, <1>9, <1>10

\* What the staff does under a payment in flight keeps what is said of it.
LEMMA PaysUnder ==
  ASSUME NEW goal \in RequestRow, NEW row \in RequestRow, NEW new \in RequestRow,
         Approved(row), goal.status = row.status, goal.customer = row.customer,
         goal.deposit = "PAID_PENDING", Pays(goal, row), Honest(row, new),
         new.status = row.status, new.customer = row.customer
  PROVE  Pays(goal, new) /\ Len(new.demands) >= Len(row.demands)
<1>1. /\ Len(goal.demands) \in Nat /\ Len(row.demands) \in Nat /\ Len(new.demands) \in Nat
      /\ Len(goal.demands) <= Len(row.demands)
  BY DemandsAreNumbered DEF Pays
<1>2. CASE Len(new.demands) > Len(row.demands)
  BY <1>1, <1>2 DEF Pays
<1>3. CASE new.deposit = row.deposit /\ new.demands = row.demands
  <2>1. Same(new, row)
    BY <1>3 DEF Same
  <2>2. QED
    BY <1>1, <1>3, <2>1, SameAlike
<1>4. CASE /\ row.deposit = "REQUESTED" /\ new.deposit = "PAID_PENDING"
           /\ new.demands = Moved(row, "RAISED", "PAID").demands
  <2>1. Len(new.demands) = Len(row.demands)
    BY <1>4, MovedKeeps DEF DemandStatus
  <2>2. CASE MadeOf("recordDepositPayment", goal, row)
    BY <1>1, <1>4, <2>1, <2>2 DEF MadeOf, Pays
  <2>3. QED
    BY <1>1, <1>4, <2>1, <2>2 DEF Pays
<1>5. CASE \E to \in {"VERIFIED", "REVERSED"} :
             /\ row.deposit = "PAID_PENDING" /\ new.deposit \in {"VERIFIED", "NOT_REQUIRED"}
             /\ new.demands = Moved(row, "PAID", to).demands
  <2>1. PICK to \in {"VERIFIED", "REVERSED"} :
             /\ row.deposit = "PAID_PENDING" /\ new.deposit \in {"VERIFIED", "NOT_REQUIRED"}
             /\ new.demands = Moved(row, "PAID", to).demands
    BY <1>5
  <2>2. Len(new.demands) = Len(row.demands)
    BY <2>1, MovedKeeps DEF DemandStatus
  <2>3. CASE row.demands = goal.demands
    <3>1. Demands(row, "PAID") # {} /\ "PAID" \in DemandStatus /\ to \in DemandStatus
      BY <2>1 DEF Approved, Backed, DemandStatus
    <3>2. \E i \in DOMAIN row.demands : row.demands[i] = "PAID" /\ new.demands[i] = to
      BY <2>1, <3>1, MovedHas
    <3>3. QED
      BY <1>1, <2>1, <2>2, <2>3, <3>2 DEF Pays, Demands
  <2>4. CASE Len(goal.demands) < Len(row.demands)
    BY <1>1, <2>2, <2>4 DEF Pays
  <2>5. QED
    BY <2>1, <2>3, <2>4 DEF Pays, MadeOf
<1>6. CASE /\ row.deposit \in {"NOT_REQUIRED", "VERIFIED"} /\ new.deposit = "NOT_REQUIRED"
           /\ new.demands = row.demands
  BY <1>1, <1>6 DEF Pays, MadeOf
<1>7. QED
  BY <1>2, <1>3, <1>4, <1>5, <1>6 DEF Honest

-----------------------------------------------------------------------------
(* The payment of the customer.                                             *)

\* It is recorded, or it changes nothing that the staff has not undone.
LEMMA PaymentSettles ==
  ASSUME NEW goal \in RequestRow, NEW snap \in RequestRow, NEW row \in RequestRow,
         Approved(row), goal.deposit = "PAID_PENDING",
         goal.status = "APPROVED", goal.customer = row.customer,
         snap.status = "APPROVED", snap.customer = row.customer,
         Len(snap.demands) <= Len(row.demands), Len(snap.demands) <= Len(goal.demands),
         Backed(snap), Pays(goal, snap), NEW new, new = Written(goal, snap, row)
  PROVE  /\ new \in RequestRow /\ new.customer = row.customer /\ Approved(new)
         /\ Len(new.demands) = Len(row.demands)
         /\ new.deposit = "PAID_PENDING" \/ Same(new, row)
<1>1. /\ new \in RequestRow
      /\ new.status = row.status /\ new.customer = row.customer
      /\ new.deposit = IF goal.deposit # snap.deposit THEN goal.deposit ELSE row.deposit
  BY WrittenIs DEF Approved
<1>2. /\ Len(new.demands) = Len(row.demands)
      /\ \A i \in DOMAIN row.demands :
           new.demands[i] =
             IF i \in DOMAIN goal.demands /\ goal.demands[i] # snap.demands[i]
               THEN goal.demands[i] ELSE row.demands[i]
  BY WrittenIs
<1>3. /\ Len(goal.demands) = Len(snap.demands)
      /\ DOMAIN goal.demands = DOMAIN snap.demands
      /\ DOMAIN goal.demands \subseteq DOMAIN row.demands
      /\ DOMAIN new.demands = DOMAIN row.demands
      /\ new.demands \in Seq(DemandStatus) /\ row.demands \in Seq(DemandStatus)
  <2>1. /\ Len(goal.demands) \in Nat /\ Len(row.demands) \in Nat /\ Len(snap.demands) \in Nat
        /\ DOMAIN goal.demands = 1..Len(goal.demands)
        /\ DOMAIN snap.demands = 1..Len(snap.demands)
        /\ DOMAIN row.demands = 1..Len(row.demands)
        /\ DOMAIN new.demands = 1..Len(new.demands)
        /\ new.demands \in Seq(DemandStatus) /\ row.demands \in Seq(DemandStatus)
    BY <1>1, DemandsAreNumbered
  <2>2. Len(goal.demands) = Len(snap.demands)
    BY <2>1 DEF Pays
  <2>3. QED
    BY <1>2, <2>1, <2>2
<1>4. CASE \E i \in DOMAIN goal.demands : goal.demands[i] = "PAID" /\ snap.demands[i] # "PAID"
  <2>1. \E i \in DOMAIN new.demands : new.demands[i] = "PAID"
    BY <1>2, <1>3, <1>4
  <2>2. CASE snap.deposit # "PAID_PENDING"
    BY <1>1, <1>2, <2>1, <2>2 DEF Approved, Backed, Demands
  <2>3. CASE snap.deposit = "PAID_PENDING"
    BY <1>3, <1>4, <2>3 DEF Pays, MadeOf
  <2>4. QED
    BY <2>2, <2>3
<1>5. CASE snap.deposit = "PAID_PENDING" /\ snap.demands = goal.demands
  <2>1. \A i \in DOMAIN row.demands : new.demands[i] = row.demands[i]
    BY <1>2, <1>3, <1>5
  <2>2. new.demands = row.demands
    BY <1>3, <2>1
  <2>3. new.deposit = row.deposit
    BY <1>1, <1>5
  <2>4. Same(new, row)
    BY <1>1, <2>2, <2>3 DEF Same
  <2>5. QED
    BY <1>1, <1>2, <2>4, SameAlike
<1>6. ASSUME MadeOf("recordDepositPayment", goal, snap)
      PROVE  \E i \in DOMAIN goal.demands : goal.demands[i] = "PAID" /\ snap.demands[i] # "PAID"
  <2>1. \E i \in DOMAIN snap.demands : snap.demands[i] = "RAISED" /\ goal.demands[i] = "PAID"
    BY <1>6, MadeIsBacked
  <2>2. QED
    BY <1>3, <2>1
<1>7. ASSUME \E i \in Demands(goal, "PAID") : snap.demands[i] \in {"VERIFIED", "REVERSED"}
      PROVE  \E i \in DOMAIN goal.demands : goal.demands[i] = "PAID" /\ snap.demands[i] # "PAID"
  BY <1>7 DEF Demands
<1>8. QED
  BY <1>3, <1>4, <1>5, <1>6, <1>7, DemandsAreNumbered DEF Pays

-----------------------------------------------------------------------------
(* What stands of a call, and what a step of another leaves of it.          *)

CallStands(q) ==
  ongoing[q].at \in {"loaded", "begun"} =>
    IF q \in Staff THEN StaffStands(q) ELSE PaymentStands(q)

\* A call still stands when its row and what it may meet are as they were.
LEMMA OtherStands ==
  ASSUME NEW q \in Callers, CallStands(q), ongoing'[q] = ongoing[q],
         request'[ongoing[q].on] = request[ongoing[q].on],
         \/ \A o \in Callers \ {q} :
              InFlight(o, ongoing[q].on)' => InFlight(o, ongoing[q].on)
         \/ ~ Overtaken(ongoing[q], request[ongoing[q].on]),
         \/ ongoing[q].op # "approve"
         \/ SlotOf[ongoing[q].on] \in Taken' => SlotOf[ongoing[q].on] \in Taken
  PROVE  CallStands(q)'
<1> DEFINE c == ongoing[q]
           row == request[c.on]
<1> SUFFICES ASSUME c.at \in {"loaded", "begun"}
             PROVE  (IF q \in Staff THEN StaffStands(q) ELSE PaymentStands(q))'
  BY DEF CallStands
<1>1. CASE q \notin Staff
  BY <1>1 DEF CallStands, PaymentStands
<1>2. CASE q \in Staff
  <2>1. StaffStands(q)
    BY <1>2 DEF CallStands
  <2>2. CASE c.op = "document"
    BY <1>2, <2>2 DEF StaffStands
  <2>3. CASE c.op \in Reviews \cup {"approve"} /\ ReviewStands(c, row)
    <3>1. ReviewStands(c, row)'
      BY <2>3 DEF ReviewStands
    <3>2. QED
      BY <1>2, <2>3, <3>1 DEF StaffStands
  <2>4. CASE Approved(row) /\ Fresh(c, row)
    BY <1>2, <2>4 DEF StaffStands
  <2>5. CASE /\ Approved(row) /\ Overtaken(c, row)
             /\ \A o \in Callers \ {q} : ~InFlight(o, c.on)
    <3>1. \A o \in Callers \ {q} : ~InFlight(o, c.on)'
      BY <2>5
    <3>2. (\A o \in Callers \ {q} : ~InFlight(o, ongoing[q].on))'
      BY <3>1
    <3>3. QED
      BY <1>2, <2>5, <3>2 DEF StaffStands
  <2>6. QED
    BY <2>1, <2>2, <2>3, <2>4, <2>5 DEF StaffStands
<1>3. QED
  BY <1>1, <1>2

\* The invariant, its last conjunct call by call.
LEMMA InvParts ==
  RegistrationsInv <=>
    RegistrationsTypeOK /\ RowsWhole /\ CustomersWhole /\ \A q \in Callers : CallStands(q)
BY DEF RegistrationsInv, CallsStand, CallStands

\* The drafts at the start are undecided and no call is in flight.
LEMMA RegistrationsStart == RegistrationsInit => RegistrationsInv
<1> SUFFICES ASSUME RegistrationsInit PROVE RegistrationsInv
  OBVIOUS
<1>1. Draft \in RequestRow /\ Unapproved(Draft) /\ Draft.deposit # "VERIFIED"
  BY RegistrationAssumption
  DEF Draft, RequestRow, Unapproved, Status, DepositStatus
<1>2. RegistrationsTypeOK
  BY <1>1, RegistrationAssumption DEF RegistrationsInit, RegistrationsTypeOK, Idle, Draft
<1>3. RowsWhole /\ CustomersWhole
  BY <1>1 DEF RegistrationsInit, RowsWhole, CustomersWhole
<1>4. \A q \in Callers : CallStands(q)
  BY DEF RegistrationsInit, CallStands, Idle
<1>5. QED
  BY <1>2, <1>3, <1>4, InvParts

\* A step that changes no request, and no customer but in the account.
LEMMA QuietInv ==
  ASSUME RegistrationsInv, NEW p \in Callers,
         NEW record \in {Idle} \cup Activate, ongoing' = [ongoing EXCEPT ![p] = record],
         UNCHANGED request,
         customers' \in Seq(Customer), Len(customers') = Len(customers),
         \A c \in DOMAIN customers :
           /\ customers'[c].slot = customers[c].slot
           /\ customers[c].active => customers'[c].active
  PROVE  RegistrationsInv'
<1>1. RegistrationsTypeOK /\ RowsWhole /\ CustomersWhole /\ \A q \in Callers : CallStands(q)
  BY InvParts
<1>2. DOMAIN customers' = DOMAIN customers /\ DOMAIN customers = 1..Len(customers)
  BY <1>1 DEF RegistrationsTypeOK
<1>3. RegistrationsTypeOK'
  BY <1>1 DEF RegistrationsTypeOK
<1>4. Taken' = Taken
  BY <1>2 DEF Taken
<1>5. CustomersWhole'
  BY <1>1, <1>2 DEF CustomersWhole
<1>6. RowsWhole'
  <2> SUFFICES ASSUME NEW r \in RequestIds, request[r].deposit = "VERIFIED"
               PROVE  customers'[request[r].customer].active
    BY <1>1 DEF RowsWhole
  <2>1. customers[request[r].customer].active /\ request[r].customer \in DOMAIN customers
    BY <1>1, <1>2 DEF RowsWhole, Approved, Unapproved, RegistrationsTypeOK
  <2>2. QED
    BY <2>1
<1>7. \A o \in Callers, r \in RequestIds : InFlight(o, r)' => InFlight(o, r)
  BY <1>1 DEF InFlight, RegistrationsTypeOK, Idle, Activate
<1>8. \A q \in Callers : CallStands(q)'
  <2> TAKE q \in Callers
  <2>1. CASE q = p
    BY <1>1, <2>1 DEF CallStands, RegistrationsTypeOK, Idle, Activate
  <2>2. CASE q # p /\ ongoing[q].at \in {"loaded", "begun"}
    <3>1. ongoing'[q] = ongoing[q] /\ ongoing[q].on \in RequestIds
      BY <1>1, <2>2, CallsAreCalls DEF RegistrationsTypeOK
    <3>2. QED
      BY <1>1, <1>4, <1>7, <2>2, <3>1, OtherStands
  <2>3. CASE q # p /\ ongoing[q].at \notin {"loaded", "begun"}
    BY <1>1, <2>3 DEF CallStands, RegistrationsTypeOK
  <2>4. QED
    BY <2>1, <2>2, <2>3
<1>9. RegistrationsInv' <=>
        RegistrationsTypeOK' /\ RowsWhole' /\ CustomersWhole' /\ \A q \in Callers : CallStands(q)'
  BY DEF RegistrationsInv, CallsStand, CallStands
<1>10. QED
  BY <1>3, <1>5, <1>6, <1>8, <1>9

\* A call is loaded beside those that OneOfEach lets be in flight.
LEMMA LoadInv ==
  ASSUME RegistrationsInv, OneOfEach', NEW p \in Callers, NEW r \in RequestIds,
         NEW op \in Saves \cup {"document"}, NEW goal \in RequestRow, Loads(p, op, r, goal),
         p \in Staff =>
           \/ op = "document"
           \/ /\ op \in Reviews \cup {"approve"} /\ Unapproved(request[r])
              /\ op \in Reviews => Unapproved(goal)
              /\ op = "approve" =>
                   /\ goal.status = "APPROVED" /\ goal.customer = 0
                   /\ goal.deposit = "UNDECIDED" /\ goal.demands = <<>>
           \/ Approved(request[r]) /\ MadeOf(op, goal, request[r]),
         p \notin Staff =>
           op = "recordDepositPayment" /\ Approved(request[r]) /\ MadeOf(op, goal, request[r])
  PROVE  RegistrationsInv'
<1> DEFINE record == [at |-> "loaded", op |-> op, on |-> r, goal |-> goal]
<1>1. RegistrationsTypeOK /\ RowsWhole /\ CustomersWhole /\ \A q \in Callers : CallStands(q)
  BY InvParts
<1>2. /\ ongoing' = [ongoing EXCEPT ![p] = record] /\ ongoing[p] = Idle
      /\ UNCHANGED <<request, customers>>
  BY DEF Loads, Starts
<1>3. record \in Loaded
  BY DEF Loaded
<1>4. RegistrationsTypeOK'
  BY <1>1, <1>2, <1>3 DEF RegistrationsTypeOK
<1>5. RowsWhole' /\ CustomersWhole' /\ Taken' = Taken
  BY <1>1, <1>2 DEF RowsWhole, CustomersWhole, Taken
<1>6. ongoing'[p] = record /\ request[r] \in RequestRow
  BY <1>1, <1>2 DEF RegistrationsTypeOK
<1>7. CallStands(p)'
  <2>1. CASE p \in Staff
    <3>1. CASE op = "document"
      BY <1>6, <2>1, <3>1 DEF CallStands, StaffStands
    <3>2. CASE /\ op \in Reviews \cup {"approve"} /\ Unapproved(request[r])
               /\ op \in Reviews => Unapproved(goal)
               /\ op = "approve" =>
                    /\ goal.status = "APPROVED" /\ goal.customer = 0
                    /\ goal.deposit = "UNDECIDED" /\ goal.demands = <<>>
      <4>1. ReviewStands(record, request[r])'
        BY <1>2, <3>2 DEF ReviewStands
      <4>2. QED
        BY <1>2, <1>6, <2>1, <3>2, <4>1 DEF CallStands, StaffStands
    <3>3. CASE Approved(request[r]) /\ MadeOf(op, goal, request[r])
      <4>1. Fresh(record, request[r])
        BY <3>3 DEF Fresh
      <4>2. QED
        BY <1>2, <1>6, <2>1, <3>3, <4>1 DEF CallStands, StaffStands
    <3>4. QED
      BY <2>1, <3>1, <3>2, <3>3
  <2>2. CASE p \notin Staff
    <3>1. op = "recordDepositPayment" /\ Approved(request[r]) /\ MadeOf(op, goal, request[r])
      BY <2>2
    <3>2. Len(goal.demands) = Len(request[r].demands) /\ Len(request[r].demands) \in Nat
      BY <1>6, <3>1, MadeKeepsLength, DemandsAreNumbered
    <3>3. /\ goal.status = "APPROVED" /\ goal.customer = request[r].customer
          /\ goal.deposit = "PAID_PENDING" /\ request[r].status = "APPROVED"
          /\ Backed(request[r])
      BY <3>1 DEF MadeOf, Approved
    <3>4. Pays(goal, request[r])
      BY <3>1, <3>2 DEF Pays
    <3>5. PaymentStands(p)'
      BY <1>2, <1>6, <3>1, <3>2, <3>3, <3>4 DEF PaymentStands
    <3>6. QED
      BY <2>2, <3>5 DEF CallStands
  <2>3. QED
    BY <2>1, <2>2
<1>8. ASSUME NEW q \in Callers \ {p}, ongoing[q].at \in {"loaded", "begun"}
      PROVE  CallStands(q)'
  <2>1. /\ ongoing'[q] = ongoing[q] /\ ongoing[q].on \in RequestIds
        /\ \A o \in Callers \ {p} : ongoing'[o] = ongoing[o]
    BY <1>1, <1>2, <1>8, CallsAreCalls DEF RegistrationsTypeOK
  <2>2. CASE ongoing[q].on # r
    <3>1. \A o \in Callers \ {q} :
            InFlight(o, ongoing[q].on)' => InFlight(o, ongoing[q].on)
      BY <1>6, <2>1, <2>2 DEF InFlight
    <3>2. QED
      BY <1>1, <1>2, <1>5, <2>1, <3>1, OtherStands
  <2>3. CASE ongoing[q].on = r
    <3>1. InFlight(p, r)' /\ InFlight(q, r)'
      BY <1>6, <1>8, <2>1, <2>3 DEF InFlight
    <3>2. p \in Staff <=> q \notin Staff
      BY <3>1 DEF OneOfEach
    <3>3. CASE q \notin Staff
      BY <1>1, <1>2, <1>8, <2>1, <3>3 DEF CallStands, PaymentStands
    <3>4. CASE q \in Staff
      <4>1. ~ Overtaken(ongoing[q], request[ongoing[q].on])
        BY <2>3, <3>2, <3>4 DEF Overtaken, MadeOf
      <4>2. QED
        BY <1>1, <1>2, <1>5, <2>1, <4>1, OtherStands
    <3>5. QED
      BY <3>3, <3>4
  <2>4. QED
    BY <2>2, <2>3
<1>9. \A q \in Callers : CallStands(q)'
  <2> TAKE q \in Callers
  <2>1. CASE q # p /\ ongoing[q].at \notin {"loaded", "begun"}
    BY <1>1, <1>2, <2>1 DEF CallStands, RegistrationsTypeOK
  <2>2. QED
    BY <1>7, <1>8, <2>1
<1>10. RegistrationsInv' <=>
        RegistrationsTypeOK' /\ RowsWhole' /\ CustomersWhole' /\ \A q \in Callers : CallStands(q)'
  BY DEF RegistrationsInv, CallsStand, CallStands
<1>11. QED
  BY <1>4, <1>5, <1>9, <1>10

\* A transaction begins: its snapshot is the row as it is.
LEMMA BeginInv ==
  ASSUME RegistrationsInv, NEW p \in Callers, Begins(p),
         NEW c, c = ongoing[p], NEW r, r = c.on, NEW record,
         record = [at |-> "begun", op |-> c.op, on |-> r, goal |-> c.goal,
                   snap |-> request[r], seen |-> Taken]
  PROVE  RegistrationsInv'
<1>1. RegistrationsTypeOK /\ RowsWhole /\ CustomersWhole /\ \A q \in Callers : CallStands(q)
  BY InvParts
<1>2. /\ ongoing' = [ongoing EXCEPT ![p] = record] /\ c.at = "loaded"
      /\ UNCHANGED <<request, customers>>
  BY DEF Begins
<1>3. /\ c \in Loaded /\ r \in RequestIds /\ request[r] \in RequestRow
      /\ c.goal \in RequestRow
  BY <1>1, <1>2, CallsAreCalls
<1>4. Taken \subseteq Slots
  <2>1. \A d \in DOMAIN customers : customers[d] \in Customer
    BY <1>1 DEF RegistrationsTypeOK
  <2>2. QED
    BY <2>1 DEF Taken, Customer
<1>5. record \in Begun
  BY <1>3, <1>4 DEF Begun, Loaded
<1>6. RegistrationsTypeOK'
  BY <1>1, <1>2, <1>5 DEF RegistrationsTypeOK
<1>7. RowsWhole' /\ CustomersWhole' /\ Taken' = Taken
  BY <1>1, <1>2 DEF RowsWhole, CustomersWhole, Taken
<1>8. ongoing'[p] = record /\ \A o \in Callers \ {p} : ongoing'[o] = ongoing[o]
  BY <1>1, <1>2 DEF RegistrationsTypeOK
<1>9. \A o \in Callers, s \in RequestIds : InFlight(o, s)' <=> InFlight(o, s)
  <2> TAKE o \in Callers, s \in RequestIds
  <2>1. CASE o = p
    BY <1>2, <1>8, <2>1 DEF InFlight
  <2>2. CASE o # p
    BY <1>8, <2>2 DEF InFlight
  <2>3. QED
    BY <2>1, <2>2
<1>10. CallStands(p)'
  <2>1. CASE p \notin Staff
    <3>1. PaymentStands(p)
      BY <1>1, <1>2, <2>1 DEF CallStands
    <3>2. PaymentStands(p)'
      BY <1>2, <1>8, <3>1 DEF PaymentStands
    <3>3. QED
      BY <2>1, <3>2 DEF CallStands
  <2>2. CASE p \in Staff
    <3>1. StaffStands(p)
      BY <1>1, <1>2, <2>2 DEF CallStands
    <3>2. CASE c.op = "document"
      BY <1>8, <2>2, <3>2 DEF CallStands, StaffStands
    <3>3. CASE c.op \in Reviews \cup {"approve"} /\ ReviewStands(c, request[r])
      <4>1. ReviewStands(record, request[r])'
        BY <1>2, <1>7, <3>3 DEF ReviewStands
      <4>2. QED
        BY <1>2, <1>8, <2>2, <3>3, <4>1 DEF CallStands, StaffStands
    <3>4. CASE Approved(request[r]) /\ Fresh(c, request[r])
      <4>1. Fresh(record, request[r])
        BY <3>4 DEF Fresh, Same
      <4>2. QED
        BY <1>2, <1>8, <2>2, <3>4, <4>1 DEF CallStands, StaffStands
    <3>5. CASE /\ Approved(request[r]) /\ Overtaken(c, request[r])
               /\ \A o \in Callers \ {p} : ~InFlight(o, r)
      <4>1. Overtaken(record, request[r])
        BY <3>5 DEF Overtaken, Same
      <4>2. (\A o \in Callers \ {p} : ~InFlight(o, ongoing[p].on))'
        BY <1>3, <1>8, <1>9, <3>5
      <4>3. QED
        BY <1>2, <1>8, <2>2, <3>5, <4>1, <4>2 DEF CallStands, StaffStands
    <3>6. QED
      BY <3>1, <3>2, <3>3, <3>4, <3>5 DEF StaffStands
  <2>3. QED
    BY <2>1, <2>2
<1>11. \A q \in Callers : CallStands(q)'
  <2> TAKE q \in Callers
  <2>1. CASE q # p /\ ongoing[q].at \notin {"loaded", "begun"}
    BY <1>8, <2>1 DEF CallStands
  <2>2. CASE q # p /\ ongoing[q].at \in {"loaded", "begun"}
    <3>1. ongoing[q].on \in RequestIds
      BY <1>1, <2>2, CallsAreCalls
    <3>2. QED
      BY <1>1, <1>2, <1>7, <1>8, <1>9, <2>2, <3>1, OtherStands
  <2>3. QED
    BY <1>10, <2>1, <2>2
<1>12. RegistrationsInv' <=>
        RegistrationsTypeOK' /\ RowsWhole' /\ CustomersWhole' /\ \A q \in Callers : CallStands(q)'
  BY DEF RegistrationsInv, CallsStand, CallStands
<1>13. QED
  BY <1>6, <1>7, <1>11, <1>12

\* A transaction commits a row: what is left to show is what it leaves of the table
\* and of the calls on the same row.
LEMMA CommitInv ==
  ASSUME RegistrationsInv, NEW p \in Callers, ongoing[p].at = "begun", Answers(p),
         NEW r \in RequestIds, r = ongoing[p].on, NEW new \in RequestRow,
         request' = [request EXCEPT ![r] = new],
         customers' \in Seq(Customer), Len(customers) <= Len(customers'),
         Len(customers') <= MaxCustomers, new.customer <= Len(customers'),
         RowsWhole', CustomersWhole',
         \A q \in Callers \ {p} : InFlight(q, r) => CallStands(q)',
         \A q \in Callers \ {p} : \A s \in RequestIds \ {r} :
           InFlight(q, s) /\ ongoing[q].op = "approve" =>
             (SlotOf[s] \in Taken' => SlotOf[s] \in Taken)
  PROVE  RegistrationsInv'
<1>1. RegistrationsTypeOK /\ RowsWhole /\ CustomersWhole /\ \A q \in Callers : CallStands(q)
  BY InvParts
<1>2. ongoing'[p] = Idle /\ \A o \in Callers \ {p} : ongoing'[o] = ongoing[o]
  BY <1>1 DEF Answers, RegistrationsTypeOK
<1>3. request'[r] = new /\ \A s \in RequestIds \ {r} : request'[s] = request[s]
  BY <1>1 DEF RegistrationsTypeOK
<1>4. RegistrationsTypeOK'
  <2>1. ongoing' \in [Callers -> {Idle} \cup Loaded \cup Begun \cup Activate]
    BY <1>1 DEF Answers, RegistrationsTypeOK
  <2>2. request' \in [RequestIds -> RequestRow]
    BY <1>1 DEF RegistrationsTypeOK
  <2>3. \A s \in RequestIds : request'[s].customer \in 0..Len(customers')
    <3> TAKE s \in RequestIds
    <3>1. request'[s].customer \in Nat
      BY <2>2, RegistrationAssumption DEF RequestRow
    <3>2. Len(customers) \in Nat /\ Len(customers') \in Nat
      BY <1>1 DEF RegistrationsTypeOK
    <3>3. CASE s = r
      BY <1>3, <3>1, <3>2, <3>3
    <3>4. CASE s # r
      BY <1>1, <1>3, <3>1, <3>2, <3>4 DEF RegistrationsTypeOK
    <3>5. QED
      BY <3>3, <3>4
  <2>4. QED
    BY <2>1, <2>2, <2>3 DEF RegistrationsTypeOK
<1>5. \A o \in Callers, s \in RequestIds : InFlight(o, s)' => InFlight(o, s)
  <2> TAKE o \in Callers, s \in RequestIds
  <2>1. CASE o = p
    BY <1>2, <2>1 DEF InFlight, Idle
  <2>2. CASE o # p
    BY <1>2, <2>2 DEF InFlight
  <2>3. QED
    BY <2>1, <2>2
<1>6. \A q \in Callers : CallStands(q)'
  <2> TAKE q \in Callers
  <2>1. CASE q = p
    BY <1>2, <2>1 DEF CallStands, Idle
  <2>2. CASE q # p /\ ongoing[q].at \notin {"loaded", "begun"}
    BY <1>2, <2>2 DEF CallStands
  <2>3. CASE q # p /\ ongoing[q].at \in {"loaded", "begun"}
    <3>1. ongoing[q].on \in RequestIds /\ InFlight(q, ongoing[q].on)
      BY <1>1, <2>3, CallsAreCalls DEF InFlight
    <3>2. CASE ongoing[q].on = r
      BY <2>3, <3>1, <3>2
    <3>3. CASE ongoing[q].on # r
      <4>1. request'[ongoing[q].on] = request[ongoing[q].on]
        BY <1>3, <3>1, <3>3
      <4>2. \/ ongoing[q].op # "approve"
            \/ SlotOf[ongoing[q].on] \in Taken' => SlotOf[ongoing[q].on] \in Taken
        BY <2>3, <3>1, <3>3
      <4>3. QED
        BY <1>1, <1>2, <1>5, <2>3, <3>1, <4>1, <4>2, OtherStands
    <3>4. QED
      BY <3>2, <3>3
  <2>4. QED
    BY <2>1, <2>2, <2>3
<1>7. RegistrationsInv' <=>
        RegistrationsTypeOK' /\ RowsWhole' /\ CustomersWhole' /\ \A q \in Callers : CallStands(q)'
  BY DEF RegistrationsInv, CallsStand, CallStands
<1>8. QED
  BY <1>4, <1>6, <1>7

-----------------------------------------------------------------------------
(* The calls are loaded.                                                    *)

\* What one column of a row says of its decision.
LEMMA RowIs ==
  ASSUME RegistrationsInv, NEW r \in RequestIds
  PROVE  /\ request[r] \in RequestRow
         /\ Unapproved(request[r]) \/ Approved(request[r])
         /\ request[r].deposit # "UNDECIDED" => Approved(request[r])
         /\ request[r].status # "APPROVED" => Unapproved(request[r])
         /\ request[r].customer = 0 => Unapproved(request[r])
         /\ \A status : Demands(request[r], status) # {} => Approved(request[r])
BY DEF RegistrationsInv, RegistrationsTypeOK, RowsWhole, Unapproved, Approved, Demands

\* A call of the staff loads its request and changes it in memory.
LEMMA StaffLoadsInv ==
  ASSUME RegistrationsInv, OneOfEach', NEW p \in Staff, NEW r \in RequestIds,
         \/ UpdateDraft(p, r) \/ SendToResident(p, r) \/ SubmitForReview(p, r)
         \/ ReturnToResident(p, r) \/ Approve(p, r) \/ Reject(p, r)
         \/ RequestDeposit(p, r) \/ VerifyDeposit(p, r)
         \/ ReturnReceiptForCorrection(p, r) \/ ChangeDocument(p, r)
  PROVE  RegistrationsInv'
<1> DEFINE row == request[r]
<1>1. /\ row \in RequestRow /\ p \in Callers
      /\ Unapproved(row) \/ Approved(row)
      /\ row.deposit # "UNDECIDED" => Approved(row)
      /\ row.status # "APPROVED" => Unapproved(row)
      /\ row.customer = 0 => Unapproved(row)
  BY RowIs DEF Callers
<1>2. ASSUME NEW op \in Reviews, NEW status \in Status \ {"APPROVED"}, Unapproved(row),
             Loads(p, op, r, [row EXCEPT !.status = status])
      PROVE  RegistrationsInv'
  <2> DEFINE goal == [row EXCEPT !.status = status]
  <2>1. goal \in RequestRow /\ Unapproved(goal)
    BY <1>1, <1>2 DEF RequestRow, Unapproved
  <2>2. op \in Saves \cup {"document"}
    BY DEF Reviews, Saves
  <2> HIDE DEF goal
  <2>3. Loads(p, op, r, goal)
    BY <1>2 DEF goal
  <2>4. op # "approve"
    BY DEF Reviews
  <2>5. QED
    BY <1>1, <1>2, <2>1, <2>2, <2>3, <2>4, LoadInv
<1>3. CASE UpdateDraft(p, r)
  <2>1. [row EXCEPT !.status = row.status] = row /\ row.status \in Status \ {"APPROVED"}
    BY <1>1, <1>3 DEF RequestRow, UpdateDraft
  <2>2. Unapproved(row) /\ Loads(p, "updateDraft", r, [row EXCEPT !.status = row.status])
    BY <1>1, <1>3, <2>1 DEF UpdateDraft
  <2>3. QED
    BY <1>2, <2>1, <2>2 DEF Reviews
<1>4. CASE SendToResident(p, r)
  BY <1>1, <1>2, <1>4 DEF SendToResident, Reviews, Status
<1>5. CASE SubmitForReview(p, r)
  BY <1>1, <1>2, <1>5 DEF SubmitForReview, Reviews, Status
<1>6. CASE ReturnToResident(p, r)
  BY <1>1, <1>2, <1>6 DEF ReturnToResident, Reviews, Status
<1>7. CASE Approve(p, r)
  <2>1. Unapproved(row)
    BY <1>1, <1>7 DEF Approve
  <2>2. Demands(row, "VERIFIED") = {}
    BY <2>1 DEF Unapproved, Demands
  <2> DEFINE goal == [row EXCEPT !.status = "APPROVED", !.deposit = row.deposit]
  <2>3. Loads(p, "approve", r, goal)
    BY <1>7, <2>2 DEF Approve
  <2>4. /\ goal \in RequestRow /\ goal.status = "APPROVED" /\ goal.customer = 0
        /\ goal.deposit = "UNDECIDED" /\ goal.demands = <<>>
    BY <1>1, <2>1 DEF RequestRow, Unapproved, Status
  <2> HIDE DEF goal
  <2>5. "approve" \in Saves /\ "approve" \notin Reviews
    BY DEF Saves, Reviews
  <2>6. QED
    BY <1>1, <2>1, <2>3, <2>4, <2>5, LoadInv
<1>8. CASE Reject(p, r)
  <2>1. Unapproved(row)
    BY <1>1, <1>8 DEF Reject
  <2>2. Loads(p, "reject", r, [row EXCEPT !.status = "REJECTED"])
    BY <1>8, <2>1 DEF Reject, Unapproved
  <2>3. QED
    BY <1>2, <2>1, <2>2 DEF Reviews, Status
<1>9. CASE RequestDeposit(p, r)
  <2>1. Approved(row) /\ row.deposit \in {"NOT_REQUIRED", "VERIFIED"}
    BY <1>1, <1>9 DEF RequestDeposit, Approved, Unapproved, RequestRow, DepositStatus
  <2>2. MadeOf("requestDeposit", row, row)
    BY <2>1 DEF MadeOf
  <2>3. QED
    BY <1>1, <1>9, <2>1, <2>2, LoadInv DEF RequestDeposit, Saves
<1>10. CASE VerifyDeposit(p, r)
  <2> DEFINE moved == Moved(row, "PAID", "VERIFIED")
             goal == [moved EXCEPT !.deposit = "VERIFIED"]
  <2>1. Approved(row) /\ row.deposit = "PAID_PENDING" /\ Loads(p, "verifyDeposit", r, goal)
    BY <1>1, <1>10 DEF VerifyDeposit
  <2>2. /\ moved \in RequestRow /\ moved.status = row.status
        /\ moved.customer = row.customer
    BY <1>1, MovedKeeps DEF DemandStatus
  <2>3. /\ goal \in RequestRow /\ goal.status = row.status /\ goal.customer = row.customer
        /\ goal.deposit = "VERIFIED" /\ goal.demands = moved.demands
    <3> HIDE DEF moved
    <3>1. QED
      BY <2>2 DEF RequestRow, DepositStatus
  <2> HIDE DEF goal
  <2>4. MadeOf("verifyDeposit", goal, row)
    BY <2>1, <2>3 DEF MadeOf
  <2>5. QED
    BY <1>1, <2>1, <2>3, <2>4, LoadInv DEF Saves
<1>11. CASE ReturnReceiptForCorrection(p, r)
  <2> DEFINE moved == Moved(row, "PAID", "REVERSED")
             goal == [moved EXCEPT !.ledger = "PENDING"]
  <2>1. Approved(row) /\ row.deposit = "PAID_PENDING"
    BY <1>1, <1>11 DEF ReturnReceiptForCorrection
  <2>2. Loads(p, "returnReceipt", r, goal)
    BY <1>11, <2>1 DEF ReturnReceiptForCorrection, Approved, Backed
  <2>3. /\ moved \in RequestRow /\ moved.status = row.status
        /\ moved.customer = row.customer /\ moved.deposit = row.deposit
    BY <1>1, MovedKeeps DEF DemandStatus
  <2>4. /\ goal \in RequestRow /\ goal.status = row.status /\ goal.customer = row.customer
        /\ goal.deposit = row.deposit /\ goal.demands = moved.demands
    <3> HIDE DEF moved
    <3>1. QED
      BY <2>3 DEF RequestRow
  <2> HIDE DEF goal
  <2>5. MadeOf("returnReceipt", goal, row)
    BY <2>1, <2>4 DEF MadeOf
  <2>6. QED
    BY <1>1, <2>1, <2>2, <2>4, <2>5, LoadInv DEF Saves
<1>12. CASE ChangeDocument(p, r)
  <2>1. PICK next \in {"none", "blank", "unverified", "verified"} :
          Loads(p, "document", r, [row EXCEPT !.document = next])
    <3>1. row.document \in {"none", "blank", "unverified", "verified"}
      BY <1>1 DEF RequestRow
    <3>2. QED
      BY <1>12, <3>1 DEF ChangeDocument
  <2>2. [row EXCEPT !.document = next] \in RequestRow
    BY <1>1 DEF RequestRow
  <2>3. QED
    BY <1>1, <2>1, <2>2, LoadInv
<1>13. QED
  BY <1>3, <1>4, <1>5, <1>6, <1>7, <1>8, <1>9, <1>10, <1>11, <1>12

\* A payment loads its request, whoever makes it.
LEMMA PaymentLoadsInv ==
  ASSUME RegistrationsInv, OneOfEach', NEW p \in Callers, NEW r \in RequestIds,
         RecordDepositPayment(p, r)
  PROVE  RegistrationsInv'
<1> DEFINE row == request[r]
           moved == Moved(row, "RAISED", "PAID")
           goal == [moved EXCEPT !.deposit = "PAID_PENDING", !.ledger = "PAID"]
<1>1. Approved(row) /\ row \in RequestRow
  BY RowIs DEF RecordDepositPayment
<1>2. row.deposit = "REQUESTED" /\ Loads(p, "recordDepositPayment", r, goal)
  BY <1>1 DEF RecordDepositPayment, Approved
<1>3. /\ moved \in RequestRow /\ moved.status = row.status
      /\ moved.customer = row.customer
  BY <1>1, MovedKeeps DEF DemandStatus
<1>4. /\ goal \in RequestRow /\ goal.status = row.status /\ goal.customer = row.customer
      /\ goal.deposit = "PAID_PENDING" /\ goal.demands = moved.demands
  <2> HIDE DEF moved
  <2>1. QED
    BY <1>3 DEF RequestRow, DepositStatus
<1> HIDE DEF goal
<1>5. MadeOf("recordDepositPayment", goal, row)
  BY <1>2, <1>4 DEF MadeOf
<1>6. QED
  BY <1>1, <1>2, <1>4, <1>5, LoadInv DEF Saves

-----------------------------------------------------------------------------
(* The transactions commit.                                                 *)

\* One row changes and keeps its customer.
LEMMA TablesKeep ==
  ASSUME RegistrationsInv, NEW r \in RequestIds, NEW new,
         request' = [request EXCEPT ![r] = new],
         Unapproved(new) \/ Approved(new), new.customer = request[r].customer,
         customers' \in Seq(Customer), Len(customers') = Len(customers),
         \A c \in DOMAIN customers :
           /\ customers'[c].slot = customers[c].slot
           /\ customers[c].active => customers'[c].active,
         new.deposit = "VERIFIED" => customers'[new.customer].active
  PROVE  RowsWhole' /\ CustomersWhole' /\ Taken' = Taken
<1>1. RegistrationsTypeOK /\ RowsWhole /\ CustomersWhole
  BY InvParts
<1>2. DOMAIN customers' = DOMAIN customers /\ DOMAIN customers = 1..Len(customers)
  BY <1>1 DEF RegistrationsTypeOK
<1>3. request'[r] = new /\ \A s \in RequestIds \ {r} : request'[s] = request[s]
  BY <1>1 DEF RegistrationsTypeOK
<1>4. Taken' = Taken
  BY <1>2 DEF Taken
<1>5. CustomersWhole'
  <2>1. \A s \in RequestIds : request'[s].customer = request[s].customer
    BY <1>3
  <2>2. QED
    BY <1>1, <1>2, <2>1 DEF CustomersWhole
<1>6. RowsWhole'
  <2> SUFFICES ASSUME NEW s \in RequestIds
               PROVE  /\ Unapproved(request'[s]) \/ Approved(request'[s])
                      /\ request'[s].deposit = "VERIFIED" =>
                           customers'[request'[s].customer].active
    BY DEF RowsWhole
  <2>1. CASE s = r
    BY <1>3, <2>1
  <2>2. CASE s # r
    <3>1. request[s].deposit = "VERIFIED" => request[s].customer \in DOMAIN customers
      BY <1>1, <1>2 DEF RowsWhole, Approved, Unapproved, RegistrationsTypeOK
    <3>2. QED
      BY <1>1, <1>3, <2>2, <3>1 DEF RowsWhole
  <2>3. QED
    BY <2>1, <2>2
<1>7. QED
  BY <1>4, <1>5, <1>6

\* Beside a call of the staff only the payment of the customer can be in flight.
LEMMA BesideStaff ==
  ASSUME RegistrationsInv, OneOfEach, NEW p \in Staff, NEW q \in Callers \ {p},
         NEW r \in RequestIds, InFlight(p, r), InFlight(q, r)
  PROVE  q \notin Staff /\ PaymentStands(q) /\ Approved(request[r])
<1>1. q \notin Staff
  BY DEF OneOfEach, Callers
<1>2. PaymentStands(q) /\ ongoing[q].on = r
  BY <1>1 DEF RegistrationsInv, CallsStand, InFlight
<1>3. QED
  BY <1>1, <1>2 DEF PaymentStands

\* A payment in flight stands on a row the staff has changed honestly.
LEMMA PaymentGoesOn ==
  ASSUME RegistrationsInv, NEW q \in Callers, NEW r \in RequestIds, InFlight(q, r),
         q \notin Staff, PaymentStands(q), ongoing'[q] = ongoing[q],
         NEW new \in RequestRow, request'[r] = new, new.customer = request[r].customer,
         Approved(new), Honest(request[r], new)
  PROVE  CallStands(q)'
<1> DEFINE c == ongoing[q]
           row == request[r]
<1>1. /\ c.on = r /\ c.at \in {"loaded", "begun"} /\ row \in RequestRow
      /\ c.goal \in RequestRow
  BY RowIs, CallsAreCalls DEF InFlight, RegistrationsInv
<1>2. /\ c.op = "recordDepositPayment" /\ Approved(row) /\ c.goal.deposit = "PAID_PENDING"
      /\ c.goal.status = "APPROVED" /\ c.goal.customer = row.customer
  BY <1>1 DEF PaymentStands
<1>3. new.status = row.status /\ row.status = "APPROVED" /\ Backed(new)
  BY <1>2 DEF Approved
<1>4. Len(new.demands) \in Nat /\ Len(row.demands) \in Nat
  BY <1>1, DemandsAreNumbered
<1>5. Len(new.demands) >= Len(row.demands)
  <2>1. CASE Len(new.demands) > Len(row.demands)
    BY <1>4, <2>1
  <2>2. CASE new.demands = row.demands
    BY <1>4, <2>2
  <2>3. ASSUME NEW from \in DemandStatus, NEW to \in DemandStatus,
               new.demands = Moved(row, from, to).demands
        PROVE  Len(new.demands) = Len(row.demands)
    BY <1>1, <2>3, MovedKeeps
  <2>4. QED
    BY <1>4, <2>1, <2>2, <2>3 DEF Honest, DemandStatus
<1>6. CASE c.at = "loaded"
  <2>1. Pays(c.goal, row)
    BY <1>1, <1>6 DEF PaymentStands
  <2>2. Pays(c.goal, new)
    BY <1>1, <1>2, <1>3, <2>1, PaysUnder
  <2>3. PaymentStands(q)'
    BY <1>1, <1>2, <1>3, <1>4, <1>6, <2>2 DEF PaymentStands
  <2>4. QED
    BY <2>3 DEF CallStands
<1>7. CASE c.at = "begun"
  <2>1. c.snap \in RequestRow
    BY <1>7, CallsAreCalls DEF RegistrationsInv, Begun
  <2>2. /\ c.snap.status = "APPROVED" /\ c.snap.customer = row.customer
        /\ Len(c.snap.demands) <= Len(row.demands)
        /\ Backed(c.snap) /\ Pays(c.goal, c.snap)
    BY <1>1, <1>7 DEF PaymentStands
  <2>3. Len(c.snap.demands) <= Len(new.demands)
    <3>1. Len(c.snap.demands) \in Nat
      BY <2>1, DemandsAreNumbered
    <3>2. QED
      BY <1>4, <1>5, <2>2, <3>1
  <2>4. PaymentStands(q)'
    BY <1>1, <1>2, <1>3, <1>7, <2>2, <2>3 DEF PaymentStands
  <2>5. QED
    BY <2>4 DEF CallStands
<1>8. QED
  BY <1>1, <1>6, <1>7

\* As CommitInv, for a commit that creates no customer.
LEMMA CommitRowInv ==
  ASSUME RegistrationsInv, NEW p \in Callers, ongoing[p].at = "begun", Answers(p),
         NEW r \in RequestIds, r = ongoing[p].on, NEW new \in RequestRow,
         request' = [request EXCEPT ![r] = new],
         customers' \in Seq(Customer), Len(customers') = Len(customers),
         new.customer = request[r].customer,
         RowsWhole', CustomersWhole', Taken' = Taken,
         \A q \in Callers \ {p} : InFlight(q, r) => CallStands(q)'
  PROVE  RegistrationsInv'
<1>1. Len(customers) \in Nat /\ Len(customers') <= MaxCustomers
      /\ Len(customers) <= Len(customers') /\ new.customer <= Len(customers')
  BY DEF RegistrationsInv, RegistrationsTypeOK
<1>2. \A q \in Callers \ {p} : \A s \in RequestIds \ {r} :
           InFlight(q, s) /\ ongoing[q].op = "approve" =>
             (SlotOf[s] \in Taken' => SlotOf[s] \in Taken)
  OBVIOUS
<1>3. QED
  BY <1>1, <1>2, CommitInv

\* A review is saved: the row stays undecided.
LEMMA CommitReviewInv ==
  ASSUME RegistrationsInv, OneOfEach, NEW p \in Callers, NEW c, c = ongoing[p],
         c.at = "begun", c.op \in Reviews, NEW r, r = c.on, NEW row, row = request[r],
         NEW new, new = Written(c.goal, c.snap, row),
         request' = [request EXCEPT ![r] = new], Answers(p), UNCHANGED customers
  PROVE  RegistrationsInv'
<1>1. /\ c \in Begun /\ r \in RequestIds /\ row \in RequestRow
      /\ c.goal \in RequestRow /\ c.snap \in RequestRow
  BY CallsAreCalls DEF RegistrationsInv, Begun
<1>2. p \in Staff /\ StaffStands(p)
  BY DEF RegistrationsInv, CallsStand, PaymentStands, Reviews
<1>3. ReviewStands(c, row)
  BY <1>2 DEF StaffStands, Fresh, Overtaken, MadeOf, Reviews
<1>4. Unapproved(row) /\ Unapproved(c.goal) /\ Unapproved(c.snap)
  BY <1>3 DEF ReviewStands
<1>5. /\ new \in RequestRow /\ Len(new.demands) = Len(row.demands)
      /\ new.status = IF c.goal.status # c.snap.status THEN c.goal.status ELSE row.status
      /\ new.customer = IF c.goal.customer # c.snap.customer THEN c.goal.customer
                        ELSE row.customer
      /\ new.deposit = IF c.goal.deposit # c.snap.deposit THEN c.goal.deposit
                       ELSE row.deposit
  BY <1>1, WrittenIs
<1>6. new.demands = <<>>
  <2>1. new.demands \in Seq(DemandStatus) /\ Len(new.demands) = 0
    BY <1>4, <1>5, DemandsAreNumbered DEF Unapproved
  <2>2. QED
    BY <2>1
<1>7. Unapproved(new) /\ new.customer = row.customer /\ new.deposit # "VERIFIED"
  BY <1>4, <1>5, <1>6 DEF Unapproved
<1>8. customers' \in Seq(Customer) /\ Len(customers') = Len(customers)
      /\ Len(customers) \in Nat /\ Len(customers) <= MaxCustomers
  BY DEF RegistrationsInv, RegistrationsTypeOK
<1>9. RowsWhole' /\ CustomersWhole' /\ Taken' = Taken
  BY <1>1, <1>7, <1>8, TablesKeep
<1>10. \A q \in Callers \ {p} : ~InFlight(q, r)
  <2> SUFFICES ASSUME NEW q \in Callers \ {p}, InFlight(q, r) PROVE FALSE
    OBVIOUS
  <2>1. InFlight(p, r)
    BY DEF InFlight
  <2>2. Approved(row)
    BY <1>1, <1>2, <2>1, BesideStaff
  <2>3. QED
    BY <1>4, <2>2 DEF Approved, Unapproved
<1>11. \A q \in Callers \ {p} : InFlight(q, r) => CallStands(q)'
  BY <1>10
<1>12. QED
  BY <1>1, <1>5, <1>7, <1>8, <1>9, <1>11, CommitRowInv

\* The document is saved: no column of the decision is touched.
LEMMA CommitDocumentInv ==
  ASSUME RegistrationsInv, OneOfEach, NEW p \in Callers, CommitDocument(p)
  PROVE  RegistrationsInv'
<1> DEFINE c == ongoing[p]
           r == c.on
           row == request[r]
           document == Written(c.goal, c.snap, row).document
           new == [row EXCEPT !.document = document]
<1>1. /\ c \in Begun /\ r \in RequestIds /\ row \in RequestRow
      /\ c.goal \in RequestRow /\ c.snap \in RequestRow
  BY CallsAreCalls DEF RegistrationsInv, Begun, CommitDocument
<1>2. p \in Staff /\ InFlight(p, r)
  BY DEF RegistrationsInv, CallsStand, PaymentStands, CommitDocument, InFlight
<1>3. document \in {"none", "blank", "unverified", "verified"}
  <2>1. Written(c.goal, c.snap, row) \in RequestRow
    BY <1>1, WrittenIs
  <2>2. QED
    BY <2>1 DEF RequestRow
<1>4. /\ new \in RequestRow /\ Same(new, row) /\ new.customer = row.customer
      /\ new.deposit = row.deposit
  <2> HIDE DEF document
  <2>1. QED
    BY <1>1, <1>3 DEF RequestRow, Same
<1>5. request' = [request EXCEPT ![r] = new] /\ Answers(p) /\ UNCHANGED customers
  BY <1>1 DEF CommitDocument, RegistrationsInv, RegistrationsTypeOK
<1> HIDE DEF new
<1>6. Unapproved(new) \/ Approved(new)
  BY <1>1, <1>4, RowIs, SameAlike
<1>7. customers' \in Seq(Customer) /\ Len(customers') = Len(customers)
      /\ Len(customers) \in Nat /\ Len(customers) <= MaxCustomers
  BY <1>5 DEF RegistrationsInv, RegistrationsTypeOK
<1>8. RowsWhole' /\ CustomersWhole' /\ Taken' = Taken
  <2>1. new.deposit = "VERIFIED" => customers'[new.customer].active
    BY <1>1, <1>4, <1>5 DEF RegistrationsInv, RowsWhole
  <2>2. QED
    BY <1>1, <1>4, <1>5, <1>6, <1>7, <2>1, TablesKeep
<1>9. ASSUME NEW q \in Callers \ {p}, InFlight(q, r)
      PROVE  CallStands(q)'
  <2>1. q \notin Staff /\ PaymentStands(q) /\ Approved(row)
    BY <1>1, <1>2, <1>9, BesideStaff
  <2>2. Approved(new) /\ Honest(row, new)
    BY <1>1, <1>4, <2>1, SameAlike DEF Honest, Same
  <2>3. ongoing'[q] = ongoing[q] /\ request'[r] = new
    BY <1>1, <1>5 DEF Answers, RegistrationsInv, RegistrationsTypeOK
  <2>4. QED
    BY <1>1, <1>4, <1>9, <2>1, <2>2, <2>3, PaymentGoesOn
<1>10. ongoing[p].at = "begun"
  BY DEF CommitDocument
<1>11. QED
  BY <1>1, <1>4, <1>5, <1>7, <1>8, <1>9, <1>10, CommitRowInv

\* The account of a customer changes and nothing else of it.
LEMMA AccountChanges ==
  ASSUME NEW table \in Seq(Customer), NEW c \in DOMAIN table, NEW new \in Customer,
         new.slot = table[c].slot, table[c].active => new.active,
         NEW changed, changed = [table EXCEPT ![c] = new]
  PROVE  /\ changed \in Seq(Customer) /\ Len(changed) = Len(table)
         /\ \A d \in DOMAIN table :
              /\ changed[d].slot = table[d].slot
              /\ table[d].active => changed[d].active
         /\ changed[c] = new
<1>1. changed \in Seq(Customer) /\ Len(changed) = Len(table)
  OBVIOUS
<1>2. changed[c] = new /\ \A d \in DOMAIN table \ {c} : changed[d] = table[d]
  OBVIOUS
<1>3. QED
  BY <1>1, <1>2

\* The customer of the entity in hand is that of the row.
LEMMA GoalsCustomer ==
  ASSUME RegistrationsInv, NEW p \in Staff, ongoing[p].at = "begun",
         ongoing[p].op \notin Reviews \cup {"approve", "document"}
  PROVE  /\ ongoing[p].goal.customer = request[ongoing[p].on].customer
         /\ ongoing[p].goal.customer \in DOMAIN customers
<1> DEFINE c == ongoing[p]
           row == request[c.on]
<1>1. c.on \in RequestIds /\ row \in RequestRow
  BY CallsAreCalls DEF RegistrationsInv, Callers
<1>2. Approved(row) /\ (Fresh(c, row) \/ Overtaken(c, row))
  BY DEF RegistrationsInv, CallsStand, StaffStands, Callers
<1>3. c.goal.customer = row.customer
  <2>1. ASSUME NEW deposit, NEW demands
        PROVE  [row EXCEPT !.deposit = deposit, !.demands = demands].customer = row.customer
    BY <1>1 DEF RequestRow
  <2>2. CASE Fresh(c, row)
    BY <2>2 DEF Fresh, MadeOf
  <2>3. CASE Overtaken(c, row)
    <3>1. PICK deposit, demands :
            MadeOf(c.op, c.goal, [row EXCEPT !.deposit = deposit, !.demands = demands])
      BY <2>3 DEF Overtaken
    <3>2. c.goal.customer
            = [row EXCEPT !.deposit = deposit, !.demands = demands].customer
      BY <3>1 DEF MadeOf
    <3>3. QED
      BY <2>1, <3>2
  <2>4. QED
    BY <1>2, <2>2, <2>3
<1>4. row.customer \in 1..Len(customers)
  BY <1>1, <1>2 DEF RegistrationsInv, RegistrationsTypeOK, Approved
<1>5. QED
  BY <1>3, <1>4 DEF RegistrationsInv, RegistrationsTypeOK

\* A deposit call of the staff, customer and account with it.
LEMMA SettleInv ==
  ASSUME RegistrationsInv, OneOfEach, NEW p \in Staff, NEW c, c = ongoing[p],
         c.at = "begun", NEW r, r = c.on, NEW row, row = request[r],
         c.op \notin Reviews \cup {"approve", "document"},
         NEW new \in SettledBy(c, row),
         request' = [request EXCEPT ![r] = new], Answers(p),
         customers' \in Seq(Customer), Len(customers') = Len(customers),
         \A d \in DOMAIN customers :
           /\ customers'[d].slot = customers[d].slot
           /\ customers[d].active => customers'[d].active,
         c.op = "verifyDeposit" => customers'[c.goal.customer].active
  PROVE  RegistrationsInv'
<1>1. /\ c \in Begun /\ r \in RequestIds /\ row \in RequestRow /\ p \in Callers
      /\ c.goal \in RequestRow /\ c.snap \in RequestRow
  BY CallsAreCalls DEF RegistrationsInv, Begun, Callers
<1>2. /\ Approved(row)
      /\ \/ Fresh(c, row)
         \/ Overtaken(c, row) /\ \A q \in Callers \ {p} : ~InFlight(q, r)
  BY <1>1 DEF RegistrationsInv, CallsStand, StaffStands
<1>3. /\ new \in RequestRow /\ new.customer = row.customer /\ Approved(new)
      /\ Fresh(c, row) => Honest(row, new)
      /\ new.deposit = "VERIFIED" => c.op = "verifyDeposit"
  BY <1>1, <1>2, FreshSettles, LateSettles
<1>4. c.goal.customer = row.customer
  BY GoalsCustomer
<1>5. RowsWhole' /\ CustomersWhole' /\ Taken' = Taken
  BY <1>1, <1>3, <1>4, TablesKeep
<1>6. ASSUME NEW q \in Callers \ {p}, InFlight(q, r)
      PROVE  CallStands(q)'
  <2>1. InFlight(p, r)
    BY DEF InFlight
  <2>2. q \notin Staff /\ PaymentStands(q)
    BY <1>1, <1>6, <2>1, BesideStaff
  <2>3. ongoing'[q] = ongoing[q] /\ request'[r] = new
    BY <1>1 DEF Answers, RegistrationsInv, RegistrationsTypeOK
  <2>4. Honest(row, new)
    BY <1>2, <1>3, <1>6
  <2>5. QED
    BY <1>1, <1>3, <1>6, <2>2, <2>3, <2>4, PaymentGoesOn
<1>7. QED
  BY <1>1, <1>3, <1>5, <1>6, CommitRowInv

\* An approval: the customer, the status and the deposit come at once.
LEMMA CommitApproveInv ==
  ASSUME RegistrationsInv, OneOfEach, NEW p \in Callers, CommitApprove(p)
  PROVE  RegistrationsInv'
<1> DEFINE c == ongoing[p]
           r == c.on
           row == request[r]
           id == Len(customers) + 1
           goal == [c.goal EXCEPT !.customer = id]
<1>1. /\ c \in Begun /\ r \in RequestIds /\ row \in RequestRow
      /\ c.goal \in RequestRow /\ c.snap \in RequestRow
      /\ c.at = "begun" /\ c.op = "approve" /\ Answers(p)
  BY CallsAreCalls DEF RegistrationsInv, Begun, CommitApprove, InTransaction
<1>2. p \in Staff /\ StaffStands(p) /\ InFlight(p, r)
  BY <1>1 DEF RegistrationsInv, CallsStand, PaymentStands, InFlight
<1>3. ReviewStands(c, row)
  BY <1>1, <1>2 DEF StaffStands, Fresh, Overtaken, MadeOf, Reviews
<1>4. /\ Unapproved(row) /\ Unapproved(c.snap)
      /\ c.goal.status = "APPROVED" /\ c.goal.customer = 0
      /\ c.goal.deposit = "UNDECIDED" /\ c.goal.demands = <<>>
      /\ SlotOf[r] \in Taken => SlotOf[r] \in c.seen
  BY <1>1, <1>3 DEF ReviewStands
<1>5. /\ customers \in Seq(Customer) /\ Len(customers) \in Nat
      /\ Len(customers) < MaxCustomers /\ SlotOf[r] \notin c.seen
      /\ customers' = Append(customers, NewCustomer(r))
      /\ id \in 1..MaxCustomers
  BY RegistrationAssumption
  DEF CommitApprove, CreateWithManager, RegistrationsInv, RegistrationsTypeOK
<1>6. NewCustomer(r) \in Customer /\ NewCustomer(r).slot = SlotOf[r]
  BY <1>1, RegistrationAssumption DEF NewCustomer, Customer
<1>7. /\ customers' \in Seq(Customer) /\ Len(customers') = id
      /\ DOMAIN customers' = DOMAIN customers \cup {id}
      /\ id \notin DOMAIN customers /\ DOMAIN customers = 1..Len(customers)
      /\ customers'[id] = NewCustomer(r)
      /\ \A d \in DOMAIN customers : customers'[d] = customers[d]
  <2>1. ASSUME NEW S, NEW s \in Seq(S), NEW e \in S, NEW t, t = Append(s, e)
        PROVE  /\ t \in Seq(S) /\ Len(t) = Len(s) + 1
               /\ DOMAIN t = DOMAIN s \cup {Len(s) + 1}
               /\ Len(s) + 1 \notin DOMAIN s /\ DOMAIN s = 1..Len(s)
               /\ t[Len(s) + 1] = e /\ \A d \in DOMAIN s : t[d] = s[d]
    BY <2>1
  <2>2. QED
    BY <1>5, <1>6, <2>1
<1>8. /\ goal \in RequestRow /\ goal.status = "APPROVED" /\ goal.customer = id
      /\ goal.deposit = "UNDECIDED" /\ goal.demands = <<>>
  <2>1. ASSUME NEW g \in RequestRow, NEW k \in 0..MaxCustomers,
               NEW h, h = [g EXCEPT !.customer = k]
        PROVE  /\ h \in RequestRow /\ h.customer = k /\ h.status = g.status
               /\ h.deposit = g.deposit /\ h.demands = g.demands
    BY <2>1 DEF RequestRow
  <2>2. id \in 0..MaxCustomers
    BY <1>5
  <2> HIDE DEF id
  <2>3. /\ goal \in RequestRow /\ goal.customer = id /\ goal.status = c.goal.status
        /\ goal.deposit = c.goal.deposit /\ goal.demands = c.goal.demands
    BY <1>1, <2>1, <2>2
  <2>4. QED
    BY <1>4, <2>3
<1>9. PICK new :
        /\ request' = [request EXCEPT ![r] = new]
        /\ \/ new = Written([goal EXCEPT !.deposit = "NOT_REQUIRED"], c.snap, row)
           \/ new = DemandRaised(goal, c.snap, row)
  <2>1. Demands(goal, "VERIFIED") = {}
    BY <1>8 DEF Demands
  <2>2. PICK new \in RaiseDepositDemandIfRequired(goal, c.snap, row) :
          request' = [request EXCEPT ![r] = new]
    BY <2>1 DEF CommitApprove
  <2>3. QED
    BY <2>2 DEF RaiseDepositDemandIfRequired
<1> HIDE DEF goal
<1>10. /\ new \in RequestRow /\ new.customer = id /\ Approved(new)
       /\ new.deposit # "VERIFIED"
  <2>1. ASSUME NEW d \in DepositStatus \ {"UNDECIDED"}, NEW w,
               w = Written([goal EXCEPT !.deposit = d], c.snap, row)
        PROVE  /\ w \in RequestRow /\ w.customer = id /\ w.status = "APPROVED"
               /\ w.deposit = d
    <3> DEFINE g == [goal EXCEPT !.deposit = d]
    <3>1. /\ g \in RequestRow /\ g.status = "APPROVED" /\ g.customer = id /\ g.deposit = d
      BY <1>8 DEF RequestRow
    <3> HIDE DEF g
    <3>2. w = Written(g, c.snap, row)
      BY <2>1 DEF g
    <3>3. /\ w \in RequestRow
          /\ w.status = IF g.status # c.snap.status THEN g.status ELSE row.status
          /\ w.customer = IF g.customer # c.snap.customer THEN g.customer ELSE row.customer
          /\ w.deposit = IF g.deposit # c.snap.deposit THEN g.deposit ELSE row.deposit
      BY <1>1, <3>1, <3>2, WrittenIs
    <3>4. c.snap.status # "APPROVED" /\ c.snap.customer = 0 /\ c.snap.deposit = "UNDECIDED"
      BY <1>4 DEF Unapproved
    <3>5. QED
      BY <1>5, <3>1, <3>3, <3>4
  <2>2. id # 0
    BY <1>5
  <2>3. CASE new = Written([goal EXCEPT !.deposit = "NOT_REQUIRED"], c.snap, row)
    <3>1. /\ new \in RequestRow /\ new.customer = id /\ new.status = "APPROVED"
          /\ new.deposit = "NOT_REQUIRED"
      BY <2>1, <2>3 DEF DepositStatus
    <3>2. QED
      BY <2>2, <3>1 DEF Approved, Backed
  <2>4. CASE new = DemandRaised(goal, c.snap, row)
    <3> DEFINE w == Written([goal EXCEPT !.deposit = "REQUESTED"], c.snap, row)
    <3>1. /\ w.customer = id /\ w.status = "APPROVED" /\ w.deposit = "REQUESTED"
      BY <2>1 DEF DepositStatus
    <3>2. /\ new \in RequestRow
          /\ new.status = w.status /\ new.customer = w.customer /\ new.deposit = w.deposit
          /\ Demands(new, "RAISED") # {}
      BY <1>1, <1>8, <2>4, RaisedIs
    <3> HIDE DEF w
    <3>3. QED
      BY <2>2, <3>1, <3>2 DEF Approved, Backed
  <2>5. QED
    BY <1>9, <2>3, <2>4
<1>11. request'[r] = new /\ \A s \in RequestIds \ {r} : request'[s] = request[s]
  BY <1>1, <1>9 DEF RegistrationsInv, RegistrationsTypeOK
<1>12. RowsWhole'
  <2> SUFFICES ASSUME NEW s \in RequestIds
               PROVE  /\ Unapproved(request'[s]) \/ Approved(request'[s])
                      /\ request'[s].deposit = "VERIFIED" =>
                           customers'[request'[s].customer].active
    BY DEF RowsWhole
  <2>1. CASE s = r
    BY <1>10, <1>11, <2>1
  <2>2. CASE s # r
    <3>1. request[s].deposit = "VERIFIED" => request[s].customer \in DOMAIN customers
      BY <1>7 DEF RegistrationsInv, RowsWhole, Approved, Unapproved, RegistrationsTypeOK
    <3>2. QED
      BY <1>7, <1>11, <2>2, <3>1 DEF RegistrationsInv, RowsWhole
  <2>3. QED
    BY <2>1, <2>2
<1>13. SlotOf[r] \notin Taken
  BY <1>4, <1>5
<1>14. CustomersWhole'
  <2>1. ASSUME NEW d \in DOMAIN customers
        PROVE  /\ \E s \in RequestIds : request'[s].customer = d
               /\ customers'[d].slot \in Taken
               /\ \A e \in DOMAIN customers : customers'[d].slot = customers'[e].slot => d = e
    <3>1. PICK s \in RequestIds : request[s].customer = d
      BY DEF RegistrationsInv, CustomersWhole
    <3>2. s # r
      BY <1>4, <1>7, <3>1 DEF Unapproved
    <3>3. request'[s].customer = d
      BY <1>11, <3>1, <3>2
    <3>4. QED
      BY <1>7, <3>3 DEF RegistrationsInv, CustomersWhole, Taken
  <2>2. request'[r].customer = id /\ customers'[id].slot = SlotOf[r]
    BY <1>6, <1>7, <1>10, <1>11
  <2>3. QED
    BY <1>1, <1>7, <1>13, <2>1, <2>2 DEF CustomersWhole
<1>15. \A q \in Callers \ {p} : InFlight(q, r) => CallStands(q)'
  <2> SUFFICES ASSUME NEW q \in Callers \ {p}, InFlight(q, r) PROVE FALSE
    OBVIOUS
  <2>1. Approved(row)
    BY <1>1, <1>2, BesideStaff
  <2>2. QED
    BY <1>4, <2>1 DEF Approved, Unapproved
<1>16. Taken' = Taken \cup {SlotOf[r]}
  BY <1>6, <1>7 DEF Taken
<1>17. ASSUME NEW q \in Callers \ {p}, NEW s \in RequestIds \ {r},
              InFlight(q, s), ongoing[q].op = "approve", SlotOf[s] \in Taken'
       PROVE  SlotOf[s] \in Taken
  <2>1. SlotOf[r] # SlotOf[s]
    BY <1>1, <1>2, <1>17 DEF OneOfEach
  <2>2. QED
    BY <1>16, <1>17, <2>1
<1>18. /\ Len(customers) <= Len(customers') /\ Len(customers') <= MaxCustomers
       /\ new.customer <= Len(customers')
  BY <1>5, <1>7, <1>10
<1>19. QED
  BY <1>1, <1>7, <1>9, <1>10, <1>12, <1>14, <1>15, <1>17, <1>18, CommitInv

\* A call of the staff stands on the row the customer's payment was recorded in.
LEMMA PaidUnder ==
  ASSUME RegistrationsInv, OneOfEach, NEW p \in Callers \ Staff, NEW q \in Callers \ {p},
         NEW r \in RequestIds, InFlight(p, r), InFlight(q, r), Answers(p),
         NEW row, row = request[r], Approved(row),
         NEW new \in RequestRow, request'[r] = new,
         new.status = row.status, new.customer = row.customer, Approved(new),
         Len(new.demands) = Len(row.demands),
         new.deposit = "PAID_PENDING" \/ Same(new, row)
  PROVE  CallStands(q)'
<1> DEFINE c == ongoing[q]
<1>1. /\ c.on = r /\ c.at \in {"loaded", "begun"} /\ row \in RequestRow
      /\ c.goal \in RequestRow /\ (c.at = "begun" => c.snap \in RequestRow)
  BY RowIs, CallsAreCalls DEF InFlight, RegistrationsInv, Begun
<1>2. q \in Staff
  BY DEF OneOfEach
<1>3. StaffStands(q)
  BY <1>1, <1>2 DEF RegistrationsInv, CallsStand
<1>4. /\ ongoing'[q] = c /\ ongoing'[p] = Idle
      /\ \A o \in Callers \ {p} : ongoing'[o] = ongoing[o]
  BY DEF Answers, RegistrationsInv, RegistrationsTypeOK
<1>5. CASE c.op = "document"
  BY <1>1, <1>2, <1>4, <1>5 DEF CallStands, StaffStands
<1>6. CASE c.op \in Reviews \cup {"approve"} /\ ReviewStands(c, row)
  BY <1>6 DEF ReviewStands, Approved, Unapproved
<1>7. CASE Overtaken(c, row) /\ \A o \in Callers \ {q} : ~InFlight(o, c.on)
  BY <1>1, <1>7
<1>8. CASE Fresh(c, row) /\ Same(new, row)
  <2>1. MadeOf(c.op, c.goal, new)
    BY <1>1, <1>8, SameAlike DEF Fresh
  <2>2. c.at = "begun" => Same(c.snap, new)
    BY <1>8 DEF Fresh, Same
  <2>3. Fresh(c, new)
    BY <2>1, <2>2 DEF Fresh
  <2>4. StaffStands(q)'
    BY <1>1, <1>4, <2>3 DEF StaffStands
  <2>5. QED
    BY <1>2, <2>4 DEF CallStands
<1>9. CASE Fresh(c, row) /\ new.deposit = "PAID_PENDING"
  <2> DEFINE deposit == row.deposit
             demands == row.demands
             old == [new EXCEPT !.deposit = deposit, !.demands = demands]
  <2>1. /\ deposit \in DepositStatus /\ demands \in Seq(DemandStatus)
        /\ demands \in [DOMAIN new.demands -> DemandStatus]
    BY <1>1, DemandsAreNumbered DEF RequestRow
  <2>2. old \in RequestRow /\ Same(old, row)
    <3>1. /\ old \in RequestRow /\ old.status = new.status /\ old.customer = new.customer
          /\ old.deposit = deposit /\ old.demands = demands
      <4>1. deposit \in DepositStatus /\ demands \in Seq(DemandStatus)
        BY <2>1
      <4> HIDE DEF deposit, demands
      <4>2. QED
        BY <4>1 DEF RequestRow
    <3>2. QED
      BY <3>1 DEF Same
  <2>3. Backed(old) /\ MadeOf(c.op, c.goal, old) /\ (c.at = "begun" => Same(c.snap, old))
    <3> HIDE DEF old
    <3>1. MadeOf(c.op, c.goal, old) /\ Approved(old)
      BY <1>1, <1>9, <2>2, SameAlike DEF Fresh
    <3>2. QED
      BY <1>9, <2>2, <3>1 DEF Fresh, Same, Approved
  <2>4. Overtaken(c, new)
    BY <1>9, <2>1, <2>3 DEF Overtaken
  <2>5. \A o \in Callers \ {q} : ~InFlight(o, r)'
    <3> SUFFICES ASSUME NEW o \in Callers \ {q}, InFlight(o, r)' PROVE FALSE
      OBVIOUS
    <3>1. o # p
      BY <1>4 DEF InFlight, Idle
    <3>2. InFlight(o, r)
      BY <1>4, <3>1 DEF InFlight
    <3>3. QED
      BY <1>2, <3>1, <3>2 DEF OneOfEach
  <2>6. StaffStands(q)'
    <3>1. (\A o \in Callers \ {q} : ~InFlight(o, ongoing[q].on))'
      BY <1>1, <1>4, <2>5
    <3>2. QED
      BY <1>1, <1>4, <2>4, <3>1 DEF StaffStands
  <2>7. QED
    BY <1>2, <2>6 DEF CallStands
<1>10. QED
  BY <1>1, <1>3, <1>5, <1>6, <1>7, <1>8, <1>9 DEF StaffStands

\* The customer's payment is recorded, beside a call of the staff.
LEMMA CommitPaymentInv ==
  ASSUME RegistrationsInv, OneOfEach, NEW p \in Callers \ Staff, NEW c, c = ongoing[p],
         c.at = "begun", c.op = "recordDepositPayment", ~Detaches(c.goal, c.snap),
         NEW r, r = c.on, NEW row, row = request[r],
         NEW new, new = Written(c.goal, c.snap, row),
         request' = [request EXCEPT ![r] = new], Answers(p), UNCHANGED customers
  PROVE  RegistrationsInv'
<1>1. /\ c \in Begun /\ r \in RequestIds /\ row \in RequestRow
      /\ c.goal \in RequestRow /\ c.snap \in RequestRow
  BY CallsAreCalls DEF RegistrationsInv, Begun
<1>2. PaymentStands(p)
  BY DEF RegistrationsInv, CallsStand
<1>3. /\ Approved(row) /\ c.goal.deposit = "PAID_PENDING"
      /\ c.goal.status = "APPROVED" /\ c.goal.customer = row.customer
      /\ c.snap.status = "APPROVED" /\ c.snap.customer = row.customer
      /\ Len(c.snap.demands) <= Len(row.demands)
      /\ Backed(c.snap) /\ Pays(c.goal, c.snap)
  BY <1>2 DEF PaymentStands
<1>4. Len(c.snap.demands) <= Len(c.goal.demands)
  BY <1>1, DemandsAreNumbered DEF Detaches
<1>5. /\ new \in RequestRow /\ new.customer = row.customer /\ Approved(new)
      /\ Len(new.demands) = Len(row.demands)
      /\ new.deposit = "PAID_PENDING" \/ Same(new, row)
  BY <1>1, <1>3, <1>4, PaymentSettles
<1>6. customers' \in Seq(Customer) /\ Len(customers') = Len(customers)
  BY DEF RegistrationsInv, RegistrationsTypeOK
<1>7. RowsWhole' /\ CustomersWhole' /\ Taken' = Taken
  <2>1. new.deposit = "VERIFIED" => customers'[new.customer].active
    BY <1>1, <1>5 DEF RegistrationsInv, RowsWhole, Same
  <2>2. QED
    BY <1>1, <1>5, <1>6, <2>1, TablesKeep
<1>8. ASSUME NEW q \in Callers \ {p}, InFlight(q, r)
      PROVE  CallStands(q)'
  <2>1. InFlight(p, r)
    BY DEF InFlight
  <2>2. request'[r] = new /\ new.status = row.status
    BY <1>1, <1>3, <1>5 DEF RegistrationsInv, RegistrationsTypeOK, Approved
  <2>3. QED
    BY <1>1, <1>3, <1>5, <1>8, <2>1, <2>2, PaidUnder
<1>9. QED
  BY <1>1, <1>5, <1>6, <1>7, <1>8, CommitRowInv

-----------------------------------------------------------------------------
(* Every step.                                                              *)

\* A payment is saved, by the staff or by the customer.
LEMMA PaymentCommitsInv ==
  ASSUME RegistrationsInv, OneOfEach, NEW p \in Callers, CommitSave(p),
         ongoing[p].op = "recordDepositPayment"
  PROVE  RegistrationsInv'
<1> DEFINE c == ongoing[p]
           r == c.on
           row == request[r]
           new == Written(c.goal, c.snap, row)
<1>1. c.at = "begun" /\ ~Detaches(c.goal, c.snap) /\ Answers(p) /\ UNCHANGED customers
  BY DEF CommitSave, InTransaction
<1>2. request' = [request EXCEPT ![r] = new]
  BY DEF CommitSave
<1>3. customers \in Seq(Customer)
  BY DEF RegistrationsInv, RegistrationsTypeOK
<1> HIDE DEF new
<1>4. CASE p \in Staff
  <2>1. Written(c.goal, c.snap, row) \in SettledBy(c, row)
    BY DEF SettledBy
  <2>2. c.op \notin Reviews \cup {"approve", "document"} /\ c.op # "verifyDeposit"
    BY DEF Reviews
  <2>3. QED
    BY <1>1, <1>2, <1>3, <1>4, <2>1, <2>2, SettleInv DEF new
<1>5. CASE p \notin Staff
  <2>1. new = Written(c.goal, c.snap, row)
    BY DEF new
  <2>2. QED
    BY <1>1, <1>2, <1>5, <2>1, CommitPaymentInv
<1>6. QED
  BY <1>4, <1>5

\* The deposit calls that only the staff makes.
LEMMA StaffCommitsInv ==
  ASSUME RegistrationsInv, OneOfEach, NEW p \in Callers,
         CommitRequestDeposit(p) \/ CommitReturnReceipt(p) \/ CommitVerify(p)
  PROVE  RegistrationsInv'
<1> DEFINE c == ongoing[p]
           r == c.on
           row == request[r]
<1>1. /\ c.at = "begun" /\ Answers(p)
      /\ c.op \in {"requestDeposit", "returnReceipt", "verifyDeposit"}
  BY DEF CommitRequestDeposit, CommitReturnReceipt, CommitVerify, InTransaction
<1>2. p \in Staff
  BY <1>1 DEF RegistrationsInv, CallsStand, PaymentStands
<1>3. c.op \notin Reviews \cup {"approve", "document"}
  BY <1>1 DEF Reviews
<1>4. customers \in Seq(Customer)
  BY DEF RegistrationsInv, RegistrationsTypeOK
<1>5. CASE CommitRequestDeposit(p)
  <2>1. c.op = "requestDeposit" /\ UNCHANGED customers
    BY <1>5 DEF CommitRequestDeposit, InTransaction
  <2>2. PICK new \in SettledBy(c, row) : request' = [request EXCEPT ![r] = new]
    BY <1>5, <2>1 DEF CommitRequestDeposit, SettledBy
  <2>3. QED
    BY <1>1, <1>2, <1>3, <1>4, <2>1, <2>2, SettleInv
<1>6. CASE CommitReturnReceipt(p)
  <2>1. c.op = "returnReceipt" /\ UNCHANGED customers
    BY <1>6 DEF CommitReturnReceipt, InTransaction
  <2>2. PICK new \in SettledBy(c, row) : request' = [request EXCEPT ![r] = new]
    BY <1>6, <2>1 DEF CommitReturnReceipt, SettledBy
  <2>3. QED
    BY <1>1, <1>2, <1>3, <1>4, <2>1, <2>2, SettleInv
<1>7. CASE CommitVerify(p)
  <2>1. /\ c.op = "verifyDeposit"
        /\ customers' = [customers EXCEPT ![c.goal.customer].active = TRUE]
    BY <1>7 DEF CommitVerify, InTransaction
  <2>2. PICK new \in SettledBy(c, row) : request' = [request EXCEPT ![r] = new]
    BY <1>7, <2>1 DEF CommitVerify, SettledBy
  <2>3. c.goal.customer \in DOMAIN customers
    BY <1>1, <1>2, <1>3, GoalsCustomer
  <2>4. /\ customers' \in Seq(Customer) /\ Len(customers') = Len(customers)
        /\ \A d \in DOMAIN customers :
             /\ customers'[d].slot = customers[d].slot
             /\ customers[d].active => customers'[d].active
        /\ customers'[c.goal.customer].active
    <3> DEFINE d == c.goal.customer
               changed == [customers[d] EXCEPT !.active = TRUE]
    <3>1. d \in DOMAIN customers /\ customers[d] \in Customer
      BY <1>4, <2>3
    <3>2. customers' = [customers EXCEPT ![d] = changed]
      BY <2>1
    <3> HIDE DEF d
    <3>3. changed \in Customer /\ changed.slot = customers[d].slot /\ changed.active
      BY <3>1 DEF Customer
    <3> HIDE DEF changed
    <3>4. QED
      BY <1>4, <3>1, <3>2, <3>3, AccountChanges DEF d
  <2>5. QED
    BY <1>1, <1>2, <1>3, <2>2, <2>4, SettleInv
<1>8. QED
  BY <1>5, <1>6, <1>7

\* The customer activates the account, or a call fails.
LEMMA ActivationInv ==
  ASSUME RegistrationsInv, NEW p \in Callers,
         \/ \E c \in DOMAIN customers : ActivateReads(p, c)
         \/ ActivateCommits(p)
         \/ Fails(p)
  PROVE  RegistrationsInv'
<1>1. /\ customers \in Seq(Customer) /\ DOMAIN customers = 1..Len(customers)
      /\ Len(customers) \in Nat /\ Len(customers) <= MaxCustomers
  BY DEF RegistrationsInv, RegistrationsTypeOK
<1>2. ASSUME NEW c \in DOMAIN customers, ActivateReads(p, c)
      PROVE  RegistrationsInv'
  <2> DEFINE record == [at |-> "activating", customer |-> c, resolved |-> Resolved(c)]
  <2>1. c \in 1..MaxCustomers
    BY <1>1, RegistrationAssumption
  <2>2. Resolved(c) \in BOOLEAN
    BY DEF Resolved
  <2>3. record \in Activate
    BY <2>1, <2>2, Zenon DEF Activate
  <2>4. ongoing' = [ongoing EXCEPT ![p] = record] /\ UNCHANGED <<request, customers>>
    BY <1>2 DEF ActivateReads, Starts
  <2> HIDE DEF record
  <2>5. QED
    BY <1>1, <2>3, <2>4, QuietInv
<1>3. CASE ActivateCommits(p)
  <2> DEFINE c == ongoing[p].customer
             resolved == ongoing[p].resolved
             new == [customers[c] EXCEPT !.password = TRUE, !.active = @ \/ resolved]
  <2>1. customers' = [customers EXCEPT ![c] = new]
    BY <1>3 DEF ActivateCommits
  <2>2. /\ ongoing[p].at = "activating" /\ resolved \in BOOLEAN
        /\ ongoing' = [ongoing EXCEPT ![p] = Idle] /\ UNCHANGED request
    BY <1>3, CallsAreCalls DEF ActivateCommits, Answers, Activate, RegistrationsInv
  <2>3. CASE c \notin DOMAIN customers
    <3>1. customers' = customers
      BY <1>1, <2>1, <2>3
    <3>2. QED
      BY <1>1, <2>2, <3>1, QuietInv
  <2>4. CASE c \in DOMAIN customers
    <3>1. customers[c] \in Customer
      BY <1>1, <2>4
    <3>2. /\ new \in Customer /\ new.slot = customers[c].slot
          /\ customers[c].active => new.active
      <4> HIDE DEF c, resolved
      <4>1. QED
        BY <2>2, <3>1 DEF Customer
    <3> HIDE DEF new
    <3>3. /\ customers' \in Seq(Customer) /\ Len(customers') = Len(customers)
          /\ \A d \in DOMAIN customers :
               /\ customers'[d].slot = customers[d].slot
               /\ customers[d].active => customers'[d].active
      BY <1>1, <2>1, <2>4, <3>2, AccountChanges
    <3>4. QED
      BY <2>2, <3>3, QuietInv
  <2>5. QED
    BY <2>3, <2>4
<1>4. CASE Fails(p)
  BY <1>1, <1>4, QuietInv DEF Fails, Answers
<1>5. QED
  BY <1>2, <1>3, <1>4

\* Every step, by its actions.
LEMMA StepInv ==
  ASSUME RegistrationsInv, OneOfEach, OneOfEach', RegistrationsNext
  PROVE  RegistrationsInv'
<1>1. ASSUME NEW p \in Staff, NEW r \in RequestIds,
             \/ UpdateDraft(p, r) \/ SendToResident(p, r) \/ SubmitForReview(p, r)
             \/ ReturnToResident(p, r) \/ Approve(p, r) \/ Reject(p, r)
             \/ RequestDeposit(p, r) \/ VerifyDeposit(p, r)
             \/ ReturnReceiptForCorrection(p, r) \/ ChangeDocument(p, r)
      PROVE  RegistrationsInv'
  BY <1>1, StaffLoadsInv
<1>2. ASSUME NEW p \in Callers, NEW r \in RequestIds, RecordDepositPayment(p, r)
      PROVE  RegistrationsInv'
  BY <1>2, PaymentLoadsInv
<1>3. ASSUME NEW p \in Callers,
             \/ \E c \in DOMAIN customers : ActivateReads(p, c)
             \/ ActivateCommits(p) \/ Fails(p)
      PROVE  RegistrationsInv'
  BY <1>3, ActivationInv
<1>4. ASSUME NEW p \in Callers, Begins(p)
      PROVE  RegistrationsInv'
  BY <1>4, BeginInv
<1>5. ASSUME NEW p \in Callers, CommitSave(p)
      PROVE  RegistrationsInv'
  <2>1. CASE ongoing[p].op = "recordDepositPayment"
    BY <1>5, <2>1, PaymentCommitsInv
  <2>2. CASE ongoing[p].op \in Reviews
    <3> DEFINE new == Written(ongoing[p].goal, ongoing[p].snap, request[ongoing[p].on])
    <3>1. /\ ongoing[p].at = "begun" /\ Answers(p) /\ UNCHANGED customers
          /\ request' = [request EXCEPT ![ongoing[p].on] = new]
      BY <1>5 DEF CommitSave, InTransaction
    <3> HIDE DEF new
    <3>2. new = Written(ongoing[p].goal, ongoing[p].snap, request[ongoing[p].on])
      BY DEF new
    <3>3. QED
      BY <2>2, <3>1, <3>2, CommitReviewInv
  <2>3. QED
    BY <1>5, <2>1, <2>2 DEF CommitSave, InTransaction, Reviews
<1>6. ASSUME NEW p \in Callers, CommitDocument(p)
      PROVE  RegistrationsInv'
  BY <1>6, CommitDocumentInv
<1>7. ASSUME NEW p \in Callers, CommitApprove(p)
      PROVE  RegistrationsInv'
  BY <1>7, CommitApproveInv
<1>8. ASSUME NEW p \in Callers,
             CommitRequestDeposit(p) \/ CommitReturnReceipt(p) \/ CommitVerify(p)
      PROVE  RegistrationsInv'
  BY <1>8, StaffCommitsInv
<1>9. QED
  BY <1>1, <1>2, <1>3, <1>4, <1>5, <1>6, <1>7, <1>8 DEF RegistrationsNext, Callers

\* A step that changes nothing of the requests.
LEMMA RegistrationsStutter ==
  ASSUME RegistrationsInv, UNCHANGED registrationsVars
  PROVE  RegistrationsInv'
<1>1. RegistrationsTypeOK' /\ RowsWhole' /\ CustomersWhole'
  BY DEF RegistrationsInv, registrationsVars, RegistrationsTypeOK, RowsWhole, CustomersWhole
<1>2. Taken' = Taken
  BY DEF registrationsVars, Taken
<1>3. ASSUME NEW q \in Callers PROVE CallStands(q)'
  <2>1. /\ ongoing'[q] = ongoing[q]
        /\ request'[ongoing[q].on] = request[ongoing[q].on]
        /\ CallStands(q)
    BY InvParts DEF registrationsVars
  <2>2. \A o \in Callers \ {q} :
          InFlight(o, ongoing[q].on)' => InFlight(o, ongoing[q].on)
    BY DEF registrationsVars, InFlight
  <2>3. QED
    BY <1>2, <2>1, <2>2, OtherStands
<1>4. RegistrationsInv' <=>
        RegistrationsTypeOK' /\ RowsWhole' /\ CustomersWhole' /\ \A q \in Callers : CallStands(q)'
  BY DEF RegistrationsInv, CallsStand, CallStands
<1>5. QED
  BY <1>1, <1>3, <1>4

-----------------------------------------------------------------------------

\* While at most one call of the staff and one payment of the customer are in flight
\* on a request, and of two approvals at most one for a slot, the invariant holds of
\* every reachable state: each row is undecided or decided as a whole, and each call
\* in flight still fits the row it will be written over.
THEOREM RegistrationsInvariant == RegistrationsSpec /\ []OneOfEach => []RegistrationsInv
<1>1. RegistrationsInit => RegistrationsInv
  BY RegistrationsStart
<1>2. /\ RegistrationsInv /\ OneOfEach /\ OneOfEach'
      /\ [RegistrationsNext]_registrationsVars
      => RegistrationsInv'
  BY StepInv, RegistrationsStutter
<1>3. QED
  BY <1>1, <1>2, PTL DEF RegistrationsSpec

\* Then a requested deposit has a demand to pay, a paid one a demand to verify, a
\* verified one a verified demand and an active account (recordDepositPayment,
\* returnReceiptForCorrection, verifyDeposit).
THEOREM DepositBackedHolds == RegistrationsSpec /\ []OneOfEach => []DepositBacked
<1>1. ASSUME RegistrationsInv PROVE DepositBacked
  <2> SUFFICES ASSUME NEW r \in RequestIds
               PROVE  /\ Backed(request[r])
                      /\ request[r].deposit = "VERIFIED" =>
                           /\ request[r].customer # 0
                           /\ customers[request[r].customer].active
    BY DEF DepositBacked, Backed
  <2>1. Unapproved(request[r]) => Backed(request[r]) /\ request[r].deposit # "VERIFIED"
    BY DEF Unapproved, Backed
  <2>2. QED
    BY <1>1, <2>1 DEF RegistrationsInv, RowsWhole, Approved
<1>2. QED
  BY <1>1, RegistrationsInvariant, PTL

\* Then an approval, its customer and its deposit decision come and stay together,
\* and no slot has two customers (approve, createWithManager).
THEOREM ApprovalIsWholeHolds == RegistrationsSpec /\ []OneOfEach => []ApprovalIsWhole
<1>1. ASSUME RegistrationsInv PROVE ApprovalIsWhole
  <2>1. \A r \in RequestIds :
          /\ request[r].customer # 0 <=> request[r].status = "APPROVED"
          /\ request[r].customer # 0 <=> request[r].deposit # "UNDECIDED"
    BY <1>1 DEF RegistrationsInv, RowsWhole, Approved, Unapproved
  <2>2. QED
    BY <1>1, <2>1 DEF RegistrationsInv, CustomersWhole, ApprovalIsWhole
<1>2. QED
  BY <1>1, RegistrationsInvariant, PTL
=============================================================================
