------------------------------- MODULE Accounts -------------------------------
(***************************************************************************)
(* Staff accounts and the roles they hold: UserService (create, update,    *)
(* addRoles, removeRole, remove), UserRoleService and RoleService (update, *)
(* remove) over users, user_roles and roles.                               *)
(*                                                                         *)
(* A request reads the rows it decides on, then opens a transaction.  The  *)
(* first consistent read of a transaction fixes its snapshot; its locking  *)
(* reads, inserts and deletes see what is committed.  A transaction that   *)
(* locks the SUPER_ADMIN holders keeps the lock to its end, so its check   *)
(* and its writes are one step here.                                       *)
(*                                                                         *)
(* TypeORM's save writes the columns in which the entity, read before the  *)
(* transaction, differs from the row in the snapshot, deleted rows         *)
(* included.                                                               *)
(***************************************************************************)
CONSTANTS
  Users, Roles,
  SuperAdmin,   \* the SUPER_ADMIN role
  Emails,       \* e-mail addresses
  Requests,     \* bound: requests, each made once
  Edits,        \* the bodies of PATCH /users/:id
  Seed, SeedHeld  \* the accounts at the start, and the roles they hold

Row == [state: {"none", "live", "deleted"}, active: BOOLEAN, email: Emails \cup {"tombstone"}]
Edit == [active: {"keep", "on", "off"}, email: Emails \cup {"keep"}]
NoRow == [state |-> "none", active |-> FALSE, email |-> "tombstone"]
KeepAll == [active |-> "keep", email |-> "keep"]

ASSUME AccountsAssumption ==
  /\ SuperAdmin \in Roles
  /\ "tombstone" \notin Emails /\ "keep" \notin Emails
  /\ Edits \subseteq Edit
  /\ Seed \in [Users -> Row]
  /\ SeedHeld \subseteq Users \X Roles
  /\ \A u \in Users :
       /\ Seed[u].state = "live" => Seed[u].email \in Emails
       /\ \A v \in Users : Seed[u].email = Seed[v].email /\ Seed[u].email \in Emails => u = v

VARIABLES
  users,   \* users[u]
  held,    \* user_roles: pairs of a user and a role
  roles,   \* roles[r]: live or deleted
  call     \* call[q]: the request q

vars == <<users, held, roles, call>>

New == [at |-> "new"]
Ended == [at |-> "ended"]
Ops == {"create", "update", "addRoles", "removeRole", "remove", "editRole", "deleteRole"}
Call == [op: Ops, at: {"load", "check", "begin", "commit"},
         actor: Users, super: BOOLEAN, user: Users, roles: SUBSET Roles,
         edit: Edit, row: Row, snap: Row, heldSnap: SUBSET Roles, roleSnap: {"live", "deleted"}]

Live(u) == users[u].state = "live"
Held(u) == {r \in Roles : <<u, r>> \in held}
LiveRoles(u) == {r \in Held(u) : roles[r] = "live"}
\* lockActiveSuperAdminHolders
Admins == {u \in Users : Live(u) /\ users[u].active /\ SuperAdmin \in Held(u)}

TypeOK ==
  /\ users \in [Users -> Row]
  /\ held \subseteq Users \X Roles
  /\ roles \in [Roles -> {"live", "deleted"}]
  /\ call \in [Requests -> {New, Ended} \cup Call]

Init ==
  /\ users = Seed /\ held = SeedHeld
  /\ roles = [r \in Roles |-> "live"]
  /\ call = [q \in Requests |-> New]

At(q, op, step) == call[q] \notin {New, Ended} /\ call[q].op = op /\ call[q].at = step
Goto(q, step) == call' = [call EXCEPT ![q].at = step]
End(q) == call' = [call EXCEPT ![q] = Ended]

-----------------------------------------------------------------------------
\* JwtStrategy: the caller has an active account with a role, and is a SUPER_ADMIN
\* or not, for the whole request, by what it holds now.
Ask(q, op, a, u, rs, edit) ==
  /\ call[q] = New
  /\ Live(a) /\ users[a].active /\ LiveRoles(a) # {}
  /\ call' = [call EXCEPT ![q] =
       [op |-> op, at |-> IF op \in {"update", "editRole"} THEN "load" ELSE "check",
        actor |-> a, super |-> SuperAdmin \in Held(a), user |-> u, roles |-> rs,
        edit |-> edit, row |-> NoRow, snap |-> NoRow, heldSnap |-> {}, roleSnap |-> "live"]]
  /\ UNCHANGED <<users, held, roles>>

\* A check refuses, an await fails, the process dies: the transaction rolls back.
Refused(q) ==
  /\ call[q] \notin {New, Ended}
  /\ End(q)
  /\ UNCHANGED <<users, held, roles>>

\* assertActorMayModifyUser, outside a transaction.
MayModify(q, u) == call[q].super \/ SuperAdmin \notin Held(u)
\* assertMayGrant
MayGrant(q, rs) == call[q].super \/ SuperAdmin \notin rs
NotSelf(q) == call[q].actor # call[q].user

-----------------------------------------------------------------------------
\* create: the address is free and the roles exist.
CreateChecks(q) ==
  /\ At(q, "create", "check")
  /\ ~ \E v \in Users : Live(v) /\ users[v].email = call[q].edit.email
  /\ \A r \in call[q].roles : roles[r] = "live"
  /\ MayGrant(q, call[q].roles)
  /\ Goto(q, "commit")
  /\ UNCHANGED <<users, held, roles>>

\* Mutant: the release does not look whether the holder is deleted.
ReleasedFromAll(mail, u) ==
  [v \in Users |->
     IF users[v].email = mail /\ v # u
     THEN [users[v] EXCEPT !.email = "tombstone"] ELSE users[v]]

\* releaseDeletedHolders: deleted accounts other than u give the address up.
Released(mail, u) ==
  [v \in Users |->
     IF users[v].state = "deleted" /\ users[v].email = mail /\ v # u
     THEN [users[v] EXCEPT !.email = "tombstone"] ELSE users[v]]

\* create: the account, under the unique index on the address, and its roles.
CreateCommits(q) ==
  /\ At(q, "create", "commit")
  /\ \E u \in Users :
       LET mail  == call[q].edit.email
           freed == Released(mail, u)
       IN /\ users[u].state = "none"
          /\ \A v \in Users \ {u} : freed[v].email # mail
          /\ users' = [freed EXCEPT ![u] = [state |-> "live", email |-> mail,
                                            active |-> call[q].edit.active # "off"]]
          /\ held' = held \cup ({u} \X call[q].roles)
  /\ End(q)
  /\ UNCHANGED roles

-----------------------------------------------------------------------------
\* update: findOne.
UpdateLoads(q) ==
  /\ At(q, "update", "load")
  /\ Live(call[q].user)
  /\ call' = [call EXCEPT ![q].at = "check", ![q].row = users[call[q].user]]
  /\ UNCHANGED <<users, held, roles>>

Deactivating(q) == call[q].edit.active = "off" /\ call[q].row.active

UpdateChecks(q) ==
  LET mail == call[q].edit.email
  IN /\ At(q, "update", "check")
     /\ MayModify(q, call[q].user)
     /\ Deactivating(q) => NotSelf(q)
     /\ mail # "keep" =>
          ~ \E v \in Users \ {call[q].user} : Live(v) /\ users[v].email = mail
     /\ Goto(q, "begin")
     /\ UNCHANGED <<users, held, roles>>

\* The first consistent read of the transaction.
UpdateBegins(q) ==
  /\ At(q, "update", "begin")
  /\ call' = [call EXCEPT ![q].at = "commit", ![q].snap = users[call[q].user]]
  /\ UNCHANGED <<users, held, roles>>

\* The entity that is saved: the row as it was loaded, with the edits.
Entity(row, edit) ==
  [state |-> row.state,
   active |-> IF edit.active = "keep" THEN row.active ELSE edit.active = "on",
   email |-> IF edit.email = "keep" THEN row.email ELSE edit.email]

\* TypeORM's save: the columns in which the entity differs from the snapshot.
Saved(entity, snap, row) ==
  [state |-> IF entity.state # snap.state THEN entity.state ELSE row.state,
   active |-> IF entity.active # snap.active THEN entity.active ELSE row.active,
   email |-> IF entity.email # snap.email THEN entity.email ELSE row.email]

\* Mutant: deactivated holders count as administrators.
LastHolder(u) == {v \in Users : Live(v) /\ SuperAdmin \in Held(v)} = {u}

\* assertNotLastActiveSuperAdmin refuses.
LastAdmin(u) == Admins = {u}

UpdateCommits(q) ==
  LET u     == call[q].user
      mail  == call[q].edit.email
      freed == IF mail = "keep" THEN users ELSE Released(mail, u)
      row   == Saved(Entity(call[q].row, call[q].edit), call[q].snap, freed[u])
  IN /\ At(q, "update", "commit")
     /\ Deactivating(q) => ~ LastAdmin(u)
     /\ row.email = "tombstone" \/ \A v \in Users \ {u} : freed[v].email # row.email
     /\ users' = [freed EXCEPT ![u] = row]
     /\ End(q)
     /\ UNCHANGED <<held, roles>>

-----------------------------------------------------------------------------
AddRolesChecks(q) ==
  /\ At(q, "addRoles", "check")
  /\ Live(call[q].user)
  /\ \A r \in call[q].roles : roles[r] = "live"
  /\ MayGrant(q, call[q].roles)
  /\ Goto(q, "begin")
  /\ UNCHANGED <<users, held, roles>>

\* addRolesToUser: the roles held, without a lock.
AddRolesBegins(q) ==
  /\ At(q, "addRoles", "begin")
  /\ call' = [call EXCEPT ![q].at = "commit", ![q].heldSnap = Held(call[q].user)]
  /\ UNCHANGED <<users, held, roles>>

\* A pair that is there already is passed over by the unique index.
AddRolesCommits(q) ==
  LET missing == call[q].roles \ call[q].heldSnap
  IN /\ At(q, "addRoles", "commit")
     /\ call[q].super \/ SuperAdmin \notin call[q].heldSnap \cup missing
     /\ missing # {} => NotSelf(q)
     /\ held' = held \cup ({call[q].user} \X missing)
     /\ End(q)
     /\ UNCHANGED <<users, roles>>

-----------------------------------------------------------------------------
RemoveRoleChecks(q) ==
  /\ At(q, "removeRole", "check")
  /\ Live(call[q].user)
  /\ Goto(q, "begin")
  /\ UNCHANGED <<users, held, roles>>

\* removeRoleFromUser: the read of the role fixes the snapshot.
RemoveRoleBegins(q) ==
  /\ At(q, "removeRole", "begin")
  /\ call' = [call EXCEPT ![q].at = "commit", ![q].heldSnap = Held(call[q].user)]
  /\ UNCHANGED <<users, held, roles>>

\* Mutant: the roles held are counted in the snapshot.
RemoveRoleCommitsUnlocked(q) ==
  LET u == call[q].user
  IN /\ At(q, "removeRole", "commit")
     /\ \E r \in call[q].roles :
          /\ r \in Held(u)
          /\ call[q].super \/ SuperAdmin \notin call[q].heldSnap
          /\ NotSelf(q)
          /\ call[q].heldSnap \ {r} # {}
          /\ r = SuperAdmin => ~ LastAdmin(u)
          /\ held' = held \ {<<u, r>>}
     /\ End(q)
     /\ UNCHANGED <<users, roles>>

\* The holders of SUPER_ADMIN and the roles of the user are read locked; whether
\* the caller may modify the user is read in the snapshot.
RemoveRoleCommits(q) ==
  LET u == call[q].user
  IN /\ At(q, "removeRole", "commit")
     /\ \E r \in call[q].roles :
          /\ r \in Held(u)
          /\ call[q].super \/ SuperAdmin \notin call[q].heldSnap
          /\ NotSelf(q)
          /\ Held(u) \ {r} # {}
          /\ r = SuperAdmin => ~ LastAdmin(u)
          /\ held' = held \ {<<u, r>>}
     /\ End(q)
     /\ UNCHANGED <<users, roles>>

-----------------------------------------------------------------------------
RemoveChecks(q) ==
  /\ At(q, "remove", "check")
  /\ Live(call[q].user)
  /\ NotSelf(q) /\ MayModify(q, call[q].user)
  /\ Goto(q, "commit")
  /\ UNCHANGED <<users, held, roles>>

\* remove: the account and its assignments, in one transaction.
RemoveCommits(q) ==
  LET u == call[q].user
  IN /\ At(q, "remove", "commit")
     /\ ~ LastAdmin(u)
     /\ users' = [users EXCEPT ![u].state = "deleted"]
     /\ held' = {h \in held : h[1] # u}
     /\ End(q)
     /\ UNCHANGED roles

-----------------------------------------------------------------------------
\* RoleService.update: the role is loaded, and saved later.
EditRoleLoads(q) ==
  /\ At(q, "editRole", "load")
  /\ \A r \in call[q].roles : roles[r] = "live" /\ (r = SuperAdmin => call[q].super)
  /\ Goto(q, "begin")
  /\ UNCHANGED <<users, held, roles>>

EditRoleBegins(q) ==
  /\ At(q, "editRole", "begin")
  /\ \E r \in call[q].roles :
       call' = [call EXCEPT ![q].at = "commit", ![q].roleSnap = roles[r]]
  /\ UNCHANGED <<users, held, roles>>

\* A role deleted before the snapshot is live again.
EditRoleCommits(q) ==
  /\ At(q, "editRole", "commit")
  /\ roles' = IF call[q].roleSnap = "live" THEN roles
              ELSE [r \in Roles |-> IF r \in call[q].roles THEN "live" ELSE roles[r]]
  /\ End(q)
  /\ UNCHANGED <<users, held>>

\* RoleService.remove: not SUPER_ADMIN, and no account that is not deleted holds it.
DeleteRoleChecks(q) ==
  /\ At(q, "deleteRole", "check")
  /\ \A r \in call[q].roles :
       /\ roles[r] = "live" /\ r # SuperAdmin
       /\ ~ \E u \in Users : Live(u) /\ <<u, r>> \in held
  /\ Goto(q, "commit")
  /\ UNCHANGED <<users, held, roles>>

DeleteRoleCommits(q) ==
  /\ At(q, "deleteRole", "commit")
  /\ roles' = [r \in Roles |-> IF r \in call[q].roles THEN "deleted" ELSE roles[r]]
  /\ End(q)
  /\ UNCHANGED <<users, held>>

-----------------------------------------------------------------------------
Step(q) ==
  \/ CreateChecks(q) \/ CreateCommits(q)
  \/ UpdateLoads(q) \/ UpdateChecks(q) \/ UpdateBegins(q) \/ UpdateCommits(q)
  \/ AddRolesChecks(q) \/ AddRolesBegins(q) \/ AddRolesCommits(q)
  \/ RemoveRoleChecks(q) \/ RemoveRoleBegins(q) \/ RemoveRoleCommits(q)
  \/ RemoveChecks(q) \/ RemoveCommits(q)
  \/ EditRoleLoads(q) \/ EditRoleBegins(q) \/ EditRoleCommits(q)
  \/ DeleteRoleChecks(q) \/ DeleteRoleCommits(q)
  \/ Refused(q)

Asks(q) ==
  \E a \in Users :
    \/ \E e \in Edits, rs \in (SUBSET Roles) \ {{}} :
         e.email # "keep" /\ Ask(q, "create", a, a, rs, e)
    \/ \E u \in Users :
         \/ \E e \in Edits : Ask(q, "update", a, u, {}, e)
         \/ \E rs \in (SUBSET Roles) \ {{}} : Ask(q, "addRoles", a, u, rs, KeepAll)
         \/ \E r \in Roles : Ask(q, "removeRole", a, u, {r}, KeepAll)
         \/ Ask(q, "remove", a, u, {}, KeepAll)
    \/ \E r \in Roles, op \in {"editRole", "deleteRole"} : Ask(q, op, a, a, {r}, KeepAll)

Next == \E q \in Requests : Asks(q) \/ Step(q)

Spec == Init /\ [][Next]_vars

-----------------------------------------------------------------------------
(* Properties *)

\* "The last active SUPER_ADMIN can never be deactivated", deleted or demoted.
LastAdminStays == Admins # {}

\* The unique index on the address, deleted accounts included, which the release
\* of their addresses has to keep.
UniqueEmails ==
  \A u, v \in Users : users[u].email = users[v].email /\ users[u].email \in Emails => u = v

\* What a request has read before it writes: an update loaded a live account, and an
\* account that was created stays a row.
RequestsConsistent ==
  \A q \in Requests : call[q] \notin {New, Ended} =>
    /\ call[q].op = "create" => call[q].roles # {} /\ call[q].edit.email # "keep"
    /\ call[q].op = "update" /\ call[q].at # "load" =>
         call[q].row.state = "live" /\ users[call[q].user].state # "none"

IInv == TypeOK /\ UniqueEmails /\ RequestsConsistent

\* However requests overlap, the checks under the lock hold: the last active
\* SUPER_ADMIN is lost only when a save writes back what its request read of that
\* account before somebody else changed it.
AdminsRemain ==
  [][Admins # {} /\ Admins' = {} =>
       \E q \in Requests :
         /\ At(q, "update", "commit") /\ Admins = {call[q].user}
         /\ ~ call[q].row.active /\ call[q].snap.active]_vars

\* An account never loses its last role, and is not created without one; a role-
\* less account cannot sign in.
KeepsARole ==
  [][\A u \in Users :
       users'[u].state = "live" /\ users[u].state # "deleted" =>
         Held(u)' # {} \/ (Live(u) /\ Held(u) = {})]_vars

\* The release of a deleted account's address never takes it from a live one, though
\* an account that came back without its address may be saved without it again.
AddressKept ==
  [][\A u \in Users :
       Live(u) /\ users'[u].state = "live" /\ users[u].email \in Emails =>
         \/ users'[u].email \in Emails
         \/ \E q \in Requests :
              /\ At(q, "update", "commit") /\ call[q].user = u
              /\ call[q].row.email = "tombstone"]_vars
=============================================================================
