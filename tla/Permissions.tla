------------------------------ MODULE Permissions ------------------------------
(***************************************************************************)
(* What a role may do: IamService (policies, their attachment to roles,    *)
(* the synchronisation at every start), RoleInlinePolicyService, and       *)
(* WorkflowDefinitionService.publishNewVersion, which names the roles that *)
(* approve.  The two sides watch each other: a level may only name a role  *)
(* that holds the approve code, and no change of permissions may take that *)
(* code from a role an active level names.                                 *)
(*                                                                         *)
(* A request reads outside any transaction, then may open one.  The first  *)
(* consistent read of the transaction fixes its snapshot, and its check    *)
(* looks at that snapshot and at its own writes; nothing is locked but one *)
(* inline policy.  Other requests may commit in between, at both points.   *)
(*                                                                         *)
(* The synchronisation at the start saves row by row, before the process   *)
(* listens: the process may die after any save, and an error is logged and *)
(* the process goes on.                                                    *)
(*                                                                         *)
(* Statements are the set of codes they list.  Names, descriptions and the *)
(* audit trail are left out.                                               *)
(***************************************************************************)
EXTENDS FiniteSets, Integers

CONSTANTS
  Roles, SuperAdmin,
  Policies,       \* ids for policies
  Named,          \* the one named "SUPER_ADMIN Policy"
  Inlines,        \* ids for role inline policies
  InlineOf,       \* the role of each
  Resources,
  Codes,          \* active action codes
  ResourceOf,     \* the resource of each
  Business,       \* BUSINESS_APPROVAL_ACTION_CODES
  Types,          \* workflow types
  ApproveCodes,   \* APPROVE_ACTION_CODES: the codes that let a role approve
  Definitions,    \* bound: ids for ACTIVE definitions
  Bodies,         \* the codes a request may list
  Changes,        \* bound: requests, each made once
  MaxStarts,      \* bound: starts of the process
  Seeds           \* what the database may hold before the first start

PolicyRow == [state: {"none", "live", "deleted"}, system: BOOLEAN, codes: SUBSET Codes]
InlineRow == [live: BOOLEAN, codes: SUBSET Codes]
NoDefinition == [active |-> FALSE]
Definition == {NoDefinition} \cup [active: {TRUE}, type: Types, roles: SUBSET Roles]
Database == [policy: [Policies -> PolicyRow], attached: SUBSET (Roles \X Policies),
             inline: [Inlines -> InlineRow], definition: [Definitions -> Definition]]
Things == Roles \cup Policies \cup Types

ASSUME PermissionsAssumption ==
  /\ SuperAdmin \in Roles /\ Named \in Policies /\ Types # {} /\ Inlines # {}
  /\ InlineOf \in [Inlines -> Roles \ {SuperAdmin}]
  /\ ResourceOf \in [Codes -> Resources]
  /\ Business \subseteq Codes
  /\ ApproveCodes \in [Types -> SUBSET Business]
  /\ Bodies \subseteq SUBSET Codes
  /\ MaxStarts \in Nat
  /\ Roles \cap Policies = {} /\ (Roles \cup Policies) \cap Types = {}
  /\ Seeds \subseteq Database
  /\ \A d \in Seeds : \A a \in d.attached : d.policy[a[2]].state # "none"  \* a foreign key

VARIABLES
  db,       \* the tables
  process,  \* the process, and the synchronisation at its start
  call,     \* call[q]: a request
  suspect   \* history: what was changed by a request after another request had
            \* changed it since it read; what no check ever looked at; and what
            \* was wrong already

permissionsVars == <<db, process, call, suspect>>

New   == [at |-> "new"]
Answered == [at |-> "ended"]
Ops   == {"attach", "detach", "edit", "remove", "editInline", "removeInline", "publish"}
Call  ==
  [op: Ops, at: {"loaded", "checked"},
   role: Roles, policy: Policies, inline: Inlines, type: Types,
   codes: SUBSET Codes, roles: SUBSET Roles,
   old: SUBSET Codes,             \* the statements as it read them
   revives: BOOLEAN,              \* its save finds the policy deleted
   lost: BOOLEAN,                 \* the row it is to change is deleted
   previous: SUBSET Definitions,  \* the active definition it will archive, if any
   since: SUBSET Things]          \* what others have changed since it read

Phases == {"down", "attaching", "granting", "stripping", "up"}
NoProcess == [at |-> "down", primary |-> Named, granted |-> {}, todo |-> {},
              changed |-> FALSE, synced |-> FALSE, starts |-> 0]

Live(d, p)     == d.policy[p].state = "live"
Attached(d, r) == {p \in Policies : <<r, p>> \in d.attached}
Holders(d, p)  == {r \in Roles : <<r, p>> \in d.attached}
ActiveFor(d, t) == {x \in Definitions : d.definition[x].active /\ d.definition[x].type = t}

\* getRoleOwnedActionCodes: the relation to a deleted policy is null.
Owned(d, r) ==
  (UNION {d.policy[p].codes : p \in {x \in Attached(d, r) : Live(d, x)}})
  \cup (UNION {d.inline[i].codes : i \in {x \in Inlines : d.inline[x].live /\ InlineOf[x] = r}})

\* getActionCodesGrantedByPoliciesForRoles, for one role.
Granted(d, r) == IF r = SuperAdmin THEN Owned(d, r) \ Business ELSE Owned(d, r)

\* getRoleIdsHoldingAnyAction
Eligible(d, t) == {r \in Roles \ {SuperAdmin} : Owned(d, r) \cap ApproveCodes[t] # {}}

\* assertApproverEligibilityKept: removed was taken from the roles rs.
EligibilityKept(d, rs, removed) ==
  \A t \in Types : ApproveCodes[t] \cap removed # {} =>
    \A x \in ActiveFor(d, t) :
      (d.definition[x].roles \cap rs) \ {SuperAdmin} \subseteq Eligible(d, t)

CleanRows(d, p) == d.policy[p].codes \cap Business = {}

\* What is wrong with a database: a role that a level names and that cannot approve, a
\* type with two ACTIVE definitions, an attached policy that is deleted, or SUPER_ADMIN's
\* with an approval in it.
Sound(d, r, p) == Live(d, p) /\ (r = SuperAdmin => CleanRows(d, p))
Wrong(d) ==
  {r \in Roles : \E x \in Definitions :
     /\ d.definition[x].active
     /\ r \in d.definition[x].roles \ Eligible(d, d.definition[x].type)}
  \cup {t \in Types : \E x, y \in ActiveFor(d, t) : x # y}
  \cup {p \in Policies : \E r \in Roles : <<r, p>> \in d.attached /\ ~ Sound(d, r, p)}

\* assertNoBusinessApprovalForSuperAdmin
NoApprovalFor(rs, codes) == SuperAdmin \in rs => codes \cap Business = {}

PermissionsTypeOK ==
  /\ db \in Database
  /\ process \in [at: Phases, primary: Policies, granted: SUBSET Codes,
                  todo: SUBSET Resources, changed: BOOLEAN, synced: BOOLEAN,
                  starts: 0..MaxStarts]
  /\ call \in [Changes -> {New, Answered} \cup Call]
  /\ suspect \subseteq Things

PermissionsInit ==
  /\ db \in Seeds
  /\ process = NoProcess
  /\ call = [q \in Changes |-> New]
  /\ suspect = Wrong(db)

-----------------------------------------------------------------------------
(* Requests: what they read, what they check, what they commit.            *)

Base == [op |-> "attach", at |-> "loaded", role |-> SuperAdmin, policy |-> Named,
         inline |-> CHOOSE i \in Inlines : TRUE, type |-> CHOOSE t \in Types : TRUE,
         codes |-> {}, roles |-> {}, old |-> {}, revives |-> FALSE, lost |-> FALSE,
         previous |-> {}, since |-> {}]

Up(q)        == process.at = "up" /\ call[q] = New
Load(q, c)   == call' = [call EXCEPT ![q] = c] /\ UNCHANGED <<db, process, suspect>>
At(q, op, x) == call[q] \notin {New, Answered} /\ call[q].op = op /\ call[q].at = x

\* An attachment and an inline policy are deleted for good; rows are found by id.
Gone(c, d) ==
  \/ c.op = "detach" /\ <<c.role, c.policy>> \notin d.attached
  \/ c.op \in {"editInline", "removeInline"} /\ ~ d.inline[c.inline].live

\* A change of the things ts takes effect: the requests in flight have read before it.
Commit(q, new, ts, since) ==
  /\ db' = new
  /\ suspect' = suspect \cup (ts \cap since)
  /\ call' = [x \in Changes |->
       IF x = q THEN Answered
       ELSE IF call[x] \in {New, Answered} THEN call[x]
       ELSE [call[x] EXCEPT !.since = @ \cup ts, !.lost = @ \/ Gone(call[x], new)]]
  /\ UNCHANGED process

\* A check refuses, an await fails: the transaction rolls back.
Refused(q) ==
  /\ call[q] \notin {New, Answered}
  /\ Load(q, Answered)

\* createPolicy: one transaction, on a row of its own.
CreatePolicy(q, p, codes) ==
  /\ Up(q) /\ db.policy[p].state = "none" /\ p # Named
  /\ Commit(q, [db EXCEPT !.policy[p] = [state |-> "live", system |-> FALSE, codes |-> codes]],
            {p}, {})

\* attachPolicyToRole: no transaction; the unique index makes a second one a success.
LoadAttach(q, r, p) ==
  /\ Up(q) /\ Live(db, p) /\ <<r, p>> \notin db.attached
  /\ NoApprovalFor({r}, db.policy[p].codes)
  /\ Load(q, [Base EXCEPT !.op = "attach", !.at = "checked", !.role = r, !.policy = p])

CommitAttach(q) ==
  /\ At(q, "attach", "checked")
  /\ LET r == call[q].role  p == call[q].policy IN
     Commit(q, [db EXCEPT !.attached = @ \cup {<<r, p>>}], {r, p}, call[q].since)

\* detachPolicyFromRole: never from SUPER_ADMIN.
LoadDetach(q, r, p) ==
  /\ Up(q) /\ <<r, p>> \in db.attached /\ r # SuperAdmin
  /\ Load(q, [Base EXCEPT !.op = "detach", !.role = r, !.policy = p, !.old = db.policy[p].codes])

Detached(d, c) ==
  IF c.lost THEN d ELSE [d EXCEPT !.attached = @ \ {<<c.role, c.policy>>}]

\* Mutant: the check reads outside the transaction, where the policy is still attached.
ChecksOutside(q) ==
  /\ At(q, "detach", "loaded")
  /\ EligibilityKept(db, {call[q].role}, call[q].old)
  /\ Load(q, [call[q] EXCEPT !.at = "checked"])

CheckDetach(q) ==
  /\ At(q, "detach", "loaded")
  /\ EligibilityKept(Detached(db, call[q]), {call[q].role}, call[q].old)
  /\ Load(q, [call[q] EXCEPT !.at = "checked"])

CommitDetach(q) ==
  /\ At(q, "detach", "checked")
  /\ LET ts == IF call[q].lost THEN {} ELSE {call[q].role, call[q].policy} IN
     Commit(q, Detached(db, call[q]), ts, call[q].since)

\* updatePolicy: the flag, the old statements and the attachments, before the
\* transaction.
LoadEdit(q, p, codes) ==
  /\ Up(q) /\ Live(db, p) /\ ~ db.policy[p].system
  /\ NoApprovalFor(Holders(db, p), codes)
  /\ Load(q, [Base EXCEPT !.op = "edit", !.policy = p, !.codes = codes,
                          !.old = db.policy[p].codes])

Edited(d, p, codes, state) ==
  [d EXCEPT !.policy[p].codes = codes, !.policy[p].state = state]

\* The save writes the deletion date it read, none, over that of a policy deleted since.
CheckEdit(q) ==
  /\ At(q, "edit", "loaded")
  /\ LET p == call[q].policy  codes == call[q].codes IN
     /\ EligibilityKept(Edited(db, p, codes, "live"), Holders(db, p), call[q].old \ codes)
     /\ Load(q, [call[q] EXCEPT !.at = "checked", !.revives = ~ Live(db, p)])

CommitEdit(q) ==
  /\ At(q, "edit", "checked")
  /\ LET p == call[q].policy
         state == IF call[q].revives THEN "live" ELSE db.policy[p].state
     IN Commit(q, Edited(db, p, call[q].codes, state), {p} \cup Holders(db, p), call[q].since)

\* Mutant: the attachments are not counted.
RemovesAttached(q, p) ==
  /\ Up(q) /\ Live(db, p) /\ ~ db.policy[p].system
  /\ Load(q, [Base EXCEPT !.op = "remove", !.at = "checked", !.policy = p])

\* removePolicy: the count of its attachments is read before the transaction.
LoadRemove(q, p) ==
  /\ Up(q) /\ Live(db, p) /\ ~ db.policy[p].system /\ Holders(db, p) = {}
  /\ Load(q, [Base EXCEPT !.op = "remove", !.at = "checked", !.policy = p])

CommitRemove(q) ==
  /\ At(q, "remove", "checked")
  /\ LET p == call[q].policy IN
     Commit(q, Edited(db, p, {}, "deleted"), {p} \cup Holders(db, p), call[q].since)

Inlined(d, i, live, codes) == [d EXCEPT !.inline[i] = [live |-> live, codes |-> codes]]

\* RoleInlinePolicyService.create.  Its callers hold SUPER_ADMIN, and assertNotOwnRole
\* keeps them from the inline policies of that role.
CreateInline(q, i, codes) ==
  /\ Up(q) /\ ~ db.inline[i].live
  /\ Commit(q, Inlined(db, i, TRUE, codes), {InlineOf[i]}, {})

\* update: the old statements are read first, the row is locked, and then checked.
LoadEditInline(q, i, codes) ==
  /\ Up(q) /\ db.inline[i].live
  /\ Load(q, [Base EXCEPT !.op = "editInline", !.inline = i, !.codes = codes,
                          !.old = db.inline[i].codes])

Locked(i) == \E q \in Changes :
  /\ At(q, "editInline", "checked") \/ At(q, "removeInline", "checked")
  /\ call[q].inline = i

CheckEditInline(q) ==
  /\ At(q, "editInline", "loaded")
  /\ LET i == call[q].inline  codes == call[q].codes IN
     /\ ~ Locked(i) /\ ~ call[q].lost
     /\ EligibilityKept(Inlined(db, i, TRUE, codes), {InlineOf[i]}, call[q].old \ codes)
  /\ Load(q, [call[q] EXCEPT !.at = "checked"])

CommitEditInline(q) ==
  /\ At(q, "editInline", "checked")
  /\ LET i == call[q].inline IN
     Commit(q, Inlined(db, i, db.inline[i].live, call[q].codes), {InlineOf[i]}, call[q].since)

\* remove: everything in its transaction, the first read without a lock.
CheckRemoveInline(q, i) ==
  /\ Up(q) /\ db.inline[i].live
  /\ EligibilityKept(Inlined(db, i, FALSE, {}), {InlineOf[i]}, db.inline[i].codes)
  /\ Load(q, [Base EXCEPT !.op = "removeInline", !.at = "checked", !.inline = i])

CommitRemoveInline(q) ==
  /\ At(q, "removeInline", "checked")
  /\ LET i == call[q].inline IN
     /\ ~ \E x \in Changes : At(x, "editInline", "checked") /\ call[x].inline = i
     /\ IF call[q].lost
        THEN Load(q, Answered)
        ELSE Commit(q, Inlined(db, i, FALSE, {}), {InlineOf[i]}, call[q].since)

\* publishNewVersion: assertLevels before the transaction.
LoadPublish(q, t, rs) ==
  /\ Up(q) /\ rs # {} /\ rs \subseteq Eligible(db, t)
  /\ Load(q, [Base EXCEPT !.op = "publish", !.type = t, !.roles = rs])

\* Mutant: the version it replaces is not archived.
FindsNone(q) ==
  /\ At(q, "publish", "loaded")
  /\ Load(q, [call[q] EXCEPT !.at = "checked", !.previous = {}])

\* The ACTIVE definition it finds, one of them when there are several.
FindPrevious(q) ==
  /\ At(q, "publish", "loaded")
  /\ LET old == ActiveFor(db, call[q].type) IN
     \E previous \in (IF old = {} THEN {{}} ELSE {{x} : x \in old}) :
       Load(q, [call[q] EXCEPT !.at = "checked", !.previous = previous])

\* A row has an id of its own: no new one takes that of a row someone will archive.
Awaits(y, x) == call[y] \notin {New, Answered} /\ x \in call[y].previous

CommitPublish(q) ==
  /\ At(q, "publish", "checked")
  /\ LET c == call[q]
         kept == [x \in Definitions |-> IF x \in c.previous THEN NoDefinition ELSE db.definition[x]]
     IN \E x \in Definitions :
          /\ ~ kept[x].active
          /\ \A y \in Changes \ {q} : ~ Awaits(y, x)
          /\ Commit(q, [db EXCEPT !.definition =
                          [kept EXCEPT ![x] = [active |-> TRUE, type |-> c.type, roles |-> c.roles]]],
                    {c.type} \cup c.roles, c.since)

-----------------------------------------------------------------------------
(* ensureAdminPolicyGrants.                                                *)

Starting == process.at \in {"attaching", "granting", "stripping"}
Saves(p, row) == db' = [db EXCEPT !.policy[p] = row]
Grantable(res) == {c \in Codes \ Business : ResourceOf[c] = res}

Start ==
  /\ process.at = "down" /\ process.starts < MaxStarts
  /\ process' = [NoProcess EXCEPT !.at = "attaching", !.starts = process.starts + 1]
  /\ UNCHANGED <<db, call, suspect>>

\* No policy is attached: the named one is created, or marked if it is there.
MakeNamed ==
  /\ process.at = "attaching" /\ Attached(db, SuperAdmin) = {}
  /\ db.policy[Named].state # "deleted" /\ ~ db.policy[Named].system
  /\ Saves(Named, [db.policy[Named] EXCEPT !.state = "live", !.system = TRUE])
  /\ UNCHANGED <<process, call, suspect>>

AttachNamed ==
  /\ process.at = "attaching" /\ Attached(db, SuperAdmin) = {}
  /\ Live(db, Named) /\ db.policy[Named].system
  /\ db' = [db EXCEPT !.attached = @ \cup {<<SuperAdmin, Named>>}]
  /\ suspect' = IF CleanRows(db, Named) THEN suspect ELSE suspect \cup {Named}
  /\ UNCHANGED <<process, call>>

\* rolePolicyRows[0]: the query has no order.
PickPrimary(p) ==
  /\ process.at = "attaching" /\ p \in Attached(db, SuperAdmin) /\ Live(db, p)
  /\ Saves(p, [db.policy[p] EXCEPT !.system = TRUE])
  /\ process' = [process EXCEPT
       !.at = "granting", !.primary = p, !.todo = Resources,
       !.granted = UNION {db.policy[x].codes : x \in {y \in Attached(db, SuperAdmin) : Live(db, y)}}]
  /\ UNCHANGED <<call, suspect>>

\* Mutant: a resource of which something is granted is taken to be covered.
MissingAll(res) == IF Grantable(res) \cap process.granted = {} THEN Grantable(res) ELSE {}

Missing(res) == Grantable(res) \ process.granted

\* One statement of the primary policy is extended, or made.
GrantResource(res) ==
  /\ process.at = "granting" /\ res \in process.todo
  /\ LET missing == Missing(res)  row == db.policy[process.primary] IN
     /\ Saves(process.primary, [row EXCEPT !.codes = @ \cup missing])
     /\ process' = [process EXCEPT !.todo = @ \ {res},
                                   !.changed = process.changed \/ missing # {}]
  /\ UNCHANGED <<call, suspect>>

BeginStrip ==
  /\ process.at = "granting" /\ process.todo = {}
  /\ process' = [process EXCEPT !.at = "stripping", !.todo = Resources]
  /\ UNCHANGED <<db, call, suspect>>

\* stripBusinessApprovalCodes, one statement at a time.  It asks nobody: the roles
\* that share the policy lose the codes too.
StripResource(res) ==
  /\ process.at = "stripping" /\ res \in process.todo
  /\ LET p == process.primary
         out == {c \in db.policy[p].codes \cap Business : ResourceOf[c] = res}
     IN /\ Saves(p, [db.policy[p] EXCEPT !.codes = @ \ out])
        /\ process' = [process EXCEPT !.todo = @ \ {res}, !.changed = process.changed \/ out # {}]
        /\ suspect' = IF out = {} THEN suspect ELSE suspect \cup (Holders(db, p) \ {SuperAdmin})
  /\ UNCHANGED call

Covered(d) == (UNION {Grantable(res) : res \in Resources}) \subseteq Granted(d, SuperAdmin)

\* The self-check, only if something was saved.
Synced ==
  /\ process.at = "stripping" /\ process.todo = {}
  /\ process.changed => Covered(db) /\ CleanRows(db, process.primary)
  /\ process' = [process EXCEPT !.at = "up", !.synced = TRUE]
  /\ suspect' = suspect \ {process.primary}
  /\ UNCHANGED <<db, call>>

\* Any await throws: the error is logged and the process listens all the same.
StartFails ==
  /\ Starting
  /\ process' = [process EXCEPT !.at = "up", !.synced = FALSE]
  /\ UNCHANGED <<db, call, suspect>>

Dies ==
  /\ process.at # "down"
  /\ process' = [NoProcess EXCEPT !.starts = process.starts]
  /\ call' = [q \in Changes |-> IF call[q] = New THEN New ELSE Answered]
  /\ UNCHANGED <<db, suspect>>

-----------------------------------------------------------------------------
PolicyRequest(q) ==
  \/ \E p \in Policies, codes \in Bodies : CreatePolicy(q, p, codes) \/ LoadEdit(q, p, codes)
  \/ \E r \in Roles, p \in Policies : LoadAttach(q, r, p) \/ LoadDetach(q, r, p)
  \/ \E p \in Policies : LoadRemove(q, p)
  \/ CommitAttach(q)
  \/ CheckDetach(q) \/ CommitDetach(q)
  \/ CheckEdit(q) \/ CommitEdit(q)
  \/ CommitRemove(q)

InlineRequest(q) ==
  \/ \E i \in Inlines, codes \in Bodies : CreateInline(q, i, codes) \/ LoadEditInline(q, i, codes)
  \/ \E i \in Inlines : CheckRemoveInline(q, i)
  \/ CheckEditInline(q) \/ CommitEditInline(q)
  \/ CommitRemoveInline(q)

PublishRequest(q) ==
  \/ \E t \in Types, rs \in SUBSET Roles : LoadPublish(q, t, rs)
  \/ FindPrevious(q) \/ CommitPublish(q)

Synchronise ==
  \/ Start \/ MakeNamed \/ AttachNamed
  \/ \E p \in Policies : PickPrimary(p)
  \/ \E res \in Resources : GrantResource(res) \/ StripResource(res)
  \/ BeginStrip \/ Synced \/ StartFails \/ Dies

PermissionsNext ==
  \/ \E q \in Changes : PolicyRequest(q) \/ InlineRequest(q) \/ PublishRequest(q) \/ Refused(q)
  \/ Synchronise

PermissionsSpec == PermissionsInit /\ [][PermissionsNext]_permissionsVars

-----------------------------------------------------------------------------
(* Properties.                                                             *)

\* Every role that a level of an ACTIVE definition names can approve, whatever was
\* detached, edited, deleted or published, and in which order: unless two changes
\* of one role overlapped, or the start took a code from a policy the role shares.
LevelsDecidable ==
  \A t \in Types : \A x \in ActiveFor(db, t) :
    db.definition[x].roles \subseteq Eligible(db, t) \cup suspect

\* One definition of a type is ACTIVE (WorkflowDefinition), unless two versions of
\* it were published at a time.
OneActive == \A t \in Types \ suspect : Cardinality(ActiveFor(db, t)) <= 1

\* No policy attached to SUPER_ADMIN lists a business approval, not even one that
\* the resolver would ignore, and no policy attached to any role is deleted: unless
\* an attachment overlapped an edit or a deletion of the policy.
AttachedSound ==
  \A r \in Roles : \A p \in Attached(db, r) \ suspect : Sound(db, r, p)

\* A start that ends without an error leaves SUPER_ADMIN with every code it may
\* hold, and its system policy without any it may not, whatever an earlier start
\* that died or failed had left half done.
StartCovers ==
  [][~ process.synced /\ process'.synced =>
       Covered(db)' /\ CleanRows(db', process'.primary)]_permissionsVars

-----------------------------------------------------------------------------
(* The invariant the properties rest on.  It says of a request in flight what   *)
(* it has checked, and that the check still stands for what nobody has touched. *)

ForeignKey == \A a \in db.attached : db.policy[a[2]].state # "none"

\* Nobody listens while the process is down or synchronises.
Settled == process.at # "up" => \A q \in Changes : call[q] \in {New, Answered}

\* The role can approve wherever a level names it.
Decides(d, r) ==
  \A x \in Definitions :
    d.definition[x].active /\ r \in d.definition[x].roles
      => r \in Eligible(d, d.definition[x].type)

Decidable   == \A r \in Roles \ suspect : Decides(db, r)
Unambiguous == \A t \in Types \ suspect : \A x, y \in ActiveFor(db, t) : x = y

\* th is as the request c read it; s are the suspects.
Untouched(s, c, th) == th \notin c.since \cup s

AttachStands(d, s, c) ==
  /\ d.policy[c.policy].state # "none"
  /\ Untouched(s, c, c.policy) => Sound(d, c.role, c.policy)

DetachStands(d, s, c) ==
  /\ c.role # SuperAdmin
  /\ Untouched(s, c, c.role) =>
       /\ <<c.role, c.policy>> \in d.attached
       /\ c.at = "loaded"  => d.policy[c.policy].codes = c.old
       /\ c.at = "checked" => Decides(Detached(d, c), c.role)

EditStands(d, s, c) ==
  LET p == c.policy IN
  /\ Untouched(s, c, p) => NoApprovalFor(Holders(d, p), c.codes)
  /\ \A r \in Holders(d, p) : Untouched(s, c, r) =>
       /\ c.at = "loaded"  => d.policy[p].codes = c.old
       /\ c.at = "checked" => Decides(Edited(d, p, c.codes, "live"), r)
       /\ c.at = "checked" => c.revives \/ Live(d, p)

RemoveStands(d, s, c) ==
  /\ Untouched(s, c, c.policy) => Holders(d, c.policy) = {}
  /\ \A r \in Holders(d, c.policy) : ~ Untouched(s, c, r)

EditInlineStands(d, s, c) ==
  LET i == c.inline IN
  Untouched(s, c, InlineOf[i]) =>
    /\ d.inline[i].live
    /\ c.at = "loaded"  => d.inline[i].codes = c.old
    /\ c.at = "checked" => Decides(Inlined(d, i, TRUE, c.codes), InlineOf[i])

RemoveInlineStands(d, s, c) ==
  LET i == c.inline IN
  Untouched(s, c, InlineOf[i]) => Decides(Inlined(d, i, FALSE, {}), InlineOf[i])

PublishStands(d, s, c) ==
  /\ \A r \in c.roles : Untouched(s, c, r) => r \in Eligible(d, c.type)
  /\ c.at = "checked" /\ Untouched(s, c, c.type) => ActiveFor(d, c.type) \subseteq c.previous

Stands(d, s, c) ==
  /\ c.op = "attach"       => AttachStands(d, s, c)
  /\ c.op = "detach"       => DetachStands(d, s, c)
  /\ c.op = "edit"         => EditStands(d, s, c)
  /\ c.op = "remove"       => RemoveStands(d, s, c)
  /\ c.op = "editInline"   => EditInlineStands(d, s, c)
  /\ c.op = "removeInline" => RemoveInlineStands(d, s, c)
  /\ c.op = "publish"      => PublishStands(d, s, c)

AllStand == \A q \in Changes : call[q] \notin {New, Answered} => Stands(db, suspect, call[q])

\* What the synchronisation has done so far.
StartHalfway ==
  process.at \in {"granting", "stripping"} =>
    LET primary == process.primary IN
    /\ Live(db, primary) /\ <<SuperAdmin, primary>> \in db.attached
    /\ process.granted \ Business \subseteq Owned(db, SuperAdmin)
    /\ \A res \in Resources : (process.at = "granting" /\ res \in process.todo)
                            \/ Grantable(res) \subseteq Owned(db, SuperAdmin)
    /\ process.at = "stripping" =>
         \A c \in db.policy[primary].codes \cap Business : ResourceOf[c] \in process.todo

PermissionsInv ==
  /\ PermissionsTypeOK /\ ForeignKey /\ Settled
  /\ Decidable /\ Unambiguous /\ AttachedSound
  /\ AllStand /\ StartHalfway

-----------------------------------------------------------------------------
\* What the comments promise without a condition, and is not so (README).
NoLevelOrphaned ==
  \A t \in Types : \A x \in ActiveFor(db, t) : db.definition[x].roles \subseteq Eligible(db, t)

\* "No other role is ever touched" by the start (README).
OthersUntouched ==
  [][\A r \in Roles \ {SuperAdmin} : Starting => Owned(db', r) = Owned(db, r)]_permissionsVars
=============================================================================
