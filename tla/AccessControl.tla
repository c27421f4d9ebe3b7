---------------------------- MODULE AccessControl ----------------------------
(***************************************************************************)
(* Roles and permissions: the users' metadata and the custom roles, the     *)
(* handlers of auth.py that change them, and the pages that administrators  *)
(* do it with (UsersPage, PermissionsPage, SettingsPage), on top of the     *)
(* sessions of WebSession.  A handler decides on the token it was sent, then *)
(* reads the user's metadata in one call and writes all of it in another.   *)
(***************************************************************************)
EXTENDS WebSession, FiniteSets

CONSTANTS SystemRoles,      \* name -> permissions, SYSTEM_ROLES
          NoRole, NoPhone,
          Plans,            \* what people come to do, see Plan
          Extras, Offered,  \* permissions and system roles that are chosen
          NoList, NoDialog,
          PageSize,         \* users on the page that bootstrap_admin lists: 100
          MaxRequests

Operations == {"role", "extra", "profile", "me", "invite", "delete", "newrole", "droprole",
               "bootstrap"}

\* The small worlds that one run goes through: who has which role, whose session is in
\* which browser, the page asked for first, the pages opened, the operations asked for.
Plan == [roles : [Users -> DOMAIN SystemRoles \cup {NoUser}], user : [Browsers -> Users \cup {NoUser}],
         page : [Browsers -> Pages \ {"login"}], pages : [Browsers -> SUBSET Pages],
         uses : [Browsers -> SUBSET (Operations \X Users)], visits : Nat]

ASSUME AccessControlConstants ==
    /\ DOMAIN SystemRoles \subseteq Roles \ {NoRole}
    /\ {"SuperAdmin", "Viewer"} \subseteq DOMAIN SystemRoles
    /\ NoRole \in Roles
    /\ \A n \in DOMAIN SystemRoles : SystemRoles[n] \subseteq Permissions
    /\ NoPhone \in Phones
    /\ Plans \subseteq Plan
    /\ \A p \in Plans : \A b \in Browsers : p.user[b] # NoUser => p.roles[p.user[b]] # NoUser
    /\ Extras \subseteq Permissions /\ Offered \subseteq DOMAIN SystemRoles
    /\ IsFiniteSet(Users) /\ PageSize \in Nat \ {0}
    /\ MaxRequests \in Nat

CustomNames == Roles \ (DOMAIN SystemRoles \cup {NoRole})

VARIABLES plan,
          users,        \* metadata of every user there is
          customs,      \* permissions of every custom role there is
          shown,        \* the cached ["users"] and ["roles"] of every browser
          local,        \* what the page on screen keeps: its dialog, its mutation
          requests, sent,
          lastManaged   \* history: when a user last had Manage

adminVars == <<plan, users, customs, shown, local, requests, sent, lastManaged>>
vars == <<sessionVars, adminVars>>


Undefined == [role |-> NoRole, perms |-> {}, extra |-> {}, super |-> FALSE, phone |-> NoPhone]
WithRole(meta, role, perms) ==
    [meta EXCEPT !.role = role, !.perms = perms, !.super = role = "SuperAdmin"]

People == [Users -> Metadata \cup {NoUser}]
RoleTable == [CustomNames -> (SUBSET Permissions) \cup {NoUser}]
Dialog == [kind : {"extra", "profile", "invite", "newrole"}, user : Users, perms : SUBSET Permissions,
           extra : SUBSET Permissions, request : 0..MaxRequests]
\* What the page keeps: its dialog, the mutation of its own, what its dialogs sent.
Local == [dialog : Dialog \cup {NoDialog}, request : 0..MaxRequests, ours : SUBSET (1..MaxRequests)]
Body == [op : Operations, user : Users, role : Roles, add : SUBSET Permissions,
         remove : SUBSET Permissions, phone : Phones]
Request == [no : 1..MaxRequests, browser : Browsers, token : Token \cup {NoSession}, body : Body,
            step : {"sent", "begun", "read", "done", "refused", "denied"},
            perms : SUBSET Permissions, seen : Metadata \cup {NoUser},
            clean : BOOLEAN, waiting : BOOLEAN,
            excused : BOOLEAN]    \* history: see BootstrapExcused

NothingLocal == [dialog |-> NoDialog, request |-> 0, ours |-> {}]
Manages(people, u) == people[u] # NoUser /\ Grants(people[u], Manage)

Init ==
    /\ plan \in Plans
    /\ users = [u \in Users |-> IF plan.roles[u] = NoUser THEN NoUser
                  ELSE WithRole(Undefined, plan.roles[u], SystemRoles[plan.roles[u]])]
    /\ SessionInit(plan.user, plan.page, users)
    /\ visits = plan.visits
    /\ customs = [n \in CustomNames |-> NoUser]
    /\ shown = [b \in Browsers |-> [users |-> NoList, roles |-> NoList]]
    /\ local = [b \in Browsers |-> NothingLocal]
    /\ requests = {} /\ sent = 0
    /\ lastManaged = [u \in Users |-> IF Manages(users, u) THEN 0 ELSE -TokenTTL]

Record == lastManaged' =
    [u \in Users |-> IF Manages(users', u) THEN now' ELSE lastManaged[u]]

(***************************************************************************)
(* Sessions.                                                               *)
(***************************************************************************)
\* Faulty variant of the next: a deleted user is given a token as well.
IssuedBlindly(u) == TokenFor(u, users[u])

\* What supabase-js gets for a user: a token with the metadata of this moment.
Issued(u) == IF users[u] = NoUser THEN NoSession ELSE TokenFor(u, users[u])
Renewed(b) == Issued(session[b].user)

\* The page that is left takes its dialog and its mutation with it.
Leave(b) == local' = IF page'[b] = page[b] THEN local ELSE [local EXCEPT ![b] = NothingLocal]

ServerUnchanged == UNCHANGED <<users, customs, lastManaged>>

Login(b, u) ==
    /\ users[u] # NoUser /\ SignIn(b, Issued(u)) /\ Leave(b)
    /\ ServerUnchanged /\ UNCHANGED <<plan, shown, requests, sent>>

\* A user who signs up has no role yet.
Register(b, u) ==
    /\ users[u] = NoUser
    /\ users' = [users EXCEPT ![u] = Undefined]
    /\ SignIn(b, TokenFor(u, Undefined)) /\ Leave(b) /\ Record
    /\ UNCHANGED <<plan, customs, shown, requests, sent>>

Renew(b) ==
    /\ Refresh(b, Renewed(b)) /\ Leave(b)
    /\ ServerUnchanged /\ UNCHANGED <<plan, shown, requests, sent>>

ReloadPage(b) ==
    /\ session[b] # NoSession
    /\ Reload(b, Renewed(b))
    /\ local' = [local EXCEPT ![b] = NothingLocal]
    /\ shown' = [shown EXCEPT ![b] = [users |-> NoList, roles |-> NoList]]
    /\ requests' = {r \in requests : r.browser # b}
                    \cup {[r EXCEPT !.waiting = FALSE] : r \in {q \in requests :
                              q.browser = b /\ q.step \in {"sent", "begun", "read"}}}
    /\ ServerUnchanged /\ UNCHANGED <<plan, sent>>

LogOutButton(b) ==
    /\ signedIn[b] /\ Visit /\ LogOut(b) /\ Leave(b)
    /\ ServerUnchanged /\ UNCHANGED <<plan, shown, requests, sent>>

OpenPage(b, p) ==
    /\ p \in plan.pages[b]
    /\ Open(b, p) /\ Leave(b)
    /\ ServerUnchanged /\ UNCHANGED <<plan, shown, requests, sent>>

TimePasses ==
    /\ Tick
    /\ UNCHANGED <<plan, users, customs, shown, local, requests, sent>>
    /\ Record

(***************************************************************************)
(* The pages.                                                              *)
(***************************************************************************)
OnlyPages == UNCHANGED <<plan, sessionVars, users, customs, lastManaged>>

\* A list is asked for on mount, after its staleTime, on a timer or an invalidation:
\* it may show any state since the last answer.  (Of the roles, UsersPage only takes
\* the names of all permissions, which never change.)
ListUsers(b) ==
    /\ page[b] = "users" /\ session[b] # NoSession /\ now < session[b].exp
    /\ Grants(session[b].meta, Manage)
    /\ shown' = [shown EXCEPT ![b].users = users]
    /\ OnlyPages /\ UNCHANGED <<local, requests, sent>>
ListRoles(b) ==
    /\ page[b] = "permissions" /\ session[b] # NoSession /\ now < session[b].exp
    /\ Grants(session[b].meta, Manage)
    /\ shown' = [shown EXCEPT ![b].roles = customs]
    /\ OnlyPages /\ UNCHANGED <<local, requests, sent>>

\* The request carries the token of the session as it is now; supabase-js renews an
\* expired one first.
Send(b, body) ==
    /\ signedIn[b] /\ session[b] # NoSession /\ now < session[b].exp
    /\ <<body.op, body.user>> \in plan.uses[b]
    /\ sent < MaxRequests /\ sent' = sent + 1
    /\ requests' = requests \cup
         {[no |-> sent + 1, browser |-> b, token |-> session[b], body |-> body,
           step |-> "sent", perms |-> {}, seen |-> NoUser, clean |-> TRUE,
           waiting |-> TRUE, excused |-> FALSE]}
    /\ OnlyPages /\ UNCHANGED shown

Pending(n) == \E r \in requests : r.no = n /\ r.waiting
Ask(op, u) == [op |-> op, user |-> u, role |-> NoRole, add |-> {}, remove |-> {},
               phone |-> NoPhone]
Self(b) == session[b].user

Free(b, p) == page[b] = p /\ local[b].dialog = NoDialog
Listed(b, u) == shown[b].users # NoList /\ shown[b].users[u] # NoUser

\* A user without a role is listed as a Viewer (list_users).
RoleShown(meta) == IF meta.role = NoRole THEN "Viewer" ELSE meta.role

\* The role of a row is chosen from its list box, however many choices are pending.
RoleSelect(b, u, n) ==
    /\ Free(b, "users") /\ Listed(b, u)
    /\ n # RoleShown(shown[b].users[u])
    /\ Send(b, [Ask("role", u) EXCEPT !.role = n])
    /\ UNCHANGED local

HandleDeleteUser(b, u) ==
    /\ Free(b, "users") /\ Listed(b, u) /\ ~Pending(local[b].request)
    /\ Send(b, Ask("delete", u))
    /\ local' = [local EXCEPT ![b].request = sent + 1]

\* A dialog is opened on a row and keeps it.
OpenDialog(b, kind, u, perms, extra) ==
    /\ <<kind, u>> \in plan.uses[b]
    /\ local' = [local EXCEPT ![b].dialog =
                   [kind |-> kind, user |-> u, perms |-> perms, extra |-> extra, request |-> 0]]
    /\ OnlyPages /\ UNCHANGED <<shown, requests, sent>>
OpenRow(b, kind, u) ==
    /\ Free(b, "users") /\ Listed(b, u) /\ kind \in {"extra", "profile"}
    /\ OpenDialog(b, kind, u, shown[b].users[u].perms, shown[b].users[u].extra)
OpenForm(b, kind, u) ==
    /\ \/ kind = "invite" /\ Free(b, "users")
       \/ kind = "newrole" /\ Free(b, "permissions")
    /\ OpenDialog(b, kind, u, {}, {})
CloseDialog(b) ==
    /\ local[b].dialog # NoDialog
    /\ local' = [local EXCEPT ![b].dialog = NoDialog]
    /\ OnlyPages /\ UNCHANGED <<shown, requests, sent>>

\* The dialog's confirm button, disabled while its mutation is pending.
Confirm(b, kind, body) ==
    /\ local[b].dialog # NoDialog /\ local[b].dialog.kind = kind
    /\ ~Pending(local[b].dialog.request)
    /\ Send(b, body)
    /\ local' = [local EXCEPT ![b].dialog.request = sent + 1, ![b].ours = @ \cup {sent + 1}]

InviteUserModal(b) == \E n \in Offered, f \in Phones :
    Confirm(b, "invite", [Ask("invite", local[b].dialog.user) EXCEPT !.role = n, !.phone = f])

\* The toggles: those the role grants do not move.  What is saved is the difference to
\* the row the dialog was opened on.
EditPermissionsModal(b) == \E chosen \in SUBSET Extras :
    LET d == local[b].dialog
        extraSet == (chosen \ d.perms) \cup (d.extra \cap d.perms)
    IN  /\ d # NoDialog
        /\ Confirm(b, "extra", [Ask("extra", d.user) EXCEPT !.add = extraSet \ d.extra,
                                                            !.remove = d.extra \ extraSet])

EditPhoneModal(b) == \E f \in Phones :
    Confirm(b, "profile", [Ask("profile", local[b].dialog.user) EXCEPT !.phone = f])

CreateRoleModal(b) == \E n \in CustomNames, chosen \in SUBSET Extras :
    Confirm(b, "newrole", [Ask("newrole", local[b].dialog.user) EXCEPT !.role = n, !.add = chosen])

\* The button of a role's card; several deletions may be pending.
RoleCardDelete(b, n) ==
    /\ Free(b, "permissions") /\ shown[b].roles # NoList /\ shown[b].roles[n] # NoUser
    /\ Send(b, [Ask("droprole", Self(b)) EXCEPT !.role = n])
    /\ UNCHANGED local

SettingsPage(b) == \E f \in Phones :
    /\ page[b] = "settings" /\ ~Pending(local[b].request)
    /\ Send(b, [Ask("me", Self(b)) EXCEPT !.phone = f])
    /\ local' = [local EXCEPT ![b].request = sent + 1]

Administer(b) ==
    \/ ListUsers(b) \/ ListRoles(b)
    \/ \E u \in Users : HandleDeleteUser(b, u) \/ \E n \in Offered : RoleSelect(b, u, n)
    \/ \E u \in Users, k \in Operations : OpenRow(b, k, u) \/ OpenForm(b, k, u)
    \/ CloseDialog(b)
    \/ InviteUserModal(b) \/ EditPermissionsModal(b) \/ EditPhoneModal(b)
    \/ CreateRoleModal(b) \/ (\E n \in CustomNames : RoleCardDelete(b, n))
    \/ SettingsPage(b)

(***************************************************************************)
(* The handlers of auth.py, up to the next call they await.                *)
(***************************************************************************)
OnlyServer == UNCHANGED <<plan, sessionVars, shown, local, sent>>

Finished(r) == r.step \in {"done", "refused", "denied"}
Overtaken(r, u) == r.body.user = u /\ r.step = "read"

\* The request moves on; a finished one that nobody waits for is forgotten.
Moves(r, q) == requests' = (requests \ {r}) \cup (IF Finished(q) /\ ~q.waiting THEN {} ELSE {q})
Ends(r, step) == Moves(r, [r EXCEPT !.step = step])

\* A write of the metadata of u: whoever has read it before will write over it.
Writes(r, u) ==
    LET done == [r EXCEPT !.step = "done"]
    IN  requests' = {IF Overtaken(q, u) THEN [q EXCEPT !.clean = FALSE] ELSE q : q \in requests \ {r}}
                    \cup (IF r.waiting THEN {done} ELSE {})

RoleDefined(n) == n \in DOMAIN SystemRoles \/ (n \in CustomNames /\ customs[n] # NoUser)
RolePerms(n) == IF n \in DOMAIN SystemRoles THEN SystemRoles[n] ELSE customs[n]

\* Faulty variant of the next: tokens never expire.
NeverExpires(r) == FALSE

NeedsManage(r) == r.body.op \notin {"me", "bootstrap"}
Expired(r) == now >= r.token.exp

Unfit(r) ==
    \/ NeedsManage(r) /\ ~Grants(r.token.meta, Manage)
    \/ r.body.op \in {"invite", "profile", "me"} /\ r.body.phone = NoPhone
    \/ r.body.op \in {"role", "invite"} /\ ~RoleDefined(r.body.role)
    \/ r.body.op = "newrole" /\ RoleDefined(r.body.role)
    \/ r.body.op = "droprole" /\ r.body.role \notin {n \in CustomNames : customs[n] # NoUser}

\* Faulty variant of the next: everyone may change their own rights.
RefusableForOthers(r) == Unfit(r)

\* get_current_user, require_permission, the request model, and the handler's own
\* checks: nobody changes their own rights.
Refusable(r) ==
    Unfit(r) \/ (r.body.op \in {"role", "extra", "delete"} /\ r.body.user = r.token.user)

Deny(r) ==
    /\ r.step = "sent" /\ Expired(r) /\ Ends(r, "denied")
    /\ OnlyServer /\ ServerUnchanged
Refuse(r) ==
    /\ r.step = "sent" /\ ~Expired(r) /\ Refusable(r) /\ Ends(r, "refused")
    /\ OnlyServer /\ ServerUnchanged

Admitted(r) == r.step = "sent" /\ ~Expired(r) /\ ~Refusable(r)

\* A handler that goes on to the users: the role's permissions are read here.  They are
\* those of a system role, which are in the code: no page offers a custom one.
Begin(r) ==
    /\ Admitted(r) /\ r.body.op \in {"role", "extra", "profile", "me", "invite"}
    /\ Moves(r, [r EXCEPT !.step = "begun",
                    !.perms = IF r.body.op \in {"role", "invite"} THEN RolePerms(r.body.role) ELSE {}])
    /\ OnlyServer /\ ServerUnchanged

CreateCustomRole(r) ==
    /\ Admitted(r) /\ r.body.op = "newrole"
    /\ customs' = [customs EXCEPT ![r.body.role] = r.body.add]
    /\ Ends(r, "done")
    /\ OnlyServer /\ UNCHANGED <<users, lastManaged>>
DeleteCustomRole(r) ==
    /\ Admitted(r) /\ r.body.op = "droprole"
    /\ customs' = [customs EXCEPT ![r.body.role] = NoUser]
    /\ Ends(r, "done")
    /\ OnlyServer /\ UNCHANGED <<users, lastManaged>>

DeleteUser(r) ==
    /\ Admitted(r) /\ r.body.op = "delete" /\ users[r.body.user] # NoUser
    /\ users' = [users EXCEPT ![r.body.user] = NoUser]
    /\ Writes(r, r.body.user)
    /\ OnlyServer /\ UNCHANGED customs /\ Record

CreateUser(r) ==
    /\ r.step = "begun" /\ r.body.op = "invite" /\ users[r.body.user] = NoUser
    /\ users' = [users EXCEPT ![r.body.user] =
                   [WithRole(Undefined, r.body.role, r.perms) EXCEPT !.phone = r.body.phone]]
    /\ Writes(r, r.body.user)
    /\ OnlyServer /\ UNCHANGED customs /\ Record

\* get_user_by_id.
ReadUser(r) ==
    /\ r.step = "begun" /\ r.body.op # "invite" /\ users[r.body.user] # NoUser
    /\ Moves(r, [r EXCEPT !.step = "read", !.seen = users[r.body.user]])
    /\ OnlyServer /\ ServerUnchanged

\* Faulty variants of the next three: is_superadmin stays, nothing is ever taken away,
\* a profile update writes everything back.
AssignRoleOnly(r, meta) ==
    [r.seen EXCEPT !.phone = meta.phone, !.role = r.body.role, !.perms = r.perms]
GrantExtra(r, meta) == [r.seen EXCEPT !.phone = meta.phone, !.extra = @ \cup r.body.add]
ProfileOnSeen(r, meta) == [r.seen EXCEPT !.phone = r.body.phone]

\* update_user_by_id with all of app_metadata as it was read: assign_role, or
\* update_user_extra_permissions; or with user_metadata: update_user_profile.
AssignRole(r, meta) == WithRole([r.seen EXCEPT !.phone = meta.phone], r.body.role, r.perms)
UpdateExtra(r, meta) ==
    [r.seen EXCEPT !.phone = meta.phone, !.extra = (@ \cup r.body.add) \ r.body.remove]
UpdateProfile(r, meta) == [meta EXCEPT !.phone = r.body.phone]
Updated(r, meta) ==
    CASE r.body.op \in {"role", "bootstrap"} -> AssignRole(r, meta)
      [] r.body.op = "extra"                 -> UpdateExtra(r, meta)
      [] OTHER                               -> UpdateProfile(r, meta)

WriteUser(r) ==
    /\ r.step = "read" /\ users[r.body.user] # NoUser
    /\ users' = [users EXCEPT ![r.body.user] = Updated(r, @)]
    /\ Writes(r, r.body.user)
    /\ OnlyServer /\ UNCHANGED customs /\ Record

\* A call fails, or finds no such user, or one too many.
Break(r) ==
    /\ r.step \in {"begun", "read"} \/ (Admitted(r) /\ r.body.op = "delete")
    /\ Ends(r, "refused")
    /\ OnlyServer /\ ServerUnchanged

Existing == {u \in Users : users[u] # NoUser}

\* The first page of list_users: everyone, or as many as a page holds.
FirstPage(listed) ==
    /\ listed \subseteq Existing
    /\ (listed = Existing /\ Cardinality(listed) <= PageSize) \/ Cardinality(listed) = PageSize

\* What a bootstrap may be owed to: there is no SuperAdmin, or more users than the
\* page it looks at.
BootstrapExcused ==
    (\A u \in Existing : users[u].role # "SuperAdmin") \/ Cardinality(Existing) > PageSize

\* bootstrap_admin asks for no token: without a SuperAdmin on the page it assigns the
\* role to the first user there.
BootstrapAdmin(b, u) ==
    /\ <<"bootstrap", u>> \in plan.uses[b] /\ sent < MaxRequests /\ sent' = sent + 1
    /\ \E listed \in SUBSET Existing :
          /\ FirstPage(listed) /\ u \in listed
          /\ \A v \in listed : users[v].role # "SuperAdmin"
    /\ requests' = requests \cup
         {[no |-> sent + 1, browser |-> b, token |-> NoSession,
           body |-> [Ask("bootstrap", u) EXCEPT !.role = "SuperAdmin"], step |-> "begun",
           perms |-> SystemRoles["SuperAdmin"], seen |-> NoUser, clean |-> TRUE,
           waiting |-> FALSE, excused |-> BootstrapExcused]}
    /\ UNCHANGED <<plan, sessionVars, users, customs, shown, local, lastManaged>>

Handle(r) ==
    \/ Deny(r) \/ Refuse(r) \/ Begin(r) \/ CreateCustomRole(r) \/ DeleteCustomRole(r)
    \/ DeleteUser(r) \/ CreateUser(r) \/ ReadUser(r) \/ WriteUser(r) \/ Break(r)

(***************************************************************************)
(* The answers at the client.                                              *)
(***************************************************************************)
\* onSuccess: the lists are invalidated (ListUsers and ListRoles are free to run) and
\* the page clears its dialog of that kind, also when it has been opened on another
\* user since.
Succeed(r) ==
    /\ r.waiting /\ r.step = "done"
    /\ requests' = requests \ {r}
    /\ local' = IF /\ r.no \in local[r.browser].ours
                   /\ local[r.browser].dialog # NoDialog
                   /\ local[r.browser].dialog.kind = r.body.op
                THEN [local EXCEPT ![r.browser].dialog = NoDialog] ELSE local
    /\ UNCHANGED <<plan, sessionVars, users, customs, shown, sent, lastManaged>>

\* onError, also after the timeout: a message.
Fail(r) ==
    /\ r.waiting /\ r.step = "refused"
    /\ requests' = requests \ {r}
    /\ UNCHANGED <<plan, sessionVars, users, customs, shown, local, sent, lastManaged>>
GiveUp(r) ==
    /\ r.waiting /\ r.step \in {"sent", "begun", "read"} /\ Visit
    /\ requests' = (requests \ {r}) \cup {[r EXCEPT !.waiting = FALSE]}
    /\ UNCHANGED <<plan, now, session, signedIn, page, users, customs, shown, local, sent, lastManaged>>

\* The response interceptor of api.ts: whoever is signed in by now is logged out.
Unauthorized(r) ==
    /\ r.waiting /\ r.step = "denied"
    /\ requests' = requests \ {r}
    /\ LogOut(r.browser) /\ Leave(r.browser)
    /\ UNCHANGED <<plan, visits, users, customs, shown, sent, lastManaged>>

Next ==
    \/ TimePasses
    \/ \E b \in Browsers :
          \/ \E u \in Users : Login(b, u) \/ Register(b, u) \/ BootstrapAdmin(b, u)
          \/ Renew(b) \/ ReloadPage(b) \/ LogOutButton(b)
          \/ \E p \in Pages : OpenPage(b, p)
          \/ Administer(b)
    \/ \E r \in requests : Handle(r) \/ Succeed(r) \/ Fail(r) \/ GiveUp(r) \/ Unauthorized(r)

Spec == Init /\ [][Next]_vars

(***************************************************************************)
(* Properties.                                                             *)
(***************************************************************************)
\* Metadata, tokens, dialogs and requests keep their types.
TypeOK ==
    /\ plan \in Plans /\ SessionTypeOK
    /\ users \in People /\ customs \in RoleTable
    /\ shown \in [Browsers -> [users : People \cup {NoList}, roles : RoleTable \cup {NoList}]]
    /\ local \in [Browsers -> Local]
    /\ requests \in SUBSET Request /\ sent \in 0..MaxRequests
    /\ lastManaged \in [Users -> Int]

\* Whatever writes overlap, a user with a system role has that role's permissions, and
\* only a SuperAdmin is one: role, permissions and is_superadmin are always written
\* together (assign_role, create_user), also when they are written back stale.
RoleMeansPermissions == \A u \in Users : users[u] # NoUser =>
    /\ users[u].role \in DOMAIN SystemRoles => users[u].perms = SystemRoles[users[u].role]
    /\ users[u].super <=> users[u].role = "SuperAdmin"

\* What an operation promises to do to a user's metadata.
Promise(r, meta) ==
    CASE r.body.op \in {"role", "bootstrap"} ->
           [meta EXCEPT !.role = r.body.role, !.perms = r.perms, !.super = r.body.role = "SuperAdmin"]
      [] r.body.op = "extra" -> [meta EXCEPT !.extra = (@ \ r.body.remove) \cup r.body.add]
      [] OTHER               -> [meta EXCEPT !.phone = r.body.phone]

\* A grant, a revocation, a role change or a profile update does what it says and
\* leaves the rest alone, unless another write fell between its read and its write;
\* how old the list is that the dialog was opened on does not matter.
AtomicUnlessOverlapped ==
    [][\A r \in requests : WriteUser(r) /\ r.clean
          => users'[r.body.user] = Promise(r, users[r.body.user])]_vars

\* Whoever is let through to manage users could do so less than the life of a token
\* ago: a revocation takes effect with the next token (get_current_user).
AuthorityIsRecent ==
    [][\A r \in requests : (Begin(r) \/ CreateCustomRole(r) \/ DeleteCustomRole(r) \/ DeleteUser(r))
                             /\ NeedsManage(r)
          => now < lastManaged[r.token.user] + TokenTTL]_vars

\* Nobody is left to manage users only when someone did it who could no longer manage
\* users: a manager cannot take away their own rights (the checks of assign_role,
\* update_user_permissions and delete_user).
Managers == {u \in Users : Manages(users, u)}
LastManagerStays ==
    [][Managers # {} /\ Managers' = {}
          => \E r \in requests : r \notin requests' /\ r.body.user \in Managers
                                 /\ r.token # NoSession /\ r.token.user \notin Managers]_vars

\* The rights of u grow by p in this step.
Gains(u, p) == /\ users'[u] # NoUser /\ Grants(users'[u], p)
               /\ ~(users[u] # NoUser /\ Grants(users[u], p))

\* The request r may have given u rights: it came from a manager, who held the token
\* no longer than TokenTTL after having managed users, and was not u, unless the
\* account is a new one; or it is a bootstrap, and when that looked there was no
\* SuperAdmin, or there were more users than it looks at.
Granting(r, u) ==
    /\ r \notin requests' /\ r.body.user = u
    /\ \/ r.body.op = "bootstrap" /\ r.excused
       \/ /\ r.token # NoSession /\ Grants(r.token.meta, Manage)
          /\ r.token.exp <= lastManaged[r.token.user] + TokenTTL
          /\ r.token.user = u => r.body.op = "invite"

\* Rights only grow by a request that may give them, whatever stale metadata other
\* handlers write back and whatever the checks saw before: a profile update writes back
\* no rights (update_user_profile), and the check of require_permission is carried from
\* the first step of a handler to its last.  An anonymous bootstrap gives rights beside
\* a SuperAdmin only where there are more users than its one page (auth.py:272).
RightsAreGranted ==
    [][\A u \in Users, p \in Permissions : Gains(u, p) => \E r \in requests : Granting(r, u)]_vars

\* "On 401 - the session has expired; sign out": the session that a 401 ends is one
\* that has expired (api.ts).
LoggedOutMeansExpired ==
    [][\A r \in requests : Unauthorized(r) /\ session[r.browser] # NoSession
          => session[r.browser].exp <= now]_vars
=============================================================================
