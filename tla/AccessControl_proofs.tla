------------------------- MODULE AccessControl_proofs -------------------------
(***************************************************************************)
(* Roles and permissions for every number of users, browsers, roles and     *)
(* requests.  Access is the inductive invariant.  It follows the authority  *)
(* of a token back to the user (Bounded), the metadata that a handler holds *)
(* back to the table it will be written to (Fresh), and what a handler is   *)
(* going to write back to its checks (BodyOK, HeldOK).                      *)
(***************************************************************************)
EXTENDS AccessControl, FiniteSetTheorems, TLAPS

\* Role, permissions and is_superadmin belong together.
RoleOK(meta) ==
    /\ meta.role \in DOMAIN SystemRoles => meta.perms = SystemRoles[meta.role]
    /\ meta.super <=> meta.role = "SuperAdmin"

\* A token grants the management of users no longer than TokenTTL after its user had it.
Bounded(t) == Grants(t.meta, Manage) => t.exp <= lastManaged[t.user] + TokenTTL

\* What a request asks for.
BodyOK(r) ==
    /\ r.body.op # "bootstrap" => r.token \in Token
    /\ r.body.op = "bootstrap" => r.step # "sent" /\ r.body.role = "SuperAdmin" /\ r.excused
    /\ r.body.add \cap r.body.remove = {}

Running(r) == r.step \in {"begun", "read"}

\* What a handler knows after its checks, and what it has read.
HeldOK(r) ==
    /\ Running(r) =>
          /\ r.body.op \in {"role", "extra", "profile", "me", "invite", "bootstrap"}
          /\ r.body.op \in {"role", "extra"} => r.body.user # r.token.user
          /\ r.body.op \in {"role", "extra", "invite"} => Grants(r.token.meta, Manage)
          /\ r.body.op \in {"role", "invite", "bootstrap"} /\ r.body.role \in DOMAIN SystemRoles
               => r.perms = SystemRoles[r.body.role]
    /\ r.step = "read" => r.seen \in Metadata /\ RoleOK(r.seen)

\* Unless it was overtaken, the metadata a handler holds is what the table holds.
Fresh(r) == r.step = "read" /\ r.clean => r.seen = users[r.body.user]

RequestOK(r) ==
    /\ r.no <= sent
    /\ BodyOK(r) /\ HeldOK(r) /\ Fresh(r)
    /\ r.token # NoSession => Bounded(r.token)

Authority ==
    /\ \A u \in Users : lastManaged[u] <= now /\ (Manages(users, u) => lastManaged[u] = now)
    /\ \A b \in Browsers : session[b] # NoSession => Bounded(session[b])

\* Requests are told apart by their number.
Unique == \A q, r \in requests : q.no = r.no => q = r
RequestsOK == Unique /\ \A r \in requests : RequestOK(r)

Access == TypeOK /\ RoleMeansPermissions /\ Authority /\ RequestsOK

-----------------------------------------------------------------------------
(* Metadata and tokens *)

LEMMA MetadataTypes ==
    ASSUME NEW meta \in Metadata, NEW role \in Roles, NEW perms \in SUBSET Permissions
    PROVE  Undefined \in Metadata /\ WithRole(meta, role, perms) \in Metadata
BY AccessControlConstants DEF Undefined, WithRole, Metadata

\* A system role comes with its permissions.
LEMMA RoleTogether ==
    ASSUME NEW meta \in Metadata, NEW role \in Roles, NEW perms \in SUBSET Permissions,
           role \in DOMAIN SystemRoles => perms = SystemRoles[role]
    PROVE  RoleOK(Undefined) /\ RoleOK(WithRole(meta, role, perms))
BY AccessControlConstants DEF RoleOK, WithRole, Metadata, Undefined

LEMMA IssuedTypes ==
    ASSUME TypeOK, NEW u \in Users
    PROVE  Issued(u) \in Token \cup {NoSession} /\ TokenFor(u, Undefined) \in Token
<1>1. now + TokenTTL \in Nat
  BY WebSessionConstants DEF TypeOK, SessionTypeOK
<1>2. Undefined \in Metadata
  BY AccessControlConstants DEF Undefined, Metadata
<1>3. users[u] # NoUser => users[u] \in Metadata
  BY DEF TypeOK, People
<1>4. QED
  BY <1>1, <1>2, <1>3 DEF Issued, TokenFor, Token

\* A new token is bounded: its user has the rights it carries now.
LEMMA IssuedBounded ==
    ASSUME TypeOK, Authority, NEW u \in Users
    PROVE  /\ Issued(u) # NoSession => Bounded(Issued(u))
           /\ Bounded(TokenFor(u, Undefined))
<1>1. ~Grants(Undefined, Manage)
  BY DEF Undefined, Grants
<1>2. users[u] # NoUser /\ Grants(users[u], Manage) => lastManaged[u] = now
  BY DEF Authority, Manages
<1>3. Bounded(TokenFor(u, Undefined))
  BY <1>1 DEF TokenFor, Bounded
<1>4. ASSUME users[u] # NoUser PROVE Bounded(TokenFor(u, users[u]))
  <2>1. now + TokenTTL <= now + TokenTTL
    BY WebSessionConstants DEF TypeOK, SessionTypeOK
  <2>2. QED
    BY <1>2, <1>4, <2>1 DEF TokenFor, Bounded
<1>5. QED
  BY <1>3, <1>4 DEF Issued

-----------------------------------------------------------------------------
(* Types *)

\* Requests and dialogs that pass no wrong values around.
LEMMA SendTypes ==
    ASSUME TypeOK, NEW b \in Browsers, NEW body \in Body, Send(b, body)
    PROVE  /\ requests' \in SUBSET Request /\ sent' \in 0..MaxRequests
           /\ sent + 1 \in 1..MaxRequests
<1>1. sent + 1 \in 1..MaxRequests /\ sent' = sent + 1
  BY AccessControlConstants DEF TypeOK, Send
<1>2. session[b] \in Token
  BY DEF TypeOK, SessionTypeOK, Send
<1> DEFINE r == [no |-> sent + 1, browser |-> b, token |-> session[b], body |-> body,
                 step |-> "sent", perms |-> {}, seen |-> NoUser, clean |-> TRUE, waiting |-> TRUE,
                 excused |-> FALSE]
<1>3. r \in Request
  BY <1>1, <1>2 DEF Request
<1>4. requests' = requests \cup {r} /\ requests \in SUBSET Request
  BY DEF Send, TypeOK
<1>5. requests' \in SUBSET Request
  BY <1>3, <1>4
<1>6. sent' \in 0..MaxRequests
  BY <1>1
<1>7. QED
  BY <1>1, <1>5, <1>6

LEMMA AskTypes ==
    ASSUME NEW op \in Operations, NEW u \in Users, NEW n \in Roles, NEW f \in Phones,
           NEW add \in SUBSET Permissions, NEW remove \in SUBSET Permissions
    PROVE  /\ Ask(op, u) \in Body /\ [Ask(op, u) EXCEPT !.role = n] \in Body
           /\ [Ask(op, u) EXCEPT !.phone = f] \in Body
           /\ [Ask(op, u) EXCEPT !.role = n, !.phone = f] \in Body
           /\ [Ask(op, u) EXCEPT !.role = n, !.add = add] \in Body
           /\ [Ask(op, u) EXCEPT !.add = add, !.remove = remove] \in Body
BY AccessControlConstants DEF Ask, Body

\* A request stays one when its answer is settled, or another write overtakes it.
LEMMA StillRequest ==
    ASSUME NEW r \in Request
    PROVE  [r EXCEPT !.waiting = FALSE] \in Request /\ [r EXCEPT !.clean = FALSE] \in Request
<1>1. [r EXCEPT !.waiting = FALSE] \in Request
  BY DEF Request
<1>2. [r EXCEPT !.clean = FALSE] \in Request
  BY DEF Request
<1>3. QED
  BY <1>1, <1>2

\* Sessions: tokens that are tokens, pages that are pages.
LEMMA MirrorTypes ==
    ASSUME SessionTypeOK, NEW b \in Browsers, NEW t \in Token \cup {NoSession}, Mirror(b, t)
    PROVE  /\ session' \in [Browsers -> Token \cup {NoSession}]
           /\ signedIn' \in [Browsers -> BOOLEAN] /\ page' \in [Browsers -> Pages]
BY DEF SessionTypeOK, Mirror, Pages

LEMMA LogOutTypes ==
    ASSUME SessionTypeOK, NEW b \in Browsers, LogOut(b)
    PROVE  /\ session' \in [Browsers -> Token \cup {NoSession}]
           /\ signedIn' \in [Browsers -> BOOLEAN] /\ page' \in [Browsers -> Pages]
<1>1. PICK kept \in {session[b], NoSession} : session' = [session EXCEPT ![b] = kept]
  BY DEF LogOut
<1>2. kept \in Token \cup {NoSession}
  BY DEF SessionTypeOK
<1>3. QED
  BY <1>1, <1>2 DEF SessionTypeOK, LogOut, Pages

LEMMA VisitTypes ==
    ASSUME SessionTypeOK, Visit
    PROVE  visits' \in Nat
BY DEF SessionTypeOK, Visit

\* Leaving a page leaves nothing ill-formed.
LEMMA LeaveTypes ==
    ASSUME TypeOK, NEW b \in Browsers, Leave(b)
    PROVE  local' \in [Browsers -> Local]
BY AccessControlConstants DEF TypeOK, Leave, NothingLocal, Local

\* The history of the managers.
LEMMA RecordTypes ==
    ASSUME TypeOK, now' \in Nat, Record
    PROVE  lastManaged' \in [Users -> Int]
BY DEF TypeOK, Record

\* Sessions come and go.
LEMMA SessionTypes ==
    ASSUME TypeOK, NEW b \in Browsers,
           \/ \E u \in Users : Login(b, u) \/ Register(b, u)
           \/ Renew(b) \/ ReloadPage(b) \/ LogOutButton(b)
           \/ \E p \in Pages : OpenPage(b, p)
    PROVE  TypeOK'
<1>1. SessionTypeOK /\ now \in Nat
  BY DEF TypeOK, SessionTypeOK
<1>2. ASSUME NEW u \in Users, Login(b, u) PROVE TypeOK'
  <2>1. Issued(u) \in Token \cup {NoSession}
    BY IssuedTypes
  <2>2. SessionTypeOK'
    BY <1>1, <1>2, <2>1, MirrorTypes, VisitTypes DEF Login, SignIn, Mirror, SessionTypeOK
  <2>3. QED
    BY <1>2, <2>2, LeaveTypes DEF Login, TypeOK, ServerUnchanged
<1>3. ASSUME NEW u \in Users, Register(b, u) PROVE TypeOK'
  <2>1. TokenFor(u, Undefined) \in Token \cup {NoSession}
    BY IssuedTypes
  <2>2. SessionTypeOK'
    BY <1>1, <1>3, <2>1, MirrorTypes, VisitTypes DEF Register, SignIn, Mirror, SessionTypeOK
  <2>3. Undefined \in Metadata
    BY AccessControlConstants DEF Undefined, Metadata
  <2>4. users' \in People
    BY <1>3, <2>3 DEF Register, TypeOK, People
  <2>5. lastManaged' \in [Users -> Int]
    BY <1>3, <2>2, RecordTypes DEF Register, SessionTypeOK
  <2>6. QED
    BY <1>3, <2>2, <2>4, <2>5, LeaveTypes DEF Register, TypeOK
<1>4. CASE Renew(b)
  <2>1. Renewed(b) \in Token \cup {NoSession}
    BY <1>4, IssuedTypes DEF Renew, Refresh, Renewed, TypeOK, SessionTypeOK, Token
  <2>2. SessionTypeOK'
    BY <1>1, <1>4, <2>1, MirrorTypes, VisitTypes DEF Renew, Refresh, Mirror, SessionTypeOK
  <2>3. QED
    BY <1>4, <2>2, LeaveTypes DEF Renew, TypeOK, ServerUnchanged
<1>5. CASE ReloadPage(b)
  <2>1. Renewed(b) \in Token \cup {NoSession}
    BY <1>5, IssuedTypes DEF ReloadPage, Renewed, TypeOK, SessionTypeOK, Token
  <2> DEFINE t == IF session[b] # NoSession /\ now < session[b].exp THEN session[b] ELSE Renewed(b)
             p == CASE t = NoSession -> "login"
                    [] page[b] = "login" -> "home"
                    [] OTHER -> Guarded(t.meta, page[b])
  <2>2. t \in Token \cup {NoSession} /\ p \in Pages
    BY <1>1, <2>1 DEF SessionTypeOK, Guarded, Pages
  <2>3. SessionTypeOK'
    <3>1. session' = [session EXCEPT ![b] = t] /\ page' = [page EXCEPT ![b] = p]
      BY <1>5 DEF ReloadPage, Reload
    <3>2. signedIn' = [signedIn EXCEPT ![b] = t # NoSession] /\ now' = now /\ visits' \in Nat
      BY <1>1, <1>5, VisitTypes DEF ReloadPage, Reload
    <3> HIDE DEF t, p
    <3>3. QED
      BY <1>1, <2>2, <3>1, <3>2 DEF SessionTypeOK
  <2>4. \A r \in requests : [r EXCEPT !.waiting = FALSE] \in Request
    BY StillRequest DEF TypeOK
  <2>5. requests' \in SUBSET Request
    BY <1>5, <2>4 DEF ReloadPage, TypeOK
  <2>6. local' \in [Browsers -> Local]
    BY <1>5, AccessControlConstants DEF ReloadPage, TypeOK, NothingLocal, Local
  <2>7. shown' \in [Browsers -> [users : People \cup {NoList}, roles : RoleTable \cup {NoList}]]
    BY <1>5 DEF ReloadPage, TypeOK
  <2>8. QED
    BY <1>5, <2>3, <2>5, <2>6, <2>7 DEF ReloadPage, TypeOK, ServerUnchanged
<1>6. CASE LogOutButton(b)
  <2>1. SessionTypeOK'
    BY <1>1, <1>6, LogOutTypes, VisitTypes DEF LogOutButton, LogOut, SessionTypeOK
  <2>2. QED
    BY <1>6, <2>1, LeaveTypes DEF LogOutButton, TypeOK, ServerUnchanged
<1>7. ASSUME NEW p \in Pages, OpenPage(b, p) PROVE TypeOK'
  <2>1. SessionTypeOK'
    BY <1>1, <1>7 DEF OpenPage, Open, SessionTypeOK, Guarded, Pages
  <2>2. QED
    BY <1>7, <2>1, LeaveTypes DEF OpenPage, TypeOK, ServerUnchanged
<1>8. QED
  BY <1>2, <1>3, <1>4, <1>5, <1>6, <1>7

\* The clock.
LEMMA ClockTypes ==
    ASSUME TypeOK, TimePasses
    PROVE  TypeOK'
<1>1. SessionTypeOK' /\ now' \in Nat
  BY DEF TimePasses, Tick, TypeOK, SessionTypeOK
<1>2. lastManaged' \in [Users -> Int]
  BY <1>1, RecordTypes DEF TimePasses
<1>3. QED
  BY <1>1, <1>2 DEF TimePasses, TypeOK

\* What a page sends, whatever it keeps of it.
LEMMA SentTypes ==
    ASSUME TypeOK, NEW b \in Browsers, NEW body \in Body, Send(b, body),
           local' \in [Browsers -> Local]
    PROVE  TypeOK'
BY SendTypes DEF Send, TypeOK, OnlyPages, sessionVars, SessionTypeOK

LEMMA ConfirmTypes ==
    ASSUME TypeOK, NEW b \in Browsers, NEW k, NEW body \in Body, Confirm(b, k, body)
    PROVE  TypeOK'
<1>1. Send(b, body) /\ local[b].dialog \in Dialog /\ local[b] \in Local
  BY DEF Confirm, TypeOK, Local
<1>2. sent + 1 \in 1..MaxRequests /\ sent + 1 \in 0..MaxRequests
  BY <1>1, SendTypes, AccessControlConstants
<1>3. [local[b].dialog EXCEPT !.request = sent + 1] \in Dialog
  BY <1>1, <1>2 DEF Dialog
<1>4. local[b].ours \cup {sent + 1} \in SUBSET (1..MaxRequests)
  BY <1>1, <1>2 DEF Local
<1>5. [local[b] EXCEPT !.dialog = [local[b].dialog EXCEPT !.request = sent + 1],
                       !.ours = @ \cup {sent + 1}] \in Local
  BY <1>1, <1>3, <1>4 DEF Local
<1>6. local' = [local EXCEPT ![b] =
                 [local[b] EXCEPT !.dialog = [local[b].dialog EXCEPT !.request = sent + 1],
                                  !.ours = @ \cup {sent + 1}]]
  BY <1>1 DEF Confirm, TypeOK, Local, Dialog
<1>7. local' \in [Browsers -> Local]
  BY <1>5, <1>6 DEF TypeOK
<1>8. QED
  BY <1>1, <1>7, SentTypes

LEMMA DialogTypes ==
    ASSUME TypeOK, NEW b \in Browsers, NEW kind \in {"extra", "profile", "invite", "newrole"},
           NEW u \in Users, NEW perms \in SUBSET Permissions, NEW extra \in SUBSET Permissions,
           OpenDialog(b, kind, u, perms, extra)
    PROVE  TypeOK'
<1>1. [kind |-> kind, user |-> u, perms |-> perms, extra |-> extra, request |-> 0] \in Dialog
  BY AccessControlConstants DEF Dialog
<1>2. local' \in [Browsers -> Local]
  BY <1>1 DEF OpenDialog, TypeOK, Local
<1>3. QED
  BY <1>2 DEF OpenDialog, TypeOK, OnlyPages, sessionVars, SessionTypeOK

\* The users, permissions and settings pages.
LEMMA AdministerTypes ==
    ASSUME TypeOK, NEW b \in Browsers, Administer(b)
    PROVE  TypeOK'
<1> USE DEF Operations
<1>1. local[b] \in Local /\ (local[b].dialog # NoDialog => local[b].dialog \in Dialog)
  BY DEF TypeOK, Local
<1>2. \A d \in Dialog : d.user \in Users /\ d.perms \in SUBSET Permissions /\ d.extra \in SUBSET Permissions
  BY DEF Dialog
<1>3. CASE ListUsers(b) \/ ListRoles(b)
  <2>1. /\ [shown[b] EXCEPT !.users = users] \in [users : People \cup {NoList}, roles : RoleTable \cup {NoList}]
        /\ [shown[b] EXCEPT !.roles = customs] \in [users : People \cup {NoList}, roles : RoleTable \cup {NoList}]
    BY DEF TypeOK
  <2>2. shown' \in [Browsers -> [users : People \cup {NoList}, roles : RoleTable \cup {NoList}]]
    BY <1>3, <2>1 DEF ListUsers, ListRoles, TypeOK
  <2>3. QED
    BY <1>3, <2>2 DEF ListUsers, ListRoles, TypeOK, OnlyPages, sessionVars, SessionTypeOK
<1>4. ASSUME NEW body \in Body, Send(b, body), local' = [local EXCEPT ![b].request = sent + 1]
      PROVE  TypeOK'
  <2>1. sent + 1 \in 0..MaxRequests
    BY <1>4, SendTypes, AccessControlConstants
  <2>2. [local[b] EXCEPT !.request = sent + 1] \in Local
    BY <1>1, <2>1 DEF Local
  <2>3. local' \in [Browsers -> Local]
    BY <1>4, <2>2 DEF TypeOK
  <2>4. QED
    BY <1>4, <2>3, SentTypes
<1>5. ASSUME NEW body \in Body, Send(b, body), UNCHANGED local PROVE TypeOK'
  BY <1>5, SentTypes DEF TypeOK
<1>6. ASSUME NEW u \in Users, HandleDeleteUser(b, u) PROVE TypeOK'
  BY <1>6, <1>4, AskTypes, AccessControlConstants DEF HandleDeleteUser
<1>7. ASSUME NEW u \in Users, NEW n \in Offered, RoleSelect(b, u, n) PROVE TypeOK'
  <2>1. n \in Roles
    BY AccessControlConstants
  <2>2. QED
    BY <1>7, <2>1, <1>5, AskTypes, AccessControlConstants DEF RoleSelect
<1>8. ASSUME NEW u \in Users, NEW k \in Operations, OpenRow(b, k, u) PROVE TypeOK'
  <2>1. shown[b].users[u] \in Metadata
    BY <1>8 DEF OpenRow, Listed, TypeOK, People
  <2>2. shown[b].users[u].perms \in SUBSET Permissions /\ shown[b].users[u].extra \in SUBSET Permissions
    BY <2>1 DEF Metadata
  <2>3. QED
    BY <1>8, <2>2, DialogTypes DEF OpenRow
<1>9. ASSUME NEW u \in Users, NEW k \in Operations, OpenForm(b, k, u) PROVE TypeOK'
  BY <1>9, DialogTypes DEF OpenForm
<1>10. CASE CloseDialog(b)
  <2>1. [local[b] EXCEPT !.dialog = NoDialog] \in Local
    BY <1>1 DEF Local
  <2>2. local' \in [Browsers -> Local]
    BY <1>10, <2>1 DEF CloseDialog, TypeOK
  <2>3. QED
    BY <1>10, <2>2 DEF CloseDialog, TypeOK, OnlyPages, sessionVars, SessionTypeOK
<1>11. CASE InviteUserModal(b)
  <2>1. PICK n \in Offered, f \in Phones :
          Confirm(b, "invite", [Ask("invite", local[b].dialog.user) EXCEPT !.role = n, !.phone = f])
    BY <1>11 DEF InviteUserModal
  <2>2. n \in Roles /\ local[b].dialog.user \in Users
    BY <2>1, <1>1, <1>2, AccessControlConstants DEF Confirm
  <2>3. [Ask("invite", local[b].dialog.user) EXCEPT !.role = n, !.phone = f] \in Body
    BY <2>2, AskTypes, AccessControlConstants
  <2>4. QED
    BY <2>1, <2>3, ConfirmTypes
<1>12. CASE EditPermissionsModal(b)
  <2> DEFINE d == local[b].dialog
  <2>1. PICK chosen \in SUBSET Extras :
          LET extraSet == (chosen \ d.perms) \cup (d.extra \cap d.perms)
          IN  /\ d # NoDialog
              /\ Confirm(b, "extra", [Ask("extra", d.user) EXCEPT !.add = extraSet \ d.extra,
                                                                  !.remove = d.extra \ extraSet])
    BY <1>12 DEF EditPermissionsModal
  <2> DEFINE extraSet == (chosen \ d.perms) \cup (d.extra \cap d.perms)
  <2>2. d.user \in Users /\ d.perms \in SUBSET Permissions /\ d.extra \in SUBSET Permissions
    BY <2>1, <1>1, <1>2
  <2>3. extraSet \in SUBSET Permissions
    BY <2>2, AccessControlConstants
  <2>4. [Ask("extra", d.user) EXCEPT !.add = extraSet \ d.extra, !.remove = d.extra \ extraSet] \in Body
    <3> DEFINE given == extraSet \ d.extra
               taken == d.extra \ extraSet
    <3>1. given \in SUBSET Permissions /\ taken \in SUBSET Permissions
      BY <2>2, <2>3
    <3>2. "extra" \in Operations
      BY DEF Operations
    <3> HIDE DEF given, taken
    <3>3. [Ask("extra", d.user) EXCEPT !.add = given, !.remove = taken] \in Body
      BY <2>2, <3>1, <3>2, AskTypes, AccessControlConstants
    <3>4. QED
      BY <3>3 DEF given, taken
  <2>5. QED
    BY <2>1, <2>4, ConfirmTypes
<1>13. CASE EditPhoneModal(b)
  <2>1. PICK f \in Phones :
          Confirm(b, "profile", [Ask("profile", local[b].dialog.user) EXCEPT !.phone = f])
    BY <1>13 DEF EditPhoneModal
  <2>2. local[b].dialog.user \in Users
    BY <2>1, <1>1, <1>2 DEF Confirm
  <2>3. QED
    BY <2>1, <2>2, ConfirmTypes, AskTypes, AccessControlConstants
<1>14. CASE CreateRoleModal(b)
  <2>1. PICK n \in CustomNames, chosen \in SUBSET Extras :
          Confirm(b, "newrole", [Ask("newrole", local[b].dialog.user) EXCEPT !.role = n, !.add = chosen])
    BY <1>14 DEF CreateRoleModal
  <2>2. local[b].dialog.user \in Users /\ n \in Roles /\ chosen \in SUBSET Permissions
    BY <2>1, <1>1, <1>2, AccessControlConstants DEF Confirm, CustomNames
  <2>3. [Ask("newrole", local[b].dialog.user) EXCEPT !.role = n, !.add = chosen] \in Body
    BY <2>2, AskTypes, AccessControlConstants
  <2>4. QED
    BY <2>1, <2>3, ConfirmTypes
<1>15. signedIn[b] /\ session[b] # NoSession => Self(b) \in Users
  BY DEF Self, TypeOK, SessionTypeOK, Token
<1>16. ASSUME NEW n \in CustomNames, RoleCardDelete(b, n) PROVE TypeOK'
  <2>1. Self(b) \in Users /\ n \in Roles
    BY <1>15, <1>16 DEF RoleCardDelete, Send, CustomNames
  <2>2. QED
    BY <1>16, <2>1, <1>5, AskTypes, AccessControlConstants DEF RoleCardDelete
<1>17. CASE SettingsPage(b)
  <2>1. PICK f \in Phones : /\ Send(b, [Ask("me", Self(b)) EXCEPT !.phone = f])
                            /\ local' = [local EXCEPT ![b].request = sent + 1]
    BY <1>17 DEF SettingsPage
  <2>2. Self(b) \in Users
    BY <1>15, <2>1 DEF Send
  <2>3. QED
    BY <2>1, <2>2, <1>4, AskTypes, AccessControlConstants
<1>18. QED
  BY <1>3, <1>6, <1>7, <1>8, <1>9, <1>10, <1>11, <1>12, <1>13, <1>14, <1>16, <1>17 DEF Administer

\* A handler that moves on, ends or writes leaves well-formed requests.
LEMMA MovesTypes ==
    ASSUME TypeOK, NEW r \in requests, NEW q \in Request, Moves(r, q)
    PROVE  requests' \in SUBSET Request
BY DEF TypeOK, Moves

LEMMA EndsTypes ==
    ASSUME TypeOK, NEW r \in requests, NEW step \in {"done", "refused", "denied"}, Ends(r, step)
    PROVE  requests' \in SUBSET Request
<1>1. [r EXCEPT !.step = step] \in Request
  BY DEF TypeOK, Request
<1>2. QED
  BY <1>1, MovesTypes DEF Ends

LEMMA WritesTypes ==
    ASSUME TypeOK, NEW r \in requests, NEW u \in Users, Writes(r, u)
    PROVE  requests' \in SUBSET Request
<1>1. \A q \in requests : [q EXCEPT !.clean = FALSE] \in Request /\ q \in Request
  BY StillRequest DEF TypeOK
<1>2. [r EXCEPT !.step = "done"] \in Request
  BY DEF TypeOK, Request
<1>3. QED
  BY <1>1, <1>2 DEF Writes

\* A step of a handler that leaves users and roles alone.
LEMMA HandlerOnlyTypes ==
    ASSUME TypeOK, requests' \in SUBSET Request, OnlyServer, ServerUnchanged
    PROVE  TypeOK'
BY DEF TypeOK, OnlyServer, ServerUnchanged, sessionVars, SessionTypeOK

\* A step that writes the users.
LEMMA UsersWrittenTypes ==
    ASSUME TypeOK, requests' \in SUBSET Request, users' \in People, OnlyServer,
           UNCHANGED customs, Record
    PROVE  TypeOK'
<1>1. now' \in Nat
  BY DEF TypeOK, SessionTypeOK, OnlyServer, sessionVars
<1>2. lastManaged' \in [Users -> Int]
  BY <1>1, RecordTypes
<1>3. QED
  BY <1>2 DEF TypeOK, OnlyServer, sessionVars, SessionTypeOK

\* What a handler writes is metadata.
LEMMA UpdatedTypes ==
    ASSUME NEW r \in Request, NEW meta \in Metadata, r.seen \in Metadata
    PROVE  Updated(r, meta) \in Metadata
<1>1. /\ r.body.role \in Roles /\ r.perms \in SUBSET Permissions /\ r.body.phone \in Phones
      /\ r.body.add \in SUBSET Permissions /\ meta.phone \in Phones
  BY DEF Request, Body, Metadata
<1>2. [r.seen EXCEPT !.phone = meta.phone] \in Metadata
  BY <1>1 DEF Metadata
<1>3. AssignRole(r, meta) \in Metadata
  BY <1>1, <1>2, MetadataTypes DEF AssignRole
<1>4. UpdateExtra(r, meta) \in Metadata
  <2>1. (r.seen.extra \cup r.body.add) \ r.body.remove \in SUBSET Permissions
    BY <1>1 DEF Metadata
  <2>2. QED
    BY <1>1, <2>1 DEF UpdateExtra, Metadata
<1>5. UpdateProfile(r, meta) \in Metadata
  BY <1>1 DEF UpdateProfile, Metadata
<1>6. QED
  BY <1>3, <1>4, <1>5 DEF Updated

\* The handlers.
LEMMA HandleTypes ==
    ASSUME TypeOK, NEW r \in requests, RequestOK(r), Handle(r)
    PROVE  TypeOK'
<1>1. r \in Request /\ r.body \in Body /\ r.body.user \in Users /\ r.body.role \in Roles
      /\ r.body.op \in Operations /\ r.body.add \in SUBSET Permissions /\ r.body.phone \in Phones
  BY DEF TypeOK, Request, Body
<1>2. CASE Deny(r)
  BY <1>2, EndsTypes, HandlerOnlyTypes DEF Deny
<1>3. CASE Refuse(r)
  BY <1>3, EndsTypes, HandlerOnlyTypes DEF Refuse
<1>4. CASE Begin(r)
  <2> DEFINE perms == IF r.body.op \in {"role", "invite"} THEN RolePerms(r.body.role) ELSE {}
  <2>1. perms \in SUBSET Permissions
    BY <1>1, <1>4, AccessControlConstants
    DEF Begin, Admitted, Refusable, Unfit, RoleDefined, RolePerms, TypeOK, RoleTable, CustomNames
  <2>2. [r EXCEPT !.step = "begun", !.perms = perms] \in Request
    BY <1>1, <2>1 DEF Request
  <2>3. QED
    BY <1>4, <2>2, MovesTypes, HandlerOnlyTypes DEF Begin
<1>5. CASE CreateCustomRole(r)
  <2>1. customs' \in RoleTable
    BY <1>1, <1>5 DEF CreateCustomRole, TypeOK, RoleTable
  <2>2. requests' \in SUBSET Request
    BY <1>5, EndsTypes DEF CreateCustomRole
  <2>3. QED
    BY <1>5, <2>1, <2>2 DEF CreateCustomRole, TypeOK, OnlyServer, sessionVars, SessionTypeOK
<1>6. CASE DeleteCustomRole(r)
  <2>1. customs' \in RoleTable
    BY <1>1, <1>6 DEF DeleteCustomRole, TypeOK, RoleTable
  <2>2. requests' \in SUBSET Request
    BY <1>6, EndsTypes DEF DeleteCustomRole
  <2>3. QED
    BY <1>6, <2>1, <2>2 DEF DeleteCustomRole, TypeOK, OnlyServer, sessionVars, SessionTypeOK
<1>7. CASE DeleteUser(r)
  <2>1. users' \in People
    BY <1>1, <1>7 DEF DeleteUser, TypeOK, People
  <2>2. QED
    BY <1>1, <1>7, <2>1, WritesTypes, UsersWrittenTypes DEF DeleteUser
<1>8. CASE CreateUser(r)
  <2>1. Undefined \in Metadata /\ r.perms \in SUBSET Permissions
    BY <1>1, AccessControlConstants DEF Undefined, Metadata, Request
  <2>2. WithRole(Undefined, r.body.role, r.perms) \in Metadata
    BY <1>1, <2>1, MetadataTypes
  <2>3. [WithRole(Undefined, r.body.role, r.perms) EXCEPT !.phone = r.body.phone] \in Metadata
    BY <1>1, <2>2 DEF Metadata
  <2>4. users' \in People
    BY <1>1, <1>8, <2>3 DEF CreateUser, TypeOK, People
  <2>5. QED
    BY <1>1, <1>8, <2>4, WritesTypes, UsersWrittenTypes DEF CreateUser
<1>9. CASE ReadUser(r)
  <2>1. users[r.body.user] \in Metadata \cup {NoUser}
    BY <1>1 DEF TypeOK, People
  <2>2. [r EXCEPT !.step = "read", !.seen = users[r.body.user]] \in Request
    BY <1>1, <2>1 DEF Request
  <2>3. QED
    BY <1>9, <2>2, MovesTypes, HandlerOnlyTypes DEF ReadUser
<1>10. CASE WriteUser(r)
  <2>1. users[r.body.user] \in Metadata /\ r.seen \in Metadata
    BY <1>1, <1>10 DEF WriteUser, TypeOK, People, RequestOK, HeldOK
  <2>2. Updated(r, users[r.body.user]) \in Metadata
    BY <1>1, <2>1, UpdatedTypes
  <2>3. users' \in People
    BY <1>1, <1>10, <2>2 DEF WriteUser, TypeOK, People
  <2>4. QED
    BY <1>1, <1>10, <2>3, WritesTypes, UsersWrittenTypes DEF WriteUser
<1>11. CASE Break(r)
  BY <1>11, EndsTypes, HandlerOnlyTypes DEF Break
<1>12. QED
  BY <1>2, <1>3, <1>4, <1>5, <1>6, <1>7, <1>8, <1>9, <1>10, <1>11 DEF Handle

\* The bootstrap.
LEMMA BootstrapTypes ==
    ASSUME TypeOK, NEW b \in Browsers, NEW u \in Users, BootstrapAdmin(b, u)
    PROVE  TypeOK'
<1>1. sent + 1 \in 1..MaxRequests /\ sent' \in 0..MaxRequests
  BY AccessControlConstants DEF TypeOK, BootstrapAdmin
<1>2. [Ask("bootstrap", u) EXCEPT !.role = "SuperAdmin"] \in Body
  BY AskTypes, AccessControlConstants DEF Operations
<1>3. SystemRoles["SuperAdmin"] \in SUBSET Permissions
  BY AccessControlConstants
<1> DEFINE r == [no |-> sent + 1, browser |-> b, token |-> NoSession,
                 body |-> [Ask("bootstrap", u) EXCEPT !.role = "SuperAdmin"], step |-> "begun",
                 perms |-> SystemRoles["SuperAdmin"], seen |-> NoUser, clean |-> TRUE,
                 waiting |-> FALSE, excused |-> BootstrapExcused]
<1>4. r \in Request
  BY <1>1, <1>2, <1>3 DEF Request, BootstrapExcused
<1>5. requests' = requests \cup {r} /\ requests \in SUBSET Request
  BY DEF BootstrapAdmin, TypeOK
<1>6. requests' \in SUBSET Request
  BY <1>4, <1>5
<1>7. QED
  BY <1>1, <1>6 DEF BootstrapAdmin, TypeOK, sessionVars, SessionTypeOK

\* The answers at the client.
LEMMA AnswerTypes ==
    ASSUME TypeOK, NEW r \in requests, Succeed(r) \/ Fail(r) \/ GiveUp(r) \/ Unauthorized(r)
    PROVE  TypeOK'
<1>1. r \in Request /\ r.browser \in Browsers
  BY DEF TypeOK, Request
<1>2. CASE Succeed(r)
  <2>1. [local[r.browser] EXCEPT !.dialog = NoDialog] \in Local
    BY <1>1 DEF TypeOK, Local
  <2>2. local' \in [Browsers -> Local]
    BY <1>1, <1>2, <2>1 DEF Succeed, TypeOK
  <2>3. QED
    BY <1>2, <2>2 DEF Succeed, TypeOK, sessionVars, SessionTypeOK
<1>3. CASE Fail(r)
  BY <1>3 DEF Fail, TypeOK, sessionVars, SessionTypeOK
<1>4. CASE GiveUp(r)
  <2>1. [r EXCEPT !.waiting = FALSE] \in Request
    BY <1>1 DEF Request
  <2>2. requests' \in SUBSET Request
    BY <1>4, <2>1 DEF GiveUp, TypeOK
  <2>3. SessionTypeOK'
    BY <1>4, VisitTypes DEF GiveUp, TypeOK, SessionTypeOK
  <2>4. QED
    BY <1>4, <2>2, <2>3 DEF GiveUp, TypeOK
<1>5. CASE Unauthorized(r)
  <2>1. SessionTypeOK'
    BY <1>1, <1>5, LogOutTypes DEF Unauthorized, LogOut, TypeOK, SessionTypeOK
  <2>2. QED
    BY <1>1, <1>5, <2>1, LeaveTypes DEF Unauthorized, TypeOK
<1>6. QED
  BY <1>2, <1>3, <1>4, <1>5

\* Every step keeps the types.
LEMMA NextTypes ==
    ASSUME TypeOK, \A r \in requests : RequestOK(r), [Next]_vars
    PROVE  TypeOK'
<1>1. CASE Next
  BY <1>1, ClockTypes, SessionTypes, BootstrapTypes, AdministerTypes, HandleTypes, AnswerTypes DEF Next
<1>2. CASE UNCHANGED vars
  BY <1>2 DEF TypeOK, vars, sessionVars, adminVars, SessionTypeOK
<1>3. QED
  BY <1>1, <1>2

-----------------------------------------------------------------------------
(* Authority *)

\* The history only grows, and stays with the clock.
LEMMA RecordGrows ==
    ASSUME TypeOK, Authority, Record, now' \in Nat, now <= now'
    PROVE  \A u \in Users : /\ lastManaged[u] <= lastManaged'[u] /\ lastManaged'[u] <= now'
                            /\ Manages(users', u) => lastManaged'[u] = now'
<1>1. \A u \in Users : lastManaged[u] \in Int /\ lastManaged[u] <= now
  BY DEF TypeOK, Authority
<1>2. now \in Nat
  BY DEF TypeOK, SessionTypeOK
<1>3. \A u \in Users : lastManaged'[u] = IF Manages(users', u) THEN now' ELSE lastManaged[u]
  BY DEF Record
<1>4. QED
  BY <1>1, <1>2, <1>3

\* A bounded token stays bounded.
LEMMA BoundedStays ==
    ASSUME TypeOK, TypeOK', NEW t \in Token, Bounded(t),
           \A u \in Users : lastManaged[u] <= lastManaged'[u]
    PROVE  Bounded(t)'
<1>1. t.user \in Users /\ t.exp \in Nat /\ TokenTTL \in Nat
  BY WebSessionConstants DEF Token
<1>2. lastManaged[t.user] \in Int /\ lastManaged'[t.user] \in Int
  BY <1>1 DEF TypeOK
<1>3. QED
  BY <1>1, <1>2 DEF Bounded

\* What may happen to a session: it is kept, dropped, or replaced by a new token.
NewSession(b) == session'[b] \in {session[b], NoSession} \cup {Issued(u) : u \in Users}
                                \cup {TokenFor(u, Undefined) : u \in Users}

LEMMA SessionsBounded ==
    ASSUME TypeOK, TypeOK', Authority, NEW b \in Browsers, NewSession(b),
           \A u \in Users : lastManaged[u] <= lastManaged'[u]
    PROVE  (session[b] # NoSession => Bounded(session[b]))'
<1> SUFFICES ASSUME session'[b] # NoSession PROVE Bounded(session[b])'
  OBVIOUS
<1>1. session'[b] \in Token
  BY DEF TypeOK, SessionTypeOK
<1>2. Bounded(session'[b])
  BY IssuedBounded DEF NewSession, Authority
<1>3. session'[b].user \in Users /\ session'[b].exp \in Nat /\ TokenTTL \in Nat
  BY <1>1, WebSessionConstants DEF Token
<1>4. lastManaged[session'[b].user] \in Int /\ lastManaged'[session'[b].user] \in Int
  BY <1>3 DEF TypeOK
<1>5. QED
  BY <1>2, <1>3, <1>4 DEF Bounded

\* Every step keeps the authority.
LEMMA NextAuthority ==
    ASSUME TypeOK, TypeOK', Authority, [Next]_vars
    PROVE  Authority' /\ \A u \in Users : lastManaged[u] <= lastManaged'[u]
<1> DEFINE Grown == /\ \A u \in Users : lastManaged[u] <= lastManaged'[u]
                    /\ \A u \in Users : /\ lastManaged'[u] <= now'
                                        /\ Manages(users', u) => lastManaged'[u] = now'
<1>1. now \in Nat /\ now' \in Nat /\ \A u \in Users : lastManaged[u] \in Int
  BY DEF TypeOK, SessionTypeOK
<1>2. ASSUME UNCHANGED <<now, users, lastManaged>> PROVE Grown
  BY <1>1, <1>2 DEF Authority
<1>3. ASSUME Record, now <= now' PROVE Grown
  BY <1>1, <1>3, RecordGrows
<1>4. ASSUME Grown, \A b \in Browsers : NewSession(b)
      PROVE  Authority' /\ \A u \in Users : lastManaged[u] <= lastManaged'[u]
  <2>1. \A u \in Users : lastManaged[u] <= lastManaged'[u]
    BY <1>4
  <2>2. ASSUME NEW b \in Browsers PROVE (session[b] # NoSession => Bounded(session[b]))'
    BY <1>4, <2>1, SessionsBounded
  <2>3. (\A u \in Users : lastManaged[u] <= now /\ (Manages(users, u) => lastManaged[u] = now))'
    BY <1>4 DEF Manages, Grants
  <2>4. QED
    BY <2>1, <2>2, <2>3 DEF Authority
<1>5. ASSUME UNCHANGED session PROVE \A b \in Browsers : NewSession(b)
  BY <1>5 DEF NewSession
<1>6. ASSUME NEW b \in Browsers, NEW t, session' = [session EXCEPT ![b] = t],
             \/ t \in {session[b], NoSession} \/ \E u \in Users : t \in {Issued(u), TokenFor(u, Undefined)}
      PROVE  \A c \in Browsers : NewSession(c)
  BY <1>6 DEF NewSession, TypeOK, SessionTypeOK
<1> HIDE DEF Grown
<1>7. CASE TimePasses
  <2>1. now <= now'
    BY <1>1, <1>7 DEF TimePasses, Tick
  <2>2. QED
    BY <1>7, <2>1, <1>3, <1>4, <1>5 DEF TimePasses, Tick
<1>8. ASSUME NEW b \in Browsers, NEW u \in Users, Login(b, u) \/ Register(b, u)
      PROVE  Authority' /\ \A v \in Users : lastManaged[v] <= lastManaged'[v]
  <2>1. CASE Login(b, u)
    BY <2>1, <1>2, <1>4, <1>6 DEF Login, SignIn, Mirror, ServerUnchanged
  <2>2. CASE Register(b, u)
    <3>1. now <= now' /\ Record
      BY <1>1, <2>2 DEF Register, SignIn, Mirror
    <3>2. session' = [session EXCEPT ![b] = TokenFor(u, Undefined)]
      BY <2>2 DEF Register, SignIn, Mirror
    <3>3. QED
      BY <3>1, <3>2, <1>3, <1>4, <1>6
  <2>3. QED
    BY <1>8, <2>1, <2>2
<1>9. ASSUME NEW b \in Browsers, Renew(b) \/ ReloadPage(b)
      PROVE  Authority' /\ \A v \in Users : lastManaged[v] <= lastManaged'[v]
  <2>1. session[b].user \in Users
    BY <1>9 DEF Renew, Refresh, ReloadPage, TypeOK, SessionTypeOK, Token
  <2>2. PICK t \in {session[b], Renewed(b)} : session' = [session EXCEPT ![b] = t]
    BY <1>9 DEF Renew, Refresh, ReloadPage, Reload, Mirror
  <2>3. UNCHANGED <<now, users, lastManaged>>
    BY <1>9 DEF Renew, Refresh, ReloadPage, Reload, Mirror, ServerUnchanged
  <2>4. QED
    BY <2>1, <2>2, <2>3, <1>2, <1>4, <1>6 DEF Renewed
<1>10. ASSUME NEW b \in Browsers, LogOut(b), UNCHANGED <<users, lastManaged>>
       PROVE  Authority' /\ \A v \in Users : lastManaged[v] <= lastManaged'[v]
  <2>1. PICK t \in {session[b], NoSession} : session' = [session EXCEPT ![b] = t]
    BY <1>10 DEF LogOut
  <2>2. UNCHANGED <<now, users, lastManaged>>
    BY <1>10 DEF LogOut
  <2>3. QED
    BY <2>1, <2>2, <1>2, <1>4, <1>6
<1>11. ASSUME NEW b \in Browsers, LogOutButton(b) \/ \E p \in Pages : OpenPage(b, p)
       PROVE  Authority' /\ \A v \in Users : lastManaged[v] <= lastManaged'[v]
  <2>1. CASE LogOutButton(b)
    BY <2>1, <1>10 DEF LogOutButton, ServerUnchanged
  <2>2. ASSUME NEW p \in Pages, OpenPage(b, p)
        PROVE  Authority' /\ \A v \in Users : lastManaged[v] <= lastManaged'[v]
    BY <2>2, <1>2, <1>4, <1>5 DEF OpenPage, Open, ServerUnchanged
  <2>3. QED
    BY <1>11, <2>1, <2>2
<1>12. ASSUME NEW b \in Browsers, Administer(b) \/ \E u \in Users : BootstrapAdmin(b, u)
       PROVE  Authority' /\ \A v \in Users : lastManaged[v] <= lastManaged'[v]
  <2>1. UNCHANGED <<now, session, users, lastManaged>>
    BY <1>12 DEF Administer, ListUsers, ListRoles, HandleDeleteUser, RoleSelect, OpenRow, OpenForm,
         OpenDialog, CloseDialog, InviteUserModal, EditPermissionsModal, EditPhoneModal,
         CreateRoleModal, RoleCardDelete, SettingsPage, Confirm, Send, OnlyPages, sessionVars,
         BootstrapAdmin
  <2>2. QED
    BY <2>1, <1>2, <1>4, <1>5
<1>13. ASSUME NEW r \in requests, Handle(r)
       PROVE  Authority' /\ \A v \in Users : lastManaged[v] <= lastManaged'[v]
  <2>1. UNCHANGED <<now, session>> /\ (Record \/ UNCHANGED <<users, lastManaged>>)
    BY <1>13 DEF Handle, Deny, Refuse, Begin, CreateCustomRole, DeleteCustomRole, DeleteUser,
         CreateUser, ReadUser, WriteUser, Break, OnlyServer, ServerUnchanged, sessionVars
  <2>2. now <= now'
    BY <1>1, <2>1
  <2>3. QED
    BY <2>1, <2>2, <1>2, <1>3, <1>4, <1>5
<1>14. ASSUME NEW r \in requests, Succeed(r) \/ Fail(r) \/ GiveUp(r) \/ Unauthorized(r)
       PROVE  Authority' /\ \A v \in Users : lastManaged[v] <= lastManaged'[v]
  <2>1. CASE Succeed(r) \/ Fail(r) \/ GiveUp(r)
    BY <2>1, <1>2, <1>4, <1>5 DEF Succeed, Fail, GiveUp, sessionVars
  <2>2. CASE Unauthorized(r)
    BY <2>2, <1>10 DEF Unauthorized, TypeOK, Request
  <2>3. QED
    BY <1>14, <2>1, <2>2
<1>15. CASE UNCHANGED vars
  BY <1>15, <1>2, <1>4, <1>5 DEF vars, sessionVars, adminVars
<1>16. QED
  BY <1>7, <1>8, <1>9, <1>11, <1>12, <1>13, <1>14, <1>15 DEF Next

-----------------------------------------------------------------------------
(* The requests *)

\* A request about which nothing changes stays as it should be.
LEMMA RequestStays ==
    ASSUME TypeOK, TypeOK', NEW r \in Request, RequestOK(r), r.step # "read" \/ users'[r.body.user] = users[r.body.user],
           sent' \in {sent, sent + 1}, \A u \in Users : lastManaged[u] <= lastManaged'[u]
    PROVE  RequestOK(r)'
<1>1. r.no <= sent'
  BY DEF RequestOK, TypeOK, Request
<1>2. Fresh(r)'
  BY DEF RequestOK, Fresh
<1>3. r.token # NoSession => Bounded(r.token)'
  BY BoundedStays DEF RequestOK, Request
<1>4. BodyOK(r)' /\ HeldOK(r)'
  BY DEF RequestOK, BodyOK, HeldOK, Running, RoleOK
<1>5. QED
  BY <1>1, <1>2, <1>3, <1>4 DEF RequestOK

\* So does one that ends, or that nobody waits for any more.
LEMMA RequestEnds ==
    ASSUME TypeOK, TypeOK', NEW r \in Request, RequestOK(r), NEW step \in {"done", "refused", "denied"},
           sent' = sent, \A u \in Users : lastManaged[u] <= lastManaged'[u]
    PROVE  RequestOK([r EXCEPT !.step = step])'
<1> DEFINE q == [r EXCEPT !.step = step]
<1>1. /\ q \in Request /\ q.step = step /\ q.no = r.no /\ q.body = r.body /\ q.token = r.token
      /\ q.excused = r.excused
  BY DEF Request
<1>2. RequestOK(q)
  BY <1>1 DEF RequestOK, BodyOK, HeldOK, Running, Fresh
<1> HIDE DEF q
<1>3. RequestOK(q)'
  BY <1>1, <1>2, RequestStays
<1>4. QED
  BY <1>3 DEF q

LEMMA RequestForgotten ==
    ASSUME TypeOK, NEW r \in Request, RequestOK(r)
    PROVE  RequestOK([r EXCEPT !.waiting = FALSE]) /\ RequestOK([r EXCEPT !.clean = FALSE])
<1> DEFINE p == [r EXCEPT !.waiting = FALSE]
           q == [r EXCEPT !.clean = FALSE]
<1>2. /\ p.step = r.step /\ p.no = r.no /\ p.body = r.body /\ p.token = r.token /\ p.perms = r.perms
      /\ p.seen = r.seen /\ p.clean = r.clean /\ p.excused = r.excused
  BY DEF Request
<1>3. /\ q.step = r.step /\ q.no = r.no /\ q.body = r.body /\ q.token = r.token /\ q.perms = r.perms
      /\ q.seen = r.seen /\ ~q.clean /\ q.excused = r.excused
  BY DEF Request
<1> HIDE DEF p, q
<1>4. RequestOK(p) /\ RequestOK(q)
  BY <1>2, <1>3 DEF RequestOK, BodyOK, HeldOK, Running, Fresh
<1>5. QED
  BY <1>4 DEF p, q

\* A request that moves on by itself.
LEMMA MovesRequests ==
    ASSUME TypeOK, TypeOK', RequestsOK, NEW r \in requests, NEW q, Moves(r, q), q.no = r.no,
           RequestOK(q)', sent' = sent, UNCHANGED <<users, lastManaged>>
    PROVE  RequestsOK'
<1>1. requests' \subseteq (requests \ {r}) \cup {q} /\ requests \in SUBSET Request
  BY DEF Moves, TypeOK
<1>2. \A u \in Users : lastManaged[u] <= lastManaged'[u]
  BY DEF TypeOK
<1>3. \A p \in requests : RequestOK(p)'
  BY <1>1, <1>2, RequestStays DEF RequestsOK
<1>4. Unique'
  BY <1>1 DEF RequestsOK, Unique
<1>5. QED
  BY <1>1, <1>3, <1>4 DEF RequestsOK

LEMMA EndsRequests ==
    ASSUME TypeOK, TypeOK', RequestsOK, NEW r \in requests, NEW step \in {"done", "refused", "denied"},
           Ends(r, step), sent' = sent, UNCHANGED <<users, lastManaged>>
    PROVE  RequestsOK'
<1>1. \A u \in Users : lastManaged[u] <= lastManaged'[u]
  BY DEF TypeOK
<1>2. r \in Request /\ [r EXCEPT !.step = step].no = r.no
  BY DEF TypeOK, Request
<1>3. QED
  BY <1>1, <1>2, RequestEnds, MovesRequests DEF Ends, RequestsOK

\* A write: whoever holds older metadata of that user is no longer clean.
LEMMA WritesRequests ==
    ASSUME TypeOK, TypeOK', RequestsOK, NEW r \in requests, NEW u \in Users, Writes(r, u), NEW m,
           users' = [users EXCEPT ![u] = m], sent' = sent,
           \A v \in Users : lastManaged[v] <= lastManaged'[v]
    PROVE  RequestsOK'
<1> DEFINE After(q) == IF Overtaken(q, u) THEN [q EXCEPT !.clean = FALSE] ELSE q
           d == [r EXCEPT !.step = "done"]
<1>1. \A q \in requests : q \in Request /\ q.body \in Body /\ q.body.user \in Users
  BY DEF TypeOK, Request, Body
<1>2. \A q \in requests : After(q).no = q.no
  BY <1>1 DEF Request
<1>3. \A q \in requests : RequestOK(After(q))'
  <2> SUFFICES ASSUME NEW q \in requests PROVE RequestOK(After(q))'
    OBVIOUS
  <2>1. CASE Overtaken(q, u)
    <3> DEFINE p == [q EXCEPT !.clean = FALSE]
    <3>1. RequestOK(p)
      BY <1>1, RequestForgotten DEF RequestsOK
    <3>2. /\ ~p.clean /\ p.no = q.no /\ p.body = q.body /\ p.token = q.token /\ p.perms = q.perms
          /\ p.step = q.step /\ p.seen = q.seen /\ p \in Request
      BY <1>1 DEF Request
    <3> HIDE DEF p
    <3>3. p.token # NoSession => Bounded(p.token)'
      BY <3>1, <3>2, BoundedStays DEF RequestOK, Request
    <3>4. RequestOK(p)'
      BY <3>1, <3>2, <3>3 DEF RequestOK, BodyOK, HeldOK, Running, Fresh, RoleOK
    <3>5. QED
      BY <2>1, <3>4 DEF p
  <2>2. CASE ~Overtaken(q, u)
    <3>1. q.step # "read" \/ users'[q.body.user] = users[q.body.user]
      BY <1>1, <2>2 DEF Overtaken, TypeOK, People
    <3>2. QED
      BY <1>1, <2>2, <3>1, RequestStays DEF RequestsOK
  <2>3. QED
    BY <2>1, <2>2
<1>4. RequestOK(d)' /\ d.no = r.no
  BY <1>1, RequestEnds DEF RequestsOK, Request
<1>5. requests' \subseteq {After(q) : q \in requests \ {r}} \cup {d}
  BY DEF Writes
<1> HIDE DEF After, d
<1>6. Unique'
  BY <1>2, <1>4, <1>5 DEF RequestsOK, Unique
<1>7. \A q \in requests' : RequestOK(q)'
  BY <1>3, <1>4, <1>5
<1>8. QED
  BY <1>6, <1>7 DEF RequestsOK

\* A new request.
LEMMA AddedRequests ==
    ASSUME TypeOK, TypeOK', RequestsOK, NEW q, requests' = requests \cup {q}, sent' = sent + 1,
           q.no = sent + 1, RequestOK(q)', UNCHANGED <<users, lastManaged>>
    PROVE  RequestsOK'
<1>1. \A u \in Users : lastManaged[u] <= lastManaged'[u]
  BY DEF TypeOK
<1>2. \A r \in requests : r \in Request /\ RequestOK(r) /\ r.no <= sent /\ r.no \in Nat
  BY DEF TypeOK, RequestsOK, RequestOK, Request
<1>3. \A r \in requests : RequestOK(r)'
  BY <1>1, <1>2, RequestStays
<1>4. sent \in Nat
  BY AccessControlConstants DEF TypeOK
<1>5. Unique'
  BY <1>2, <1>4 DEF RequestsOK, Unique
<1>6. QED
  BY <1>3, <1>5 DEF RequestsOK

\* The requests of a page carry the token of its session.
LEMMA SendRequests ==
    ASSUME TypeOK, TypeOK', Authority, RequestsOK, NEW b \in Browsers, NEW body, Send(b, body),
           body.op # "bootstrap", body.add \cap body.remove = {}
    PROVE  RequestsOK'
<1>1. PICK q : q = [no |-> sent + 1, browser |-> b, token |-> session[b], body |-> body,
                    step |-> "sent", perms |-> {}, seen |-> NoUser, clean |-> TRUE, waiting |-> TRUE,
                    excused |-> FALSE]
  OBVIOUS
<1>2. UNCHANGED <<users, lastManaged>> /\ sent' = sent + 1 /\ requests' = requests \cup {q}
  BY <1>1 DEF Send, OnlyPages
<1>3. q.token \in Token /\ Bounded(q.token) /\ sent \in Nat
  BY <1>1, AccessControlConstants DEF Send, TypeOK, SessionTypeOK, Authority
<1>4. Bounded(q.token)'
  BY <1>2, <1>3 DEF Bounded
<1>5. /\ q.no = sent + 1 /\ q.step = "sent" /\ q.body = body
  BY <1>1
<1>6. RequestOK(q)'
  BY <1>2, <1>3, <1>4, <1>5 DEF RequestOK, BodyOK, HeldOK, Running, Fresh
<1>7. QED
  BY <1>2, <1>5, <1>6, AddedRequests

\* A bootstrap is owed to the first days, or to a list longer than its page.
LEMMA BootstrapOwed ==
    ASSUME NEW b \in Browsers, NEW u \in Users, BootstrapAdmin(b, u)
    PROVE  BootstrapExcused
<1>1. PICK listed \in SUBSET Existing :
         FirstPage(listed) /\ \A v \in listed : users[v].role # "SuperAdmin"
  BY DEF BootstrapAdmin
<1>2. CASE listed = Existing
  BY <1>1, <1>2 DEF BootstrapExcused
<1>3. CASE listed # Existing
  <2>1. Cardinality(listed) = PageSize
    BY <1>1, <1>3 DEF FirstPage
  <2>2. IsFiniteSet(Existing)
    BY FS_Subset, AccessControlConstants DEF Existing
  <2>3. IsFiniteSet(listed) /\ Cardinality(listed) <= Cardinality(Existing)
        /\ Cardinality(listed) # Cardinality(Existing)
    BY <1>3, <2>2, FS_Subset
  <2>4. Cardinality(Existing) \in Nat /\ Cardinality(listed) \in Nat
    BY <2>2, <2>3, FS_CardinalityType
  <2>5. Cardinality(Existing) > PageSize
    BY <2>1, <2>3, <2>4
  <2>6. QED
    BY <2>5 DEF BootstrapExcused
<1>4. QED
  BY <1>2, <1>3

\* What the pages send never adds what it takes away, nor asks for the bootstrap.
LEMMA PagesRequests ==
    ASSUME TypeOK, TypeOK', Authority, RequestsOK, NEW b \in Browsers, Administer(b)
    PROVE  RequestsOK'
<1>1. ASSUME UNCHANGED <<requests, sent, users, lastManaged>> PROVE RequestsOK'
  <2>1. \A r \in requests : RequestOK(r)'
    BY <1>1, RequestStays DEF RequestsOK, TypeOK
  <2>2. QED
    BY <1>1, <2>1 DEF RequestsOK, Unique
<1>2. ASSUME NEW u \in Users, HandleDeleteUser(b, u) PROVE RequestsOK'
  <2>1. PICK body : body = Ask("delete", u)
    OBVIOUS
  <2>2. body.op = "delete" /\ body.add = {}
    BY <2>1 DEF Ask
  <2>3. Send(b, body)
    BY <1>2, <2>1 DEF HandleDeleteUser
  <2>4. QED
    BY <2>2, <2>3, SendRequests
<1>3. CASE ListUsers(b) \/ ListRoles(b) \/ CloseDialog(b)
  BY <1>3, <1>1 DEF ListUsers, ListRoles, CloseDialog, OnlyPages
<1>4. ASSUME NEW u \in Users, NEW n \in Offered, RoleSelect(b, u, n) PROVE RequestsOK'
  <2>1. PICK body : body = [Ask("role", u) EXCEPT !.role = n]
    OBVIOUS
  <2>2. body.op = "role" /\ body.add = {}
    BY <2>1 DEF Ask
  <2>3. Send(b, body)
    BY <1>4, <2>1 DEF RoleSelect
  <2>4. QED
    BY <2>2, <2>3, SendRequests
<1>5. ASSUME NEW u \in Users, NEW k \in Operations, OpenRow(b, k, u) \/ OpenForm(b, k, u)
      PROVE  RequestsOK'
  BY <1>5, <1>1 DEF OpenRow, OpenForm, OpenDialog, OnlyPages
<1>6. CASE InviteUserModal(b)
  <2>1. PICK n \in Offered, f \in Phones :
          Send(b, [Ask("invite", local[b].dialog.user) EXCEPT !.role = n, !.phone = f])
    BY <1>6 DEF InviteUserModal, Confirm
  <2>2. PICK body : body = [Ask("invite", local[b].dialog.user) EXCEPT !.role = n, !.phone = f]
    OBVIOUS
  <2>3. body.op = "invite" /\ body.add = {}
    BY <2>2 DEF Ask
  <2>4. QED
    BY <2>1, <2>2, <2>3, SendRequests
<1>7. CASE EditPermissionsModal(b)
  <2>1. PICK x, e, u : Send(b, [Ask("extra", u) EXCEPT !.add = x \ e, !.remove = e \ x])
    BY <1>7 DEF EditPermissionsModal, Confirm
  <2>2. PICK body : body = [Ask("extra", u) EXCEPT !.add = x \ e, !.remove = e \ x]
    OBVIOUS
  <2>3. body.op = "extra" /\ body.add = x \ e /\ body.remove = e \ x
    BY <2>2 DEF Ask
  <2>4. body.add \cap body.remove = {}
    BY <2>3
  <2>5. QED
    BY <2>1, <2>2, <2>3, <2>4, SendRequests
<1>8. CASE EditPhoneModal(b)
  <2>1. PICK f \in Phones : Send(b, [Ask("profile", local[b].dialog.user) EXCEPT !.phone = f])
    BY <1>8 DEF EditPhoneModal, Confirm
  <2>2. PICK body : body = [Ask("profile", local[b].dialog.user) EXCEPT !.phone = f]
    OBVIOUS
  <2>3. body.op = "profile" /\ body.add = {}
    BY <2>2 DEF Ask
  <2>4. QED
    BY <2>1, <2>2, <2>3, SendRequests
<1>9. CASE CreateRoleModal(b)
  <2>1. PICK n \in CustomNames, x \in SUBSET Extras :
          Send(b, [Ask("newrole", local[b].dialog.user) EXCEPT !.role = n, !.add = x])
    BY <1>9 DEF CreateRoleModal, Confirm
  <2>2. PICK body : body = [Ask("newrole", local[b].dialog.user) EXCEPT !.role = n, !.add = x]
    OBVIOUS
  <2>3. body.op = "newrole" /\ body.remove = {}
    BY <2>2 DEF Ask
  <2>4. QED
    BY <2>1, <2>2, <2>3, SendRequests
<1>10. ASSUME NEW n \in CustomNames, RoleCardDelete(b, n) PROVE RequestsOK'
  <2>1. PICK body : body = [Ask("droprole", Self(b)) EXCEPT !.role = n]
    OBVIOUS
  <2>2. body.op = "droprole" /\ body.add = {}
    BY <2>1 DEF Ask
  <2>3. Send(b, body)
    BY <1>10, <2>1 DEF RoleCardDelete
  <2>4. QED
    BY <2>2, <2>3, SendRequests
<1>11. CASE SettingsPage(b)
  <2>1. PICK f \in Phones : Send(b, [Ask("me", Self(b)) EXCEPT !.phone = f])
    BY <1>11 DEF SettingsPage
  <2>2. PICK body : body = [Ask("me", Self(b)) EXCEPT !.phone = f]
    OBVIOUS
  <2>3. body.op = "me" /\ body.add = {}
    BY <2>2 DEF Ask
  <2>4. QED
    BY <2>1, <2>2, <2>3, SendRequests
<1>12. QED
  BY <1>2, <1>3, <1>4, <1>5, <1>6, <1>7, <1>8, <1>9, <1>10, <1>11 DEF Administer

\* The handlers know what they checked, and hold what they read.
LEMMA HandlersRequests ==
    ASSUME TypeOK, TypeOK', RoleMeansPermissions, RequestsOK, NEW r \in requests, Handle(r),
           \A u \in Users : lastManaged[u] <= lastManaged'[u]
    PROVE  RequestsOK'
<1>1. r \in Request /\ RequestOK(r) /\ r.body.user \in Users
  BY DEF TypeOK, RequestsOK, Request, Body
<1>2. CASE Deny(r) \/ Refuse(r) \/ CreateCustomRole(r) \/ DeleteCustomRole(r) \/ Break(r)
  <2>1. PICK step \in {"done", "refused", "denied"} : Ends(r, step)
    BY <1>2 DEF Deny, Refuse, CreateCustomRole, DeleteCustomRole, Break
  <2>2. sent' = sent /\ UNCHANGED <<users, lastManaged>>
    BY <1>2 DEF Deny, Refuse, CreateCustomRole, DeleteCustomRole, Break, OnlyServer, ServerUnchanged
  <2>3. QED
    BY <2>1, <2>2, EndsRequests
<1>3. CASE Begin(r)
  <2>1. PICK q : q = [r EXCEPT !.step = "begun",
                        !.perms = IF r.body.op \in {"role", "invite"} THEN RolePerms(r.body.role) ELSE {}]
    OBVIOUS
  <2>2. /\ q.no = r.no /\ q.body = r.body /\ q.token = r.token /\ q.step = "begun"
        /\ q.perms = IF r.body.op \in {"role", "invite"} THEN RolePerms(r.body.role) ELSE {}
    BY <1>1, <2>1 DEF Request
  <2>3. /\ r.body.op \in {"role", "extra", "profile", "me", "invite"}
        /\ r.body.op \in {"role", "extra"} => r.body.user # r.token.user
        /\ r.body.op \in {"role", "extra", "invite"} => Grants(r.token.meta, Manage)
    BY <1>3 DEF Begin, Admitted, Refusable, Unfit, NeedsManage
  <2>4. RequestOK(q)
    BY <1>1, <2>2, <2>3 DEF RequestOK, BodyOK, HeldOK, Running, Fresh, RolePerms
  <2>5. UNCHANGED <<users, lastManaged, sent>>
    BY <1>3 DEF Begin, OnlyServer, ServerUnchanged
  <2>6. RequestOK(q)'
    BY <2>4, <2>5, <2>2 DEF RequestOK, BodyOK, HeldOK, Running, Fresh, RoleOK, Bounded
  <2>7. Moves(r, q)
    BY <1>3, <2>1 DEF Begin
  <2>8. QED
    BY <2>2, <2>5, <2>6, <2>7, MovesRequests
<1>4. CASE ReadUser(r)
  <2>1. PICK q : q = [r EXCEPT !.step = "read", !.seen = users[r.body.user]]
    OBVIOUS
  <2>2. /\ q.no = r.no /\ q.body = r.body /\ q.token = r.token /\ q.step = "read"
        /\ q.perms = r.perms /\ q.seen = users[r.body.user] /\ q.excused = r.excused
    BY <1>1, <2>1 DEF Request
  <2>3. users[r.body.user] \in Metadata /\ RoleOK(users[r.body.user]) /\ r.step = "begun"
    BY <1>1, <1>4 DEF ReadUser, TypeOK, People, RoleMeansPermissions, RoleOK
  <2>4. RequestOK(q)
    BY <1>1, <2>2, <2>3 DEF RequestOK, BodyOK, HeldOK, Running, Fresh
  <2>5. UNCHANGED <<users, lastManaged, sent>>
    BY <1>4 DEF ReadUser, OnlyServer, ServerUnchanged
  <2>6. RequestOK(q)'
    BY <2>4, <2>5, <2>2 DEF RequestOK, BodyOK, HeldOK, Running, Fresh, RoleOK, Bounded
  <2>7. Moves(r, q)
    BY <1>4, <2>1 DEF ReadUser
  <2>8. QED
    BY <2>2, <2>5, <2>6, <2>7, MovesRequests
<1>5. CASE DeleteUser(r) \/ CreateUser(r) \/ WriteUser(r)
  <2>1. PICK m : users' = [users EXCEPT ![r.body.user] = m]
    BY <1>5 DEF DeleteUser, CreateUser, WriteUser
  <2>2. Writes(r, r.body.user) /\ sent' = sent
    BY <1>5 DEF DeleteUser, CreateUser, WriteUser, OnlyServer
  <2>3. QED
    BY <1>1, <2>1, <2>2, WritesRequests
<1>6. QED
  BY <1>2, <1>3, <1>4, <1>5 DEF Handle

\* Every step keeps the requests.
LEMMA NextRequests ==
    ASSUME TypeOK, TypeOK', RoleMeansPermissions, Authority, RequestsOK, [Next]_vars,
           \A u \in Users : lastManaged[u] <= lastManaged'[u]
    PROVE  RequestsOK'
<1>1. \A r \in requests : r \in Request /\ RequestOK(r)
  BY DEF TypeOK, RequestsOK
<1>2. ASSUME requests' \subseteq requests, UNCHANGED <<users, sent>> PROVE RequestsOK'
  <2>1. \A r \in requests : RequestOK(r)'
    BY <1>1, <1>2, RequestStays
  <2>2. QED
    BY <1>2, <2>1 DEF RequestsOK, Unique
<1>3. ASSUME NEW S \in SUBSET requests, UNCHANGED <<users, sent>>,
             requests' \subseteq (requests \ S) \cup {[r EXCEPT !.waiting = FALSE] : r \in S}
      PROVE  RequestsOK'
  <2> DEFINE Off(r) == [r EXCEPT !.waiting = FALSE]
  <2>1. ASSUME NEW r \in requests PROVE RequestOK(r)' /\ RequestOK(Off(r))'
    <3> DEFINE p == Off(r)
    <3>1. RequestOK(p) /\ p \in Request /\ p.body = r.body /\ p.step = r.step
      BY <1>1, RequestForgotten DEF Request
    <3> HIDE DEF p
    <3>2. RequestOK(p)' /\ RequestOK(r)'
      BY <1>1, <1>3, <3>1, RequestStays
    <3>3. QED
      BY <3>2 DEF p
  <2>2. \A r \in requests : Off(r).no = r.no
    BY <1>1 DEF Request
  <2>3. requests' \subseteq (requests \ S) \cup {Off(r) : r \in S}
    BY <1>3
  <2> HIDE DEF Off
  <2>4. Unique'
    BY <2>2, <2>3 DEF RequestsOK, Unique
  <2>5. QED
    BY <2>1, <2>3, <2>4 DEF RequestsOK
<1>4. CASE TimePasses
  BY <1>4, <1>2 DEF TimePasses
<1>5. ASSUME NEW b \in Browsers, NEW u \in Users, Login(b, u) PROVE RequestsOK'
  BY <1>5, <1>2 DEF Login, ServerUnchanged
<1>6. ASSUME NEW b \in Browsers, NEW u \in Users, Register(b, u) PROVE RequestsOK'
  <2>1. \A r \in requests : r.step # "read" \/ users'[r.body.user] = users[r.body.user] \/ ~r.clean
    <3> SUFFICES ASSUME NEW r \in requests, r.step = "read", r.clean
                 PROVE  users'[r.body.user] = users[r.body.user]
      OBVIOUS
    <3>1. r.seen = users[r.body.user] /\ r.seen \in Metadata /\ r.body.user \in Users
      BY <1>1 DEF RequestOK, HeldOK, Fresh, Request, Body
    <3>2. r.body.user # u
      BY <1>6, <3>1, SentinelsApart DEF Register
    <3>3. QED
      BY <1>6, <3>1, <3>2 DEF Register, TypeOK, People
  <2>2. \A r \in requests : RequestOK(r)'
    <3> SUFFICES ASSUME NEW r \in requests PROVE RequestOK(r)'
      OBVIOUS
    <3>1. Fresh(r)'
      BY <1>1, <2>1 DEF RequestOK, Fresh
    <3>2. BodyOK(r)' /\ HeldOK(r)' /\ r.no <= sent'
      BY <1>1, <1>6 DEF RequestOK, BodyOK, HeldOK, Running, RoleOK, Register
    <3>3. r.token # NoSession => Bounded(r.token)'
      BY <1>1, BoundedStays DEF RequestOK, Request
    <3>4. QED
      BY <3>1, <3>2, <3>3 DEF RequestOK
  <2>3. QED
    BY <1>6, <2>2 DEF RequestsOK, Unique, Register
<1>7. ASSUME NEW b \in Browsers, NEW u \in Users, BootstrapAdmin(b, u) PROVE RequestsOK'
  <2>1. PICK q : q = [no |-> sent + 1, browser |-> b, token |-> NoSession,
           body |-> [Ask("bootstrap", u) EXCEPT !.role = "SuperAdmin"], step |-> "begun",
           perms |-> SystemRoles["SuperAdmin"], seen |-> NoUser, clean |-> TRUE,
           waiting |-> FALSE, excused |-> BootstrapExcused]
    OBVIOUS
  <2>2. UNCHANGED <<users, lastManaged>> /\ sent' = sent + 1 /\ requests' = requests \cup {q}
    BY <1>7, <2>1 DEF BootstrapAdmin
  <2>3. /\ q.no = sent + 1 /\ q.body.op = "bootstrap" /\ q.body.role = "SuperAdmin" /\ q.step = "begun"
        /\ q.token = NoSession /\ q.perms = SystemRoles["SuperAdmin"] /\ q.body.add = {}
        /\ q.excused
    BY <1>7, <2>1, BootstrapOwed DEF Ask
  <2>4. RequestOK(q)'
    <3>1. q.no <= sent'
      BY <2>2, <2>3, AccessControlConstants DEF TypeOK
    <3>2. QED
      BY <2>3, <3>1 DEF RequestOK, BodyOK, HeldOK, Running, Fresh
  <2>5. QED
    BY <2>2, <2>3, <2>4, AddedRequests
<1>8. ASSUME NEW b \in Browsers, Renew(b) \/ LogOutButton(b) \/ \E p \in Pages : OpenPage(b, p)
      PROVE  RequestsOK'
  BY <1>8, <1>2 DEF Renew, LogOutButton, OpenPage, ServerUnchanged
<1>9. ASSUME NEW b \in Browsers, ReloadPage(b) PROVE RequestsOK'
  <2> DEFINE S == {r \in requests : r.browser = b}
  <2>1. requests' \subseteq (requests \ S) \cup {[r EXCEPT !.waiting = FALSE] : r \in S}
    BY <1>9 DEF ReloadPage
  <2>2. UNCHANGED <<users, sent>> /\ S \in SUBSET requests
    BY <1>9 DEF ReloadPage, ServerUnchanged
  <2> HIDE DEF S
  <2>3. QED
    BY <2>1, <2>2, <1>3
<1>10. ASSUME NEW r \in requests, Succeed(r) \/ Fail(r) \/ Unauthorized(r) PROVE RequestsOK'
  BY <1>10, <1>2 DEF Succeed, Fail, Unauthorized
<1>11. ASSUME NEW r \in requests, GiveUp(r) PROVE RequestsOK'
  <2>1. requests' \subseteq (requests \ {r}) \cup {[q EXCEPT !.waiting = FALSE] : q \in {r}}
    BY <1>11 DEF GiveUp
  <2>2. UNCHANGED <<users, sent>> /\ {r} \in SUBSET requests
    BY <1>11 DEF GiveUp
  <2>3. QED
    BY <2>1, <2>2, <1>3
<1>12. CASE UNCHANGED vars
  BY <1>12, <1>2 DEF vars, adminVars
<1>13. QED
  BY <1>4, <1>5, <1>6, <1>7, <1>8, <1>9, <1>10, <1>11, <1>12, PagesRequests, HandlersRequests DEF Next

-----------------------------------------------------------------------------
(* Roles *)

\* What a handler writes keeps role, permissions and is_superadmin together.
LEMMA RoleUpdated ==
    ASSUME NEW r \in Request, NEW meta \in Metadata, RoleOK(meta), r.step = "read", HeldOK(r)
    PROVE  RoleOK(Updated(r, meta))
<1>1. r.seen \in Metadata /\ RoleOK(r.seen) /\ r.body \in Body
  BY DEF HeldOK, Request
<1>2. CASE r.body.op \in {"role", "bootstrap"}
  <2>1. r.body.role \in DOMAIN SystemRoles => r.perms = SystemRoles[r.body.role]
    BY <1>2 DEF HeldOK, Running
  <2>2. PICK q : q = [r.seen EXCEPT !.phone = meta.phone]
    OBVIOUS
  <2>3. q \in Metadata
    BY <1>1, <2>2 DEF Metadata
  <2>4. PICK w : w = WithRole(q, r.body.role, r.perms)
    OBVIOUS
  <2>5. w.role = r.body.role /\ w.perms = r.perms /\ w.super = (r.body.role = "SuperAdmin")
    BY <2>3, <2>4 DEF WithRole, Metadata
  <2>6. RoleOK(w)
    BY <2>1, <2>5 DEF RoleOK
  <2>7. QED
    BY <1>2, <2>2, <2>4, <2>6 DEF Updated, AssignRole
<1>3. CASE r.body.op = "extra"
  <2>1. PICK w : w = UpdateExtra(r, meta)
    OBVIOUS
  <2>2. w.role = r.seen.role /\ w.perms = r.seen.perms /\ w.super = r.seen.super
    BY <1>1, <2>1 DEF UpdateExtra, Metadata
  <2>3. QED
    BY <1>1, <1>3, <2>1, <2>2 DEF Updated, RoleOK
<1>4. CASE r.body.op \notin {"role", "bootstrap", "extra"}
  <2>1. PICK w : w = UpdateProfile(r, meta)
    OBVIOUS
  <2>2. w.role = meta.role /\ w.perms = meta.perms /\ w.super = meta.super
    BY <2>1 DEF UpdateProfile, Metadata
  <2>3. QED
    BY <1>4, <2>1, <2>2 DEF Updated, RoleOK
<1>5. QED
  BY <1>2, <1>3, <1>4

LEMMA RoleUndefined == Undefined \in Metadata /\ RoleOK(Undefined)
BY AccessControlConstants DEF Undefined, RoleOK, Metadata

\* Writing one user's metadata, or removing the user.
LEMMA RoleWritten ==
    ASSUME TypeOK, RoleMeansPermissions, NEW u \in Users, NEW m,
           users' = [users EXCEPT ![u] = m], m = NoUser \/ RoleOK(m)
    PROVE  RoleMeansPermissions'
<1>1. \A v \in Users : users'[v] = IF v = u THEN m ELSE users[v]
  BY DEF TypeOK, People
<1>2. QED
  BY <1>1 DEF RoleMeansPermissions, RoleOK

LEMMA NextRole ==
    ASSUME TypeOK, RoleMeansPermissions, RequestsOK, [Next]_vars
    PROVE  RoleMeansPermissions'
<1>1. ASSUME UNCHANGED users PROVE RoleMeansPermissions'
  BY <1>1 DEF RoleMeansPermissions
<1>2. CASE TimePasses
  BY <1>2, <1>1 DEF TimePasses
<1>3. ASSUME NEW b \in Browsers, NEW u \in Users, Login(b, u) \/ Register(b, u) \/ BootstrapAdmin(b, u)
      PROVE  RoleMeansPermissions'
  BY <1>3, <1>1, RoleUndefined, RoleWritten DEF Login, Register, BootstrapAdmin, ServerUnchanged
<1>4. ASSUME NEW b \in Browsers, Renew(b) \/ ReloadPage(b) \/ LogOutButton(b) \/ \E p \in Pages : OpenPage(b, p)
      PROVE  RoleMeansPermissions'
  BY <1>4, <1>1 DEF Renew, ReloadPage, LogOutButton, OpenPage, ServerUnchanged
<1>5. ASSUME NEW b \in Browsers, Administer(b) PROVE RoleMeansPermissions'
  BY <1>5, <1>1 DEF Administer, ListUsers, ListRoles, HandleDeleteUser, RoleSelect, OpenRow, OpenForm,
     OpenDialog, CloseDialog, InviteUserModal, EditPermissionsModal, EditPhoneModal,
     CreateRoleModal, RoleCardDelete, SettingsPage, Confirm, Send, OnlyPages
<1>6. ASSUME NEW r \in requests, Handle(r) PROVE RoleMeansPermissions'
  <2>1. r \in Request /\ HeldOK(r) /\ r.body \in Body /\ r.body.user \in Users
    BY DEF TypeOK, RequestsOK, RequestOK, Request, Body
  <2>2. CASE DeleteUser(r)
    BY <2>1, <2>2, RoleWritten DEF DeleteUser
  <2>3. CASE CreateUser(r)
    <3>1. PICK q : q = WithRole(Undefined, r.body.role, r.perms)
      OBVIOUS
    <3>2. q \in Metadata
      BY <2>1, <3>1, RoleUndefined, MetadataTypes DEF Request, Body
    <3>3. q.role = r.body.role /\ q.perms = r.perms /\ q.super = (r.body.role = "SuperAdmin")
      BY <3>1, RoleUndefined DEF WithRole, Metadata
    <3>4. PICK m : m = [q EXCEPT !.phone = r.body.phone]
      OBVIOUS
    <3>5. m.role = q.role /\ m.perms = q.perms /\ m.super = q.super
      BY <3>2, <3>4 DEF Metadata
    <3>6. r.body.role \in DOMAIN SystemRoles => r.perms = SystemRoles[r.body.role]
      BY <2>1, <2>3 DEF HeldOK, Running, CreateUser
    <3>7. RoleOK(m)
      BY <3>3, <3>5, <3>6 DEF RoleOK
    <3>8. users' = [users EXCEPT ![r.body.user] = m]
      BY <2>3, <3>1, <3>4 DEF CreateUser
    <3>9. QED
      BY <2>1, <3>7, <3>8, RoleWritten
  <2>4. CASE WriteUser(r)
    <3>1. users[r.body.user] \in Metadata /\ r.step = "read"
      BY <2>1, <2>4 DEF WriteUser, TypeOK, People
    <3>2. RoleOK(users[r.body.user])
      BY <2>1, <2>4 DEF WriteUser, RoleMeansPermissions, RoleOK
    <3>3. PICK m : m = Updated(r, users[r.body.user])
      OBVIOUS
    <3>4. RoleOK(m)
      BY <2>1, <3>1, <3>2, <3>3, RoleUpdated
    <3>5. users' = [users EXCEPT ![r.body.user] = m]
      BY <2>1, <2>4, <3>3 DEF WriteUser, TypeOK, People
    <3>6. QED
      BY <2>1, <3>4, <3>5, RoleWritten
  <2>5. QED
    BY <1>1, <1>6, <2>2, <2>3, <2>4 DEF Handle, Deny, Refuse, Begin, CreateCustomRole,
       DeleteCustomRole, ReadUser, Break, OnlyServer, ServerUnchanged
<1>7. ASSUME NEW r \in requests, Succeed(r) \/ Fail(r) \/ GiveUp(r) \/ Unauthorized(r)
      PROVE  RoleMeansPermissions'
  BY <1>7, <1>1 DEF Succeed, Fail, GiveUp, Unauthorized
<1>8. CASE UNCHANGED vars
  BY <1>8, <1>1 DEF vars, adminVars
<1>9. QED
  BY <1>2, <1>3, <1>4, <1>5, <1>6, <1>7, <1>8 DEF Next

-----------------------------------------------------------------------------
(* The invariant *)

\* The first page load.
LEMMA InitAccess ==
    ASSUME Init
    PROVE  Access
<1>1. plan \in Plan /\ plan \in Plans
  BY AccessControlConstants DEF Init
<1>2. ASSUME NEW n \in DOMAIN SystemRoles
      PROVE  /\ WithRole(Undefined, n, SystemRoles[n]) \in Metadata
             /\ RoleOK(WithRole(Undefined, n, SystemRoles[n]))
  <2>1. n \in Roles /\ SystemRoles[n] \in SUBSET Permissions
    BY AccessControlConstants
  <2>2. QED
    BY <2>1, RoleUndefined, MetadataTypes DEF WithRole, RoleOK, Metadata
<1>3. ASSUME NEW u \in Users PROVE users[u] = NoUser \/ (users[u] \in Metadata /\ RoleOK(users[u]))
  <2>1. plan.roles[u] \in DOMAIN SystemRoles \cup {NoUser}
    BY <1>1 DEF Plan
  <2>2. users[u] = IF plan.roles[u] = NoUser THEN NoUser
                   ELSE WithRole(Undefined, plan.roles[u], SystemRoles[plan.roles[u]])
    BY DEF Init
  <2>3. QED
    BY <1>2, <2>1, <2>2
<1>4. users \in People
  BY <1>3 DEF Init, People
<1>5. RoleMeansPermissions
  BY <1>3 DEF RoleMeansPermissions, RoleOK
<1>6. now = 0 /\ TokenTTL \in Nat /\ \A u \in Users : lastManaged[u] = IF Manages(users, u) THEN 0 ELSE -TokenTTL
  BY WebSessionConstants DEF Init, SessionInit
<1>7. lastManaged \in [Users -> Int]
  BY <1>6 DEF Init
<1>8. ASSUME NEW b \in Browsers, plan.user[b] # NoUser
      PROVE  plan.user[b] \in Users /\ users[plan.user[b]] \in Metadata
  <2>1. plan.user[b] \in Users /\ plan.roles[plan.user[b]] # NoUser
    BY <1>1, <1>8, AccessControlConstants DEF Plan
  <2>2. plan.roles[plan.user[b]] \in DOMAIN SystemRoles
    BY <1>1, <2>1 DEF Plan
  <2>3. QED
    BY <1>2, <2>1, <2>2 DEF Init
<1>9. ASSUME NEW b \in Browsers
      PROVE  /\ session[b] \in Token \cup {NoSession}
             /\ session[b] # NoSession => Bounded(session[b])
  <2>1. CASE plan.user[b] = NoUser
    BY <2>1 DEF Init, SessionInit
  <2>2. CASE plan.user[b] # NoUser
    <3>1. PICK t : t = [user |-> plan.user[b], meta |-> users[plan.user[b]], exp |-> TokenTTL]
      OBVIOUS
    <3>2. session[b] = t
      BY <2>2, <3>1 DEF Init, SessionInit
    <3>3. t \in Token /\ t.meta = users[t.user] /\ t.user \in Users /\ t.exp = TokenTTL
      BY <2>2, <3>1, <1>6, <1>8 DEF Token
    <3>4. Grants(t.meta, Manage) => Manages(users, t.user)
      BY <2>2, <3>1, <3>3, <1>8, SentinelsApart DEF Manages
    <3>5. Bounded(t)
      BY <3>3, <3>4, <1>6 DEF Bounded
    <3>6. QED
      BY <3>2, <3>3, <3>5
  <2>3. QED
    BY <2>1, <2>2
<1>10. page \in [Browsers -> Pages]
  <2>1. \A b \in Browsers : plan.page[b] \in Pages
    BY <1>1 DEF Plan
  <2>2. QED
    BY <2>1 DEF Init, SessionInit, Guarded, Pages
<1>11. SessionTypeOK
  <2>1. session \in [Browsers -> Token \cup {NoSession}] /\ signedIn \in [Browsers -> BOOLEAN]
    BY <1>9 DEF Init, SessionInit
  <2>2. visits \in Nat
    BY <1>1 DEF Init, Plan
  <2>3. QED
    BY <1>6, <1>10, <2>1, <2>2 DEF SessionTypeOK
<1>12. TypeOK
  <2>1. customs \in RoleTable /\ shown \in [Browsers -> [users : People \cup {NoList}, roles : RoleTable \cup {NoList}]]
    BY DEF Init, RoleTable
  <2>2. local \in [Browsers -> Local]
    BY AccessControlConstants DEF Init, NothingLocal, Local
  <2>3. requests \in SUBSET Request /\ sent \in 0..MaxRequests
    BY AccessControlConstants DEF Init
  <2>4. QED
    BY <1>1, <1>4, <1>7, <1>11, <2>1, <2>2, <2>3 DEF TypeOK
<1>13. Authority
  <2>1. \A u \in Users : lastManaged[u] <= now /\ (Manages(users, u) => lastManaged[u] = now)
    BY <1>6
  <2>2. QED
    BY <1>9, <2>1 DEF Authority
<1>14. RequestsOK
  BY DEF Init, RequestsOK, Unique
<1>15. QED
  BY <1>5, <1>12, <1>13, <1>14 DEF Access

LEMMA NextAccess ==
    ASSUME Access, [Next]_vars
    PROVE  Access'
<1>1. TypeOK'
  BY NextTypes DEF Access, RequestsOK
<1>2. Authority' /\ \A u \in Users : lastManaged[u] <= lastManaged'[u]
  BY <1>1, NextAuthority DEF Access
<1>3. RequestsOK'
  BY <1>1, <1>2, NextRequests DEF Access
<1>4. RoleMeansPermissions'
  BY NextRole DEF Access
<1>5. QED
  BY <1>1, <1>2, <1>3, <1>4 DEF Access

\* Access holds in every state.
THEOREM AccessInvariant == Spec => []Access
<1>1. Init => Access
  BY InitAccess
<1>2. Access /\ [Next]_vars => Access'
  BY NextAccess
<1>3. QED
  BY <1>1, <1>2, PTL DEF Spec

\* Metadata, tokens, dialogs and requests keep their types.
THEOREM TypeCorrect == Spec => []TypeOK
<1>1. Access => TypeOK
  BY DEF Access
<1>2. QED
  BY <1>1, AccessInvariant, PTL

\* However the writes of administrators overlap, a user with a system role has that
\* role's permissions, and is_superadmin says whether the role is SuperAdmin.
THEOREM RolesStayWhole == Spec => []RoleMeansPermissions
<1>1. Access => RoleMeansPermissions
  BY DEF Access
<1>2. QED
  BY <1>1, AccessInvariant, PTL

-----------------------------------------------------------------------------
(* What the steps do *)

\* A clean write does what was asked: what the handler holds is what the table holds.
LEMMA CleanWrite ==
    ASSUME Access, NEW r \in requests, WriteUser(r), r.clean
    PROVE  users'[r.body.user] = Promise(r, users[r.body.user])
<1>1. r \in Request /\ r.body.user \in Users /\ r.body.add \cap r.body.remove = {}
  BY DEF Access, TypeOK, RequestsOK, RequestOK, BodyOK, Request, Body
<1>2. PICK m : m = users[r.body.user]
  OBVIOUS
<1>3. r.seen = m /\ m \in Metadata
  BY <1>1, <1>2 DEF Access, TypeOK, People, RequestsOK, RequestOK, Fresh, WriteUser
<1>4. users'[r.body.user] = Updated(r, m)
  BY <1>1, <1>2 DEF Access, TypeOK, People, WriteUser
<1>5. [m EXCEPT !.phone = m.phone] = m
  BY <1>3 DEF Metadata
<1>6. AssignRole(r, m) = [m EXCEPT !.role = r.body.role, !.perms = r.perms, !.super = r.body.role = "SuperAdmin"]
  BY <1>3, <1>5 DEF AssignRole, WithRole
<1>7. UpdateExtra(r, m) = [m EXCEPT !.extra = (m.extra \ r.body.remove) \cup r.body.add]
  <2>1. (m.extra \cup r.body.add) \ r.body.remove = (m.extra \ r.body.remove) \cup r.body.add
    BY <1>1
  <2>2. UpdateExtra(r, m) = [m EXCEPT !.phone = m.phone, !.extra = (m.extra \cup r.body.add) \ r.body.remove]
    BY <1>3 DEF UpdateExtra
  <2>3. QED
    BY <1>3, <2>1, <2>2 DEF Metadata
<1>8. QED
  BY <1>2, <1>4, <1>6, <1>7 DEF Updated, Promise, UpdateProfile

\* Whoever is let through holds a token that is good now, and was issued to a manager.
LEMMA RecentAuthority ==
    ASSUME Access, NEW r \in requests, Admitted(r), NeedsManage(r)
    PROVE  now < lastManaged[r.token.user] + TokenTTL
<1>1. r.token \in Token /\ Bounded(r.token)
  BY SentinelsApart DEF Access, RequestsOK, RequestOK, BodyOK, NeedsManage
<1>2. Grants(r.token.meta, Manage) /\ ~(now >= r.token.exp)
  BY DEF Admitted, Refusable, Unfit, Expired
<1>3. /\ now \in Nat /\ r.token.exp \in Nat /\ TokenTTL \in Nat /\ lastManaged[r.token.user] \in Int
  BY <1>1, WebSessionConstants DEF Access, TypeOK, SessionTypeOK, Token
<1>4. QED
  BY <1>1, <1>2, <1>3 DEF Bounded

\* The request that has written is gone, or done.
LEMMA WriterGone ==
    ASSUME TypeOK, Unique, NEW r \in requests, NEW u \in Users, Writes(r, u), r.step # "done"
    PROVE  r \notin requests'
<1> DEFINE After(q) == IF Overtaken(q, u) THEN [q EXCEPT !.clean = FALSE] ELSE q
           d == [r EXCEPT !.step = "done"]
<1>1. r \in Request /\ \A q \in requests : q \in Request
  BY DEF TypeOK
<1>2. d.step = "done" /\ \A q \in requests : After(q).no = q.no
  BY <1>1 DEF Request
<1>3. requests' \subseteq {After(q) : q \in requests \ {r}} \cup {d}
  BY DEF Writes
<1> HIDE DEF After, d
<1>4. QED
  BY <1>2, <1>3 DEF Unique

\* A step that leaves every manager one removes none.
LEMMA ManagersKept ==
    ASSUME Managers # {}, Managers' = {}, \A u \in Users : Manages(users, u) => Manages(users', u)
    PROVE  FALSE
BY DEF Managers, Manages, Grants

\* Of a write to one user, only that user can be the last manager.
LEMMA OnlyManager ==
    ASSUME TypeOK, Managers # {}, Managers' = {}, NEW u \in Users, NEW m, users' = [users EXCEPT ![u] = m]
    PROVE  Managers = {u} /\ (m = NoUser \/ ~Grants(m, Manage))
<1>1. users'[u] = m /\ \A v \in Users \ {u} : users'[v] = users[v]
  BY DEF TypeOK, People
<1>2. QED
  BY <1>1 DEF Managers, Manages, Grants

LEMMA LastManager ==
    ASSUME Access, [Next]_vars, Managers # {}, Managers' = {}
    PROVE  \E r \in requests : r \notin requests' /\ r.body.user \in Managers
                               /\ r.token # NoSession /\ r.token.user \notin Managers
<1> USE DEF Access
<1>1. ASSUME UNCHANGED users PROVE FALSE
  BY <1>1, ManagersKept
<1>2. \A b \in Browsers, u \in Users : ~Register(b, u)
  BY OnlyManager DEF Register, Managers, Manages
<1>3. \A r \in requests : r \in Request /\ RequestOK(r) /\ r.body.user \in Users
  BY DEF TypeOK, RequestsOK, Request, Body
<1>4. \A r \in requests : ~CreateUser(r)
  BY <1>3, OnlyManager DEF CreateUser, Managers, Manages
<1>5. ASSUME NEW r \in requests, DeleteUser(r) \/ WriteUser(r), r.body.user # r.token.user,
             r.token \in Token
      PROVE  /\ r \notin requests' /\ r.body.user \in Managers
             /\ r.token # NoSession /\ r.token.user \notin Managers
  <2>1. PICK m : users' = [users EXCEPT ![r.body.user] = m]
    BY <1>5 DEF DeleteUser, WriteUser
  <2>2. Managers = {r.body.user}
    BY <1>3, <2>1, OnlyManager
  <2>3. Writes(r, r.body.user) /\ r.step # "done"
    BY <1>5 DEF DeleteUser, WriteUser, Admitted
  <2>4. r \notin requests'
    BY <1>3, <2>3, WriterGone DEF RequestsOK
  <2>5. QED
    BY <1>5, <2>2, <2>4, SentinelsApart
<1>6. ASSUME NEW r \in requests, DeleteUser(r) PROVE r.body.user # r.token.user /\ r.token \in Token
  BY <1>3, <1>6 DEF DeleteUser, Admitted, Refusable, RequestOK, BodyOK
<1>7. ASSUME NEW r \in requests, WriteUser(r) PROVE r.body.user # r.token.user /\ r.token \in Token
  <2>1. PICK u : u = users[r.body.user]
    OBVIOUS
  <2>2. u \in Metadata /\ r.seen \in Metadata /\ r.step = "read"
    BY <1>3, <1>7, <2>1 DEF WriteUser, TypeOK, People, RequestOK, HeldOK
  <2>3. PICK m : m = Updated(r, u)
    OBVIOUS
  <2>4. m \in Metadata /\ m # NoUser
    BY <1>3, <2>2, <2>3, UpdatedTypes, SentinelsApart
  <2>5. users' = [users EXCEPT ![r.body.user] = m]
    BY <1>3, <1>7, <2>1, <2>3 DEF WriteUser, TypeOK, People
  <2>6. Managers = {r.body.user} /\ ~Grants(m, Manage)
    BY <1>3, <2>4, <2>5, OnlyManager
  <2>7. Grants(u, Manage)
    BY <2>1, <2>6 DEF Managers, Manages
  <2>8. r.body.op # "bootstrap"
    <3> SUFFICES ASSUME r.body.op = "bootstrap" PROVE FALSE
      OBVIOUS
    <3>1. PICK q : q = [r.seen EXCEPT !.phone = u.phone]
      OBVIOUS
    <3>2. q \in Metadata /\ r.body.role = "SuperAdmin"
      BY <1>3, <2>2, <3>1 DEF Metadata, RequestOK, BodyOK
    <3>3. m = WithRole(q, "SuperAdmin", r.perms)
      BY <2>3, <3>1, <3>2 DEF Updated, AssignRole
    <3>4. m.super = TRUE
      BY <3>2, <3>3 DEF WithRole, Metadata
    <3>5. QED
      BY <2>6, <3>4 DEF Grants
  <2>9. r.body.op \in {"role", "extra"}
    <3> SUFFICES ASSUME r.body.op \notin {"role", "extra"} PROVE FALSE
      OBVIOUS
    <3>1. m = [u EXCEPT !.phone = r.body.phone]
      BY <2>3, <2>8 DEF Updated, UpdateProfile
    <3>2. m.super = u.super /\ m.perms = u.perms /\ m.extra = u.extra
      BY <2>2, <3>1 DEF Metadata
    <3>3. QED
      BY <2>6, <2>7, <3>2 DEF Grants
  <2>10. QED
    BY <1>3, <2>2, <2>9 DEF RequestOK, BodyOK, HeldOK, Running
<1>8. ASSUME NEW b \in Browsers PROVE ~Administer(b) /\ \A u \in Users : ~BootstrapAdmin(b, u)
  BY <1>1 DEF Administer, ListUsers, ListRoles, HandleDeleteUser, RoleSelect, OpenRow, OpenForm,
     OpenDialog, CloseDialog, InviteUserModal, EditPermissionsModal, EditPhoneModal,
     CreateRoleModal, RoleCardDelete, SettingsPage, Confirm, Send, OnlyPages, BootstrapAdmin
<1>9. ASSUME NEW b \in Browsers
      PROVE  /\ ~Renew(b) /\ ~ReloadPage(b) /\ ~LogOutButton(b)
             /\ \A p \in Pages : ~OpenPage(b, p)
             /\ \A u \in Users : ~Login(b, u)
  BY <1>1 DEF Renew, ReloadPage, LogOutButton, OpenPage, Login, ServerUnchanged
<1>10. ~TimePasses /\ ~(UNCHANGED vars)
  BY <1>1 DEF TimePasses, vars, adminVars
<1>11. ASSUME NEW r \in requests
       PROVE  ~Succeed(r) /\ ~Fail(r) /\ ~GiveUp(r) /\ ~Unauthorized(r)
  BY <1>1 DEF Succeed, Fail, GiveUp, Unauthorized
<1>12. ASSUME NEW r \in requests, Handle(r) PROVE DeleteUser(r) \/ WriteUser(r)
  BY <1>1, <1>4, <1>12 DEF Handle, Deny, Refuse, Begin, CreateCustomRole, DeleteCustomRole,
     ReadUser, Break, OnlyServer, ServerUnchanged
<1>13. PICK r \in requests : Handle(r)
  BY <1>2, <1>8, <1>9, <1>10, <1>11 DEF Next
<1>14. QED
  BY <1>5, <1>6, <1>7, <1>12, <1>13

\* Whose rights a write of one user's metadata can move.
LEMMA GainsAlone ==
    ASSUME TypeOK, NEW u \in Users, NEW v \in Users, NEW m, NEW p \in Permissions,
           users' = [users EXCEPT ![v] = m], Gains(u, p)
    PROVE  u = v /\ m # NoUser /\ Grants(m, p)
<1>1. users'[v] = m /\ \A w \in Users \ {v} : users'[w] = users[w]
  BY DEF TypeOK, People
<1>2. u = v
  BY <1>1 DEF Gains
<1>3. QED
  BY <1>1, <1>2 DEF Gains

\* A handler that was let through for a manager still holds the manager's token.
LEMMA HeldAuthority ==
    ASSUME Access, NEW r \in requests, Running(r), r.body.op \in {"role", "extra", "invite"}
    PROVE  /\ r.token # NoSession /\ Grants(r.token.meta, Manage)
           /\ r.token.exp <= lastManaged[r.token.user] + TokenTTL
           /\ r.body.op # "invite" => r.token.user # r.body.user
<1>1. RequestOK(r)
  BY DEF Access, RequestsOK
<1>2. Grants(r.token.meta, Manage) /\ r.token \in Token
  BY <1>1 DEF RequestOK, HeldOK, BodyOK
<1>3. Bounded(r.token)
  BY <1>1, <1>2, SentinelsApart DEF RequestOK
<1>4. QED
  BY <1>1, <1>2, <1>3, SentinelsApart DEF Bounded, RequestOK, HeldOK

\* A step that gives u a right ends a request that may give it.
LEMMA StepGrants ==
    ASSUME Access, [Next]_vars, NEW u \in Users, NEW p \in Permissions, Gains(u, p)
    PROVE  \E r \in requests : Granting(r, u)
<1> USE DEF Access
<1>1. ASSUME UNCHANGED users PROVE FALSE
  BY <1>1 DEF Gains
<1>2. \A r \in requests : r \in Request /\ RequestOK(r) /\ r.body.user \in Users
  BY DEF TypeOK, RequestsOK, Request, Body
<1>3. ASSUME NEW b \in Browsers, NEW v \in Users, Register(b, v) PROVE FALSE
  <2>1. users' = [users EXCEPT ![v] = Undefined]
    BY <1>3 DEF Register
  <2>2. PICK m : m = Undefined
    OBVIOUS
  <2>3. Grants(m, p)
    BY <2>1, <2>2, GainsAlone
  <2>4. QED
    BY <2>2, <2>3 DEF Undefined, Grants
<1>4. ASSUME NEW r \in requests, DeleteUser(r) PROVE FALSE
  <2>1. users' = [users EXCEPT ![r.body.user] = NoUser]
    BY <1>4 DEF DeleteUser
  <2>2. PICK v \in Users, m \in {NoUser} : v = r.body.user
    BY <1>2
  <2>3. users' = [users EXCEPT ![v] = m]
    BY <2>1, <2>2
  <2>4. m # NoUser
    BY <2>3, GainsAlone
  <2>5. QED
    BY <2>2, <2>4
<1>5. ASSUME NEW r \in requests, Writes(r, r.body.user), Running(r) PROVE r \notin requests'
  BY <1>2, <1>5, WriterGone DEF RequestsOK, Running
<1>6. ASSUME NEW r \in requests, CreateUser(r) PROVE Granting(r, u)
  <2>1. Running(r) /\ r.body.op = "invite" /\ Writes(r, r.body.user)
    BY <1>6 DEF CreateUser, Running
  <2>2. PICK m : users' = [users EXCEPT ![r.body.user] = m]
    BY <1>6 DEF CreateUser
  <2>3. r.body.user = u
    BY <1>2, <2>2, GainsAlone
  <2>4. QED
    BY <1>5, <2>1, <2>3, HeldAuthority DEF Granting
<1>7. ASSUME NEW r \in requests, WriteUser(r) PROVE Granting(r, u)
  <2>1. Running(r) /\ Writes(r, r.body.user)
    BY <1>7 DEF WriteUser, Running
  <2>2. PICK a : a = users[r.body.user]
    OBVIOUS
  <2>3. PICK m : m = Updated(r, a)
    OBVIOUS
  <2>4. a \in Metadata /\ users' = [users EXCEPT ![r.body.user] = m]
    BY <1>2, <1>7, <2>2, <2>3 DEF WriteUser, TypeOK, People
  <2>5. r.body.user = u /\ Grants(m, p)
    BY <1>2, <2>4, GainsAlone
  <2>6. r.body.op = "bootstrap" => r.excused
    BY DEF Access, RequestsOK, RequestOK, BodyOK
  <2>7. r.body.op \in {"role", "extra", "bootstrap"}
    <3> SUFFICES ASSUME r.body.op \notin {"role", "extra", "bootstrap"} PROVE FALSE
      OBVIOUS
    <3>1. m = [a EXCEPT !.phone = r.body.phone]
      BY <2>3 DEF Updated, UpdateProfile
    <3>2. m.super = a.super /\ m.perms = a.perms /\ m.extra = a.extra
      BY <2>4, <3>1 DEF Metadata
    <3>3. a # NoUser /\ ~Grants(a, p)
      BY <2>2, <2>4, <2>5, SentinelsApart DEF Gains
    <3>4. QED
      BY <2>5, <3>2, <3>3 DEF Grants
  <2>8. QED
    BY <1>5, <2>1, <2>5, <2>6, <2>7, HeldAuthority DEF Granting
<1>8. ASSUME NEW b \in Browsers PROVE ~Administer(b) /\ \A v \in Users : ~BootstrapAdmin(b, v)
  BY <1>1 DEF Administer, ListUsers, ListRoles, HandleDeleteUser, RoleSelect, OpenRow, OpenForm,
     OpenDialog, CloseDialog, InviteUserModal, EditPermissionsModal, EditPhoneModal,
     CreateRoleModal, RoleCardDelete, SettingsPage, Confirm, Send, OnlyPages, BootstrapAdmin
<1>9. ASSUME NEW b \in Browsers
      PROVE  /\ ~Renew(b) /\ ~ReloadPage(b) /\ ~LogOutButton(b)
             /\ \A q \in Pages : ~OpenPage(b, q)
             /\ \A v \in Users : ~Login(b, v)
  BY <1>1 DEF Renew, ReloadPage, LogOutButton, OpenPage, Login, ServerUnchanged
<1>10. ~TimePasses /\ ~(UNCHANGED vars)
  BY <1>1 DEF TimePasses, vars, adminVars
<1>11. ASSUME NEW r \in requests
       PROVE  ~Succeed(r) /\ ~Fail(r) /\ ~GiveUp(r) /\ ~Unauthorized(r)
  BY <1>1 DEF Succeed, Fail, GiveUp, Unauthorized
<1>12. ASSUME NEW r \in requests, Handle(r) PROVE CreateUser(r) \/ WriteUser(r)
  BY <1>1, <1>4, <1>12 DEF Handle, Deny, Refuse, Begin, CreateCustomRole, DeleteCustomRole,
     ReadUser, Break, OnlyServer, ServerUnchanged
<1>13. PICK r \in requests : Handle(r)
  BY <1>3, <1>8, <1>9, <1>10, <1>11 DEF Next
<1>14. QED
  BY <1>6, <1>7, <1>12, <1>13

\* A grant, a revocation, a role change or a profile update does what it says, and
\* nothing else, unless another write fell between its read and its write.
THEOREM WritesAreAtomic == Spec => AtomicUnlessOverlapped
<1>1. Access /\ [Next]_vars
        => [\A r \in requests : WriteUser(r) /\ r.clean
              => users'[r.body.user] = Promise(r, users[r.body.user])]_vars
  BY CleanWrite
<1>2. QED
  BY <1>1, AccessInvariant, PTL DEF Spec, AtomicUnlessOverlapped

\* A revocation takes effect within the life of a token, whatever sessions, renewals
\* and reloads there are.
THEOREM RevocationTakesEffect == Spec => AuthorityIsRecent
<1>1. Access /\ [Next]_vars
        => [\A r \in requests : (Begin(r) \/ CreateCustomRole(r) \/ DeleteCustomRole(r) \/ DeleteUser(r))
                                  /\ NeedsManage(r)
              => now < lastManaged[r.token.user] + TokenTTL]_vars
  BY RecentAuthority DEF Begin, CreateCustomRole, DeleteCustomRole, DeleteUser
<1>2. QED
  BY <1>1, AccessInvariant, PTL DEF Spec, AuthorityIsRecent

\* Only a request of someone who can no longer manage users takes the last manager away.
THEOREM LastManagerKeeps == Spec => LastManagerStays
<1>1. Access /\ [Next]_vars
        => [Managers # {} /\ Managers' = {}
              => \E r \in requests : r \notin requests' /\ r.body.user \in Managers
                                     /\ r.token # NoSession /\ r.token.user \notin Managers]_vars
  BY LastManager
<1>2. QED
  BY <1>1, AccessInvariant, PTL DEF Spec, LastManagerStays

\* Nobody's rights grow but by the request of another, who could manage users less than
\* the life of a token before that token ran out; by an invitation; or by a bootstrap
\* that found no SuperAdmin because there was none, or because there were more users
\* than the page it looks at.
THEOREM RightsComeFromManagers == Spec => RightsAreGranted
<1>1. Access /\ [Next]_vars
        => [\A u \in Users, p \in Permissions : Gains(u, p) => \E r \in requests : Granting(r, u)]_vars
  BY StepGrants
<1>2. QED
  BY <1>1, AccessInvariant, PTL DEF Spec, RightsAreGranted
=============================================================================
