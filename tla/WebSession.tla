----------------------------- MODULE WebSession -----------------------------
(***************************************************************************)
(* Who is signed in to the web client, one tab per browser: the session    *)
(* that supabase-js keeps, its mirror in useAuthStore, and the page that   *)
(* the router and the layout show.  A token carries the metadata its user  *)
(* had when it was issued, and lives for TokenTTL.  Actions that obtain a  *)
(* token take it as a parameter: the server is AccessControl.              *)
(***************************************************************************)
EXTENDS Integers

CONSTANTS Browsers, Users,
          Permissions, Manage,  \* Manage is "users:manage"
          AnyPermission,        \* "*", which stands for every permission
          Roles,                \* system and custom roles, and NoRole
          Phones,
          NoSession, NoUser,
          TokenTTL,
          MaxTime               \* bound on the clock

Pages == {"login", "home", "settings", "users", "permissions"}

ASSUME WebSessionConstants ==
    /\ Manage \in Permissions
    /\ TokenTTL \in Nat \ {0} /\ MaxTime \in Nat

VARIABLES now,
          session,      \* supabase.auth, in local storage
          signedIn,     \* useAuthStore: isAuthenticated
          page,         \* what is on screen
          visits        \* sign-ins, refreshes, sign-outs, reloads, timeouts to come

sessionVars == <<now, session, signedIn, page, visits>>

\* app_metadata, and the phone of user_metadata.
Metadata == [role : Roles, perms : SUBSET Permissions, extra : SUBSET Permissions,
             super : BOOLEAN, phone : Phones]
Token == [user : Users, meta : Metadata, exp : Nat]
ASSUME SentinelsApart == NoSession \notin Token /\ NoUser \notin Metadata
TokenFor(u, meta) == [user |-> u, meta |-> meta, exp |-> now + TokenTTL]

\* The API's has_permission: the role's permissions and the user's own.
Grants(meta, p) == meta.super \/ {p, AnyPermission} \cap (meta.perms \cup meta.extra) # {}

\* The store's hasPermission: it does not read extra_permissions.
HasPermission(meta, p) == meta.super \/ {p, AnyPermission} \cap meta.perms # {}

\* RouteGuard: without the permission a page becomes the dashboard.
Guarded(meta, p) ==
    IF p \in {"users", "permissions"} /\ ~HasPermission(meta, Manage) THEN "home" ELSE p

\* The first page load: initAuth restores the session in storage, of people[b] if there
\* is one, and the guard decides on the page asked for.  metas are the users' metadata.
SessionInit(people, pages, metas) ==
    /\ now = 0
    /\ session = [b \in Browsers |-> IF people[b] = NoUser THEN NoSession
                    ELSE [user |-> people[b], meta |-> metas[people[b]], exp |-> TokenTTL]]
    /\ signedIn = [b \in Browsers |-> people[b] # NoUser]
    /\ page = [b \in Browsers |-> IF people[b] = NoUser THEN "login"
                                  ELSE Guarded(metas[people[b]], pages[b])]

\* One of the bounded events.
Visit == visits > 0 /\ visits' = visits - 1

Tick ==
    /\ now < MaxTime /\ now' = now + 1
    /\ UNCHANGED <<session, signedIn, page, visits>>

\* setSession mirrors the session, the login page leaves for the dashboard, and the
\* layout for the login page.
Mirror(b, t) ==
    /\ session' = [session EXCEPT ![b] = t]
    /\ signedIn' = [signedIn EXCEPT ![b] = t # NoSession]
    /\ page' = [page EXCEPT ![b] =
                  IF t = NoSession THEN "login" ELSE IF @ = "login" THEN "home" ELSE @]
    /\ UNCHANGED now

\* handleLogin, and handleRegister when no confirmation is asked for.
SignIn(b, t) == page[b] = "login" /\ Visit /\ Mirror(b, t)

\* supabase-js renews the token, or drops a session that is no longer good.  The
\* guard of the page on screen is not asked again.
Refresh(b, t) == session[b] # NoSession /\ Visit /\ Mirror(b, t)

\* logout: the store forgets the user in any case, supabase-js keeps the session
\* when its request fails.
LogOut(b) ==
    /\ \E kept \in {session[b], NoSession} : session' = [session EXCEPT ![b] = kept]
    /\ signedIn' = [signedIn EXCEPT ![b] = FALSE]
    /\ page' = [page EXCEPT ![b] = "login"]
    /\ UNCHANGED now

\* initAuth on a page load: the session in storage, renewed if it has expired; the
\* guards wait for it.
Reload(b, t) ==
    LET restored == IF session[b] # NoSession /\ now < session[b].exp THEN session[b] ELSE t
    IN  /\ Visit
        /\ session' = [session EXCEPT ![b] = restored]
        /\ signedIn' = [signedIn EXCEPT ![b] = restored # NoSession]
        /\ page' = [page EXCEPT ![b] =
                      CASE restored = NoSession -> "login"
                        [] page[b] = "login"    -> "home"
                        [] OTHER                -> Guarded(restored.meta, page[b])]
        /\ UNCHANGED now

\* A link of the sidebar; it lists the pages the guard would let through.
Open(b, p) ==
    /\ signedIn[b] /\ p \in Pages \ {"login", page[b]}
    /\ page' = [page EXCEPT ![b] = Guarded(session[b].meta, p)]
    /\ UNCHANGED <<now, session, signedIn, visits>>

SessionTypeOK ==
    /\ now \in Nat /\ visits \in Nat
    /\ session \in [Browsers -> Token \cup {NoSession}]
    /\ signedIn \in [Browsers -> BOOLEAN]
    /\ page \in [Browsers -> Pages]
=============================================================================
