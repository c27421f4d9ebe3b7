--------------------------- MODULE MCAccessControl ---------------------------
(***************************************************************************)
(* Small instances of AccessControl.                                       *)
(***************************************************************************)
EXTENDS AccessControl, TLC

CONSTANTS b1, b2, ann, bob, cyd, dan

MCSystemRoles == ("SuperAdmin" :> {"users:manage"}) @@ ("Viewer" :> {})

Admins(r) == (ann :> r) @@ (bob :> r) @@ (cyd :> "Viewer") @@ (dan :> NoUser)
Both(x, y) == (b1 :> x) @@ (b2 :> y)
Everyone(r, u1, u2, p1, p2, use1, use2, n) ==
    [roles |-> Admins(r), user |-> Both(u1, u2), page |-> Both(p1, p2), uses |-> Both(use1, use2),
     pages |-> Both({}, {}), visits |-> n]

MCPlans == {
    \* Two administrators work on each other, or on the same user.
    Everyone("SuperAdmin", ann, bob, "users", "users", {<<"role", bob>>}, {<<"role", ann>>}, 0),
    Everyone("SuperAdmin", ann, bob, "users", "users", {<<"extra", cyd>>}, {<<"role", cyd>>, <<"profile", cyd>>}, 0),
    Everyone("SuperAdmin", ann, bob, "users", "users", {<<"delete", cyd>>}, {<<"extra", cyd>>, <<"invite", dan>>}, 0),
    \* One changes the own profile while the other takes the role away.
    Everyone("SuperAdmin", ann, bob, "users", "settings", {<<"role", bob>>}, {<<"me", bob>>}, 0),
    \* Custom roles.
    Everyone("SuperAdmin", ann, bob, "permissions", "permissions",
             {<<"newrole", ann>>, <<"droprole", ann>>}, {<<"newrole", bob>>, <<"droprole", bob>>}, 0),
    \* Sessions come and go while a role changes.
    Everyone("SuperAdmin", ann, bob, "users", "users", {<<"role", bob>>}, {<<"role", ann>>}, 1),
    Everyone("SuperAdmin", ann, bob, "users", "users", {<<"delete", bob>>}, {<<"extra", cyd>>}, 1),
    [Everyone("SuperAdmin", ann, NoUser, "home", "home", {<<"me", ann>>}, {}, 2)
       EXCEPT !.pages[b1] = {"users", "settings"}],
    \* Nobody is an administrator yet; dan may sign up, one user more than a page lists.
    [Everyone("Viewer", ann, NoUser, "users", "home",
              {<<"bootstrap", ann>>, <<"bootstrap", bob>>, <<"role", bob>>, <<"role", ann>>}, {}, 2)
       EXCEPT !.pages[b1] = {"users"}] }
=============================================================================
