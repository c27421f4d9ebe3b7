\* Two browsers and one of nine plans (who may do what to whom), two requests, a
\* clock that passes the end of the first tokens.  Three users fit on the page that
\* the bootstrap lists, the fourth does not.  Plans and visits run out.
CONSTANTS
    b1 = b1
    b2 = b2
    ann = ann
    bob = bob
    cyd = cyd
    dan = dan
    Browsers = {b1, b2}
    Users = {ann, bob, cyd, dan}
    Permissions = {"users:manage", "audit:read"}
    Manage = "users:manage"
    AnyPermission = "*"
    Roles = {"SuperAdmin", "Viewer", "Helper", "none"}
    Phones = {"", "p"}
    NoPhone = ""
    NoRole = "none"
    NoSession = NoSession
    NoUser = NoUser
    NoList = NoList
    NoDialog = NoDialog
    TokenTTL = 1
    MaxTime = 1
    Plans <- MCPlans
    MaxRequests = 2
    PageSize = 3
    SystemRoles <- MCSystemRoles
    Extras = {"audit:read"}
    Offered = {"Viewer"}
SPECIFICATION Spec
CHECK_DEADLOCK FALSE
INVARIANT TypeOK
INVARIANT RoleMeansPermissions
PROPERTY AtomicUnlessOverlapped
PROPERTY AuthorityIsRecent
PROPERTY LastManagerStays
PROPERTY RightsAreGranted
