---------------------------- MODULE AuthManager -----------------------------
(***************************************************************************)
(* core/security/auth.go: users have roles, roles have permissions.        *)
(* CheckPermission looks whether checks are enabled before it takes the    *)
(* lock, and at users and roles under it.                                  *)
(***************************************************************************)
EXTENDS Naturals

CONSTANTS
    Checkers, Users, Roles, Permissions,    \* "admin" may be among the roles
    DefaultPermissions,                     \* of the default roles
    DefaultPolicy                           \* "allow" or "deny"

VARIABLES
    users,      \* am.users: the roles of a user, or NoUser
    roles,      \* am.roles: the permissions of a role, or NoRole
    enabled,
    check       \* of a checker: what is asked, and the history of the answers that
                \* were true since it began, and whether checks were disabled

vars == <<users, roles, enabled, check>>

NoUser == {"no user"}
NoRole == {"no role"}
Idle == [at |-> "idle"]
Asked == [user : Users, permission : Permissions]

TypeOK ==
    /\ users \in [Users -> (SUBSET Roles) \cup {NoUser}]
    /\ roles \in [Roles -> (SUBSET Permissions) \cup {NoRole}]
    /\ enabled \in BOOLEAN
    /\ \A p \in Checkers :
        \/ check[p] = Idle
        \/ /\ check[p].at \in {"locking", "answered"} /\ check[p].asked \in Asked
           /\ check[p].true \subseteq BOOLEAN /\ check[p].answer \in BOOLEAN
           /\ check[p].switched \in BOOLEAN

Init ==
    /\ users = [u \in Users |-> NoUser]
    /\ roles = DefaultPermissions
    /\ enabled = TRUE
    /\ check = [p \in Checkers |-> Idle]
-----------------------------------------------------------------------------
\* Mutant: a role that was removed stops the search.
GrantedUntilRemoved(us, rs, asked) ==
    IF us[asked.user] = NoUser THEN DefaultPolicy = "allow"
    ELSE (\E r \in us[asked.user] :
             /\ rs[r] # NoRole /\ (r = "admin" \/ asked.permission \in rs[r])
             /\ \A q \in us[asked.user] : rs[q] # NoRole)
         \/ DefaultPolicy = "allow"

\* Roles that were removed are passed over; an administrator may do everything.
Granted(us, rs, asked) ==
    IF us[asked.user] = NoUser THEN DefaultPolicy = "allow"
    ELSE \/ \E r \in us[asked.user] :
                rs[r] # NoRole /\ (r = "admin" \/ asked.permission \in rs[r])
         \/ DefaultPolicy = "allow"

\* What ought to be answered: a user has a permission by any role that there is.
Rightful(us, rs, on, asked) ==
    LET held == IF us[asked.user] = NoUser THEN {}
                ELSE {r \in us[asked.user] : rs[r] # NoRole}
        permitted == UNION {IF r = "admin" THEN Permissions ELSE rs[r] : r \in held}
    IN ~on \/ DefaultPolicy = "allow" \/ asked.permission \in permitted

\* The checks under way see what is true now.
Witnessed(us, rs, on) ==
    check' = [p \in Checkers |->
        IF check[p].at # "locking" THEN check[p]
        ELSE [check[p] EXCEPT !.true = @ \cup {Rightful(us, rs, on, check[p].asked)},
                              !.switched = @ \/ ~on]]

SetUser(u, rs) ==       \* AddUser, RemoveUser
    /\ users' = [users EXCEPT ![u] = rs]
    /\ UNCHANGED <<roles, enabled>>
    /\ Witnessed(users', roles, enabled)

SetRole(r, ps) ==       \* AddRole, RemoveRole: the users keep its name
    /\ roles' = [roles EXCEPT ![r] = ps]
    /\ UNCHANGED <<users, enabled>>
    /\ Witnessed(users, roles', enabled)

Switch ==               \* Enable, Disable
    /\ enabled' = ~enabled
    /\ UNCHANGED <<users, roles>>
    /\ Witnessed(users, roles, enabled')

\* Without the lock: if checks are disabled this is already the answer.
BeginCheck(p, asked) ==
    /\ check[p] = Idle
    /\ check' = [check EXCEPT ![p] =
            [at |-> IF enabled THEN "locking" ELSE "answered", asked |-> asked,
             answer |-> ~enabled, switched |-> ~enabled,
             true |-> {Rightful(users, roles, enabled, asked)}]]
    /\ UNCHANGED <<users, roles, enabled>>

CheckPermission(p) ==
    /\ check[p].at = "locking"
    /\ check' = [check EXCEPT ![p].at = "answered",
                              ![p].answer = Granted(users, roles, check[p].asked)]
    /\ UNCHANGED <<users, roles, enabled>>

Answered(p) ==
    /\ check[p].at = "answered" /\ check' = [check EXCEPT ![p] = Idle]
    /\ UNCHANGED <<users, roles, enabled>>

Next ==
    \/ \E u \in Users, rs \in (SUBSET Roles) \cup {NoUser} : SetUser(u, rs)
    \/ \E r \in Roles, ps \in (SUBSET Permissions) \cup {NoRole} : SetRole(r, ps)
    \/ Switch
    \/ \E p \in Checkers :
        \/ \E asked \in Asked : BeginCheck(p, asked)
        \/ CheckPermission(p) \/ Answered(p)

Spec == Init /\ [][Next]_vars
-----------------------------------------------------------------------------
(* An answer was right at some moment of the call, unless checks were      *)
(* disabled during it: CheckPermission goes on as if they were not.        *)
AnswersWereRight ==
    \A p \in Checkers :
        check[p].at = "answered" => check[p].answer \in check[p].true \/ check[p].switched
=============================================================================
