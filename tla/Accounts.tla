-------------------------------- MODULE Accounts --------------------------------
(***************************************************************************)
(* The accounts and roles of one tenant (domain/users, domain/roles, and    *)
(* the first access by SSO in domain/auth): accounts are created, edited    *)
(* and deleted by administrators, and created or promoted by the SSO of the *)
(* ERP; roles are created and deleted.                                      *)
(*                                                                          *)
(* A request loads, and commits at its end: the columns that differ from    *)
(* what it loaded.  An account and a role are kept under their e-mail and   *)
(* code by a unique constraint, which also counts deleted accounts.         *)
(* Permissions, profiles, invitations and avatars decide nothing here.      *)
(***************************************************************************)
EXTENDS Integers, Sequences

CONSTANTS
    User,       \* those whose requests may be under way at the same time
    Email,
    MaxRole     \* bound: rows of roles, ever

VARIABLES
    accounts,  \* the rows of users, in the order of their commits
    roles,     \* the row of roles with each code (0: none)
    lastRole,  \* ids of roles given out
    request,   \* the requests
    mixed      \* history: two requests have been under way at once

vars == <<accounts, roles, lastRole, request, mixed>>

Code == {"admin", "colaborador", "gerente"}

Account == [email : Email, role : 0..MaxRole, active : BOOLEAN, deleted : BOOLEAN,
            given : 0..MaxRole]  \* history: the role that was last given, by whomever

Init ==
    /\ accounts = <<>>
    /\ roles = [c \in Code |-> IF c = "admin" THEN 1 ELSE 0] /\ lastRole = 1
    /\ request = [u \in User |-> [op |-> "none"]]
    /\ mixed = FALSE

Idle(u) == request[u].op = "none"

Begin(u, r) ==
    /\ Idle(u)
    /\ request' = [request EXCEPT ![u] = r]
    /\ mixed' = (mixed \/ \E v \in User : ~Idle(v))
    /\ UNCHANGED <<accounts, roles, lastRole>>

Finish(u) == request' = [request EXCEPT ![u] = [op |-> "none"]]

Abort(u) == ~Idle(u) /\ Finish(u) /\ UNCHANGED <<accounts, roles, lastRole, mixed>>

------------------------------------------------------------------------------
(* Constraints of the database.                                             *)

Live(e) == {i \in DOMAIN accounts : accounts[i].email = e /\ ~accounts[i].deleted}

\* (As Unused, counting the accounts that were not deleted.)
UnusedAlive(e) == Live(e) = {}

\* uq_users_company_email.
Unused(e) == \A i \in DOMAIN accounts : accounts[i].email # e

\* users.role_id is NULL, or that of a role.
Refers(role) == role = 0 \/ \E c \in Code : roles[c] = role

Inserted(e, role) ==
    /\ Unused(e)
    /\ accounts' = Append(accounts, [email |-> e, role |-> role, active |-> TRUE, deleted |-> FALSE, given |-> role])

------------------------------------------------------------------------------
(* Accounts by hand.                                                        *)

\* create_user looks for an account that was not deleted.
CreateBegin(u) ==
    \E e \in Email, c \in Code :
        /\ Live(e) = {}
        /\ roles[c] # 0
        /\ Begin(u, [op |-> "create", email |-> e, role |-> roles[c]])

CreateCommit(u) ==
    /\ request[u].op = "create"
    /\ Refers(request[u].role)
    /\ Inserted(request[u].email, request[u].role)
    /\ Finish(u)
    /\ UNCHANGED <<roles, lastRole, mixed>>

\* update_user, of the role or of whether the account is active.
UpdateBegin(u) ==
    \E i \in DOMAIN accounts, c \in Code, active \in BOOLEAN :
        LET new == [accounts[i] EXCEPT !.role = roles[c], !.active = active]
        IN  /\ ~accounts[i].deleted
            /\ roles[c] # 0
            /\ new # accounts[i]
            /\ Begin(u, [op |-> "update", id |-> i, loaded |-> accounts[i], new |-> new])

\* delete_user.
DeleteBegin(u) ==
    \E i \in DOMAIN accounts :
        /\ ~accounts[i].deleted
        /\ Begin(u, [op |-> "update", id |-> i, loaded |-> accounts[i],
                     new |-> [accounts[i] EXCEPT !.deleted = TRUE, !.active = FALSE]])

\* Row i with the columns that the request changed.
Written(u) ==
    LET row == accounts[request[u].id]
        loaded == request[u].loaded
        new == request[u].new
        Column(now, was, is) == IF is # was THEN is ELSE now
    IN  [row EXCEPT !.role = Column(row.role, loaded.role, new.role),
                    !.given = Column(row.given, loaded.role, new.role),
                    !.active = Column(row.active, loaded.active, new.active),
                    !.deleted = Column(row.deleted, loaded.deleted, new.deleted)]

UpdateCommit(u) ==
    /\ request[u].op = "update"
    /\ request[u].new.role # request[u].loaded.role => Refers(request[u].new.role)
    /\ accounts' = [accounts EXCEPT ![request[u].id] = Written(u)]
    /\ Finish(u)
    /\ UNCHANGED <<roles, lastRole, mixed>>

------------------------------------------------------------------------------
(* SSO.                                                                     *)

\* _ensure_default_sso_role, _ensure_admin_sso_role: the role, or its INSERT
\* when there was none.
Ensured(u) ==
    LET c == request[u].code
    IN  IF request[u].role # 0
        THEN Refers(request[u].role) /\ UNCHANGED <<roles, lastRole>>
        ELSE /\ roles[c] = 0 /\ lastRole < MaxRole
             /\ lastRole' = lastRole + 1
             /\ roles' = [roles EXCEPT ![c] = lastRole']

EnsuredRole(u) == IF request[u].role # 0 THEN request[u].role ELSE lastRole + 1

\* resolve_or_provision_sso_user finds no account, and will create one.
ArriveBegin(u) ==
    \E e \in Email, c \in {"admin", "colaborador"} :
        /\ Live(e) = {}
        /\ Begin(u, [op |-> "arrive", email |-> e, code |-> c, role |-> roles[c]])

ArriveCommit(u) ==
    /\ request[u].op = "arrive"
    /\ Ensured(u)
    /\ Inserted(request[u].email, EnsuredRole(u))
    /\ Finish(u)
    /\ UNCHANGED mixed

\* It finds an active account whose role, if any, is not that of an
\* administrator, which the person is in the ERP.  An inactive account is
\* refused; everything else is answered as it is.
PromoteBegin(u) ==
    \E i \in DOMAIN accounts :
        /\ ~accounts[i].deleted /\ accounts[i].active
        /\ accounts[i].role \notin {0, roles["admin"]}
        /\ Begin(u, [op |-> "promote", id |-> i, code |-> "admin", role |-> roles["admin"]])

\* UPDATE users SET role_id, whatever the row has become.
PromoteCommit(u) ==
    /\ request[u].op = "promote"
    /\ Ensured(u)
    /\ accounts' = [accounts EXCEPT ![request[u].id].role = EnsuredRole(u), ![request[u].id].given = EnsuredRole(u)]
    /\ Finish(u)
    /\ UNCHANGED mixed

------------------------------------------------------------------------------
(* Roles.                                                                   *)

\* create_role.
CreateRole(u) ==
    /\ Idle(u)
    /\ lastRole < MaxRole
    /\ \E c \in Code : roles[c] = 0 /\ roles' = [roles EXCEPT ![c] = lastRole + 1]
    /\ lastRole' = lastRole + 1
    /\ mixed' = (mixed \/ \E v \in User : ~Idle(v))
    /\ UNCHANGED <<accounts, request>>

\* (As Holders, of those who may log in.)
ActiveHolders(role) == {i \in DOMAIN accounts : accounts[i].role = role /\ accounts[i].active}

Holders(role) == {i \in DOMAIN accounts : accounts[i].role = role /\ ~accounts[i].deleted}

\* delete_role refuses a role that somebody has.
DeleteRoleBegin(u) ==
    \E c \in Code :
        /\ roles[c] # 0 /\ Holders(roles[c]) = {}
        /\ Begin(u, [op |-> "deleteRole", code |-> c, role |-> roles[c]])

\* The foreign key sets the role of those who have it by now to NULL.
DeleteRoleCommit(u) ==
    /\ request[u].op = "deleteRole"
    /\ roles[request[u].code] = request[u].role
    /\ roles' = [roles EXCEPT ![request[u].code] = 0]
    /\ accounts' = [i \in DOMAIN accounts |->
                        [accounts[i] EXCEPT !.role = IF @ = request[u].role THEN 0 ELSE @]]
    /\ Finish(u)
    /\ UNCHANGED <<lastRole, mixed>>

Next ==
    \E u \in User :
        \/ CreateBegin(u) \/ CreateCommit(u) \/ UpdateBegin(u) \/ DeleteBegin(u) \/ UpdateCommit(u)
        \/ ArriveBegin(u) \/ ArriveCommit(u) \/ PromoteBegin(u) \/ PromoteCommit(u)
        \/ CreateRole(u) \/ DeleteRoleBegin(u) \/ DeleteRoleCommit(u) \/ Abort(u)

Spec == Init /\ [][Next]_vars

------------------------------------------------------------------------------
(* Properties.                                                              *)

\* Every variable keeps its type.
TypeOK ==
    /\ accounts \in Seq(Account)
    /\ roles \in [Code -> 0..MaxRole] /\ lastRole \in 0..MaxRole
    /\ DOMAIN request = User /\ mixed \in BOOLEAN

\* However creations and first accesses interleave, an e-mail has one account
\* for good: who was deleted does not come back by SSO.
NobodyReturns ==
    \A i, j \in DOMAIN accounts : accounts[i].email = accounts[j].email => i = j

\* Under any interleaving, an account has the role that it was last given, or
\* none, and then because that role was deleted; as long as no two requests
\* overlapped, a role is not deleted under the account of anybody.
RolesStay ==
    \A i \in DOMAIN accounts :
        LET a == accounts[i]
        IN  /\ a.role = a.given \/ (a.role = 0 /\ ~Refers(a.given))
            /\ (~mixed /\ ~a.deleted) => a.role = a.given

AccountsAreSound == NobodyReturns /\ RolesStay
=============================================================================
