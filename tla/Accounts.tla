------------------------------ MODULE Accounts ------------------------------
(***************************************************************************)
(* User accounts: roles, locking, forced change of password, deletion.  The   *)
(* request of an administrator reads who asks and the account it is about,    *)
(* and commits later: two requests may read before either commits.            *)
(***************************************************************************)
CONSTANTS
    Users,
    Founder,       \* the super administrator that seed_admin creates
    AdminRequests  \* requests of administrators under way at once

ASSUME FounderAssumption == Founder \in Users

UserRoles == {"super_admin", "org_admin"}  \* a viewer is to accounts what an org_admin is

\* A column that a request does not make differ from its copy is not written.
Keep == "keep"

VARIABLES
    role,          \* User.role, "none" without an account
    unlocked,      \* User.is_active
    mustChange,    \* User.must_change_password
    hasTokens,     \* users with rows in refresh_tokens
    pending        \* what each administrator's request has read and will write

accountVars == <<role, unlocked, mustChange, hasTokens, pending>>

NotAsked == [op |-> "idle", by |-> "none", target |-> "none", role |-> Keep,
             active |-> Keep, must |-> Keep]

AccountsInit ==
    /\ role = [u \in Users |-> IF u = Founder THEN "super_admin" ELSE "none"]
    /\ unlocked = {Founder}
    /\ mustChange = {}
    /\ hasTokens = {}
    /\ pending = [q \in AdminRequests |-> NotAsked]

Accounts == {u \in Users : role[u] # "none"}
SuperAdmins == {u \in Accounts : role[u] = "super_admin"}

\* Those who can sign in and administer.
Standing == SuperAdmins \cap unlocked

-----------------------------------------------------------------------------
(* A request reads who asks, then the account that it is about; it commits   *)
(* after it has waited for the audit log.                                    *)

\* get_current_user lets them in, and require_super_admin.
require_super_admin(q, a) ==
    /\ pending[q] = NotAsked
    /\ a \in Standing \ mustChange
    /\ pending' = [pending EXCEPT ![q] = [NotAsked EXCEPT !.op = "authorised", !.by = a]]
    /\ UNCHANGED <<role, unlocked, mustChange, hasTokens>>

Prepare(q, op, u, r, on, must) ==
    /\ pending[q].op = "authorised"
    /\ pending' = [pending EXCEPT ![q] = [op |-> op, by |-> pending[q].by, target |-> u,
                                          role |-> r, active |-> on, must |-> must]]
    /\ UNCHANGED <<role, unlocked, mustChange, hasTokens>>

create_user(q, u) ==
    /\ u \notin Accounts
    /\ \E r \in UserRoles : Prepare(q, "create", u, r, "yes", "yes")

Differing(new, copy) == IF new = copy THEN Keep ELSE new
YesNo(yes) == IF yes THEN "yes" ELSE "no"

\* The session has read the row of the one who asks already.
RoleRead(q, u) == IF u = pending[q].by THEN "super_admin" ELSE role[u]
ActiveRead(q, u) == YesNo(u = pending[q].by \/ u \in unlocked)

\* Mutant: nothing stops the administrator from giving up the role.
update_user_unguarded(q, u) ==
    /\ u \in Accounts
    /\ \E r \in UserRoles, on \in {"yes", "no"} :
          Prepare(q, "update", u, Differing(r, RoleRead(q, u)), Differing(on, ActiveRead(q, u)), Keep)

update_user(q, u) ==
    /\ u \in Accounts
    /\ \E r \in UserRoles, on \in {"yes", "no"} :
         /\ u = pending[q].by => r = "super_admin" /\ on = "yes"
         /\ Prepare(q, "update", u, Differing(r, RoleRead(q, u)), Differing(on, ActiveRead(q, u)), Keep)

reset_password(q, u) ==
    /\ u \in Accounts
    /\ Prepare(q, "update", u, Keep, Keep, Differing("yes", YesNo(u \in mustChange)))

\* The other super administrators are counted before the commit.
delete_user(q, u) ==
    /\ u \in Accounts \ {pending[q].by}
    /\ u \in SuperAdmins => Standing \ {u} # {}
    /\ Prepare(q, "delete", u, Keep, Keep, Keep)

Altered(set, u, new) ==
    CASE new = "yes" -> set \union {u}
      [] new = "no"  -> set \ {u}
      [] new = Keep  -> set

Write(u, r, on, must) ==
    /\ role' = [role EXCEPT ![u] = IF r = Keep THEN @ ELSE r]
    /\ unlocked' = Altered(unlocked, u, on)
    /\ mustChange' = Altered(mustChange, u, must)

\* An address that is taken by now breaks the unique index.
commit_changes(q) ==
    LET u == pending[q].target IN
    /\ \/ pending[q].op = "create" /\ u \notin Accounts
       \/ pending[q].op = "update"
    /\ Write(u, pending[q].role, pending[q].active, pending[q].must)
    /\ pending' = [pending EXCEPT ![q] = NotAsked]
    /\ UNCHANGED hasTokens

\* A request about the account fails now, even if the address comes again.
Without(u, q) ==
    [p \in AdminRequests |->
        IF p = q \/ (pending[p].op \in {"update", "delete"} /\ pending[p].target = u)
          THEN NotAsked ELSE pending[p]]

\* Mutant: an account goes and the rows that refer to it stay.
commit_deletion_with_tokens(q) ==
    LET u == pending[q].target IN
    /\ pending[q].op = "delete"
    /\ Write(u, "none", "no", "no")
    /\ pending' = Without(u, q)
    /\ UNCHANGED hasTokens

\* The rows of refresh_tokens are never deleted and their foreign key does not
\* cascade: the account of a user who has signed in cannot be deleted.
commit_deletion(q) ==
    LET u == pending[q].target IN
    /\ pending[q].op = "delete"
    /\ u \notin hasTokens
    /\ Write(u, "none", "no", "no")
    /\ pending' = Without(u, q)
    /\ UNCHANGED hasTokens

\* A guard, a constraint or a crash ends the request.
request_fails(q) ==
    /\ pending[q] # NotAsked
    /\ pending' = [pending EXCEPT ![q] = NotAsked]
    /\ UNCHANGED <<role, unlocked, mustChange, hasTokens>>

-----------------------------------------------------------------------------
(* What users do themselves.                                                 *)

sign_in(u) ==
    /\ u \in Accounts \cap unlocked
    /\ hasTokens' = hasTokens \union {u}
    /\ UNCHANGED <<role, unlocked, mustChange, pending>>

change_password(u) ==
    /\ u \in Accounts \cap unlocked
    /\ mustChange' = mustChange \ {u}
    /\ UNCHANGED <<role, unlocked, hasTokens, pending>>

AccountsNext ==
    \/ \E q \in AdminRequests :
         \/ \E u \in Users :
              \/ require_super_admin(q, u)
              \/ create_user(q, u) \/ update_user(q, u) \/ reset_password(q, u) \/ delete_user(q, u)
         \/ commit_changes(q) \/ commit_deletion(q) \/ request_fails(q)
    \/ \E u \in Users : sign_in(u) \/ change_password(u)

AccountsSpec == AccountsInit /\ [][AccountsNext]_accountVars

-----------------------------------------------------------------------------
(* Properties.                                                               *)

\* Every variable keeps its type; a lock, a forced change, tokens and what a
\* request is to change belong to an account.
AccountsTypeOK ==
    /\ role \in [Users -> UserRoles \union {"none"}]
    /\ unlocked \subseteq Accounts
    /\ mustChange \subseteq Accounts
    /\ hasTokens \subseteq Accounts
    /\ \A q \in AdminRequests :
         /\ pending[q].op \in {"idle", "authorised", "create", "update", "delete"}
         /\ pending[q].op # "idle" => pending[q].by \in Users
         /\ pending[q].op = "create" => pending[q].target \in Users
         /\ pending[q].op \in {"update", "delete"} => pending[q].target \in Accounts

\* "Không cho phép tự hạ quyền/khoá tài khoản cuối cùng có quyền super_admin"
\* (routes/users.py:11): some super administrator can always sign in.  Requests one
\* after the other keep it so; two that overlap need not.
SuperRemains == Standing # {}

\* The last super administrator who can sign in is lost only to a request whose
\* own administrator has been demoted, locked or deleted since it began: to two
\* requests that overlap (routes/users.py:162-200, 254-299).
SuperLostOnlyToOverlap ==
    [][Standing # {} /\ Standing' = {} =>
         \E q \in AdminRequests :
            /\ pending[q].op \in {"update", "delete"} /\ pending'[q] = NotAsked
            /\ pending[q].by \notin Standing
            /\ Standing = {pending[q].target}]_accountVars
=============================================================================
