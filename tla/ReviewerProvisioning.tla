------------------------- MODULE ReviewerProvisioning -------------------------
(***************************************************************************)
(* app.admin.provision_reviewer: a reviewer is created in the Cognito user *)
(* pool and then, inside one transaction, in the users table; and what     *)
(* require_tenant makes of the two for a request.  The pool gives an email *)
(* one stable subject, so an email stands for its subject.                 *)
(***************************************************************************)
EXTENDS Naturals

CONSTANTS
    Emails,         \* reviewers
    Organizations,
    Runs,           \* runs of the command
    Nobody          \* no organization

ASSUME NobodyAssumption == Nobody \notin Organizations

VARIABLES
    pool,   \* custom:organization_id of the pool's user, by email
    users,  \* the users rows
    run     \* what each run of the command holds

provisioning == <<pool, users, run>>

User(o, e) == [organization |-> o, email |-> e]
UserRow == [organization : Organizations, email : Emails]

RunLocals == [pc : {"start", "pooled", "done", "failed"},
              user : UserRow \cup {Nobody}]

ProvisioningTypeOK ==
    /\ pool \in [Emails -> Organizations \cup {Nobody}]
    /\ users \subseteq UserRow
    /\ run \in [Runs -> RunLocals]

ProvisioningInit ==
    /\ pool = [e \in Emails |-> Nobody]
    /\ users = {}
    /\ run = [p \in Runs |-> [pc |-> "start", user |-> Nobody]]

\* Slip: an existing pool user is taken as it is.
EnsurePoolUserUnchecked(p, o, e) ==
    /\ run[p].pc = "start"
    /\ pool' = [pool EXCEPT ![e] = IF @ = Nobody THEN o ELSE @]
    /\ run' = [run EXCEPT ![p] = [pc |-> "pooled", user |-> User(o, e)]]
    /\ UNCHANGED users

\* ensure_cognito_reviewer: create the user, or look at the one that is there.
\* A call that fails may have created it.
EnsurePoolUser(p, o, e) ==
    /\ run[p].pc = "start"
    /\ \/ /\ pool[e] \in {Nobody, o}
          /\ pool' = [pool EXCEPT ![e] = o]
          /\ run' = [run EXCEPT ![p] = [pc |-> "pooled", user |-> User(o, e)]]
       \/ /\ pool' \in {pool, [pool EXCEPT ![e] = IF @ = Nobody THEN o ELSE @]}
          /\ run' = [run EXCEPT ![p].pc = "failed"]
    /\ UNCHANGED users

\* ensure_database_reviewer and the commit.  The row is found or inserted;
\* the organization's name, the unique key or the database may refuse it.
EnsureUserRow(p) ==
    /\ run[p].pc = "pooled"
    /\ \/ /\ users' = users \cup {run[p].user}
          /\ run' = [run EXCEPT ![p].pc = "done"]
       \/ /\ users' \in {users, users \cup {run[p].user}}
          /\ run' = [run EXCEPT ![p].pc = "failed"]
    /\ UNCHANGED pool

ProvisioningNext == \E p \in Runs :
    \/ \E o \in Organizations, e \in Emails : EnsurePoolUser(p, o, e)
    \/ EnsureUserRow(p)

\* require_tenant: the token names the pool's organization and subject, and an
\* active users row must know both.
SignedIn(e) == pool[e] # Nobody /\ User(pool[e], e) \in users

\* Runs of the command for one person, one after the other or at once, for the
\* same or for different organizations, completed or not, leave the person in
\* the organization the token names and in no other.
ReviewerHasOneTenant ==
    \A u \in users : u.organization = pool[u.email]

==============================================================================
