-------------------------------- MODULE Accounts --------------------------------
(***************************************************************************)
(* How a workspace gets its owner: POST /api/auth/signup.  A local         *)
(* installation has one workspace, made by the CLI, and takes one account; *)
(* a hosted one makes a workspace for every account.  Signups race, fail   *)
(* and die anywhere; only the last insertion of a local signup is done     *)
(* under a lock.                                                           *)
(***************************************************************************)
EXTENDS Integers, FiniteSets

CONSTANTS
  SignUp,    \* requests
  Email,
  Shared     \* the local workspace

ASSUME AccountAssumption == Email # {}

VARIABLES
  local,     \* is this a local installation
  workspace, \* tenants: the shared one, or those named after the request that made them
  user,      \* users: an email and a workspace
  session,   \* auth_sessions: the users that were signed in by signing up
  signup     \* where each request is

accountVars == <<local, workspace, user, session, signup>>

SignupPhase == {"idle", "email", "tenant", "insert", "session"}
NotSigningUp == [phase |-> "idle", email |-> CHOOSE e \in Email : TRUE]

AccountTypeOK ==
  /\ local \in BOOLEAN
  /\ workspace \subseteq SignUp \cup {Shared}
  /\ user \subseteq [email : Email, tenant : workspace]
  /\ session \subseteq user
  /\ signup \in [SignUp -> [phase : SignupPhase, email : Email]]

AccountInit ==
  /\ local \in BOOLEAN
  /\ workspace = IF local THEN {Shared} ELSE {}
  /\ user = {} /\ session = {}
  /\ signup = [r \in SignUp |-> NotSigningUp]

------------------------------------------------------------------------------
Reaches(r, p) == signup' = [signup EXCEPT ![r].phase = p]
EndSignup(r)  == signup' = [signup EXCEPT ![r] = NotSigningUp]

HasUser(t)   == \E u \in user : u.tenant = t
HasEmail(e)  == \E u \in user : u.email = e
TenantOf(r)  == IF local THEN Shared ELSE r

\* A request that made a workspace, which is named after it, does not come again.
BeginSignup(r, e) ==
  /\ signup[r].phase = "idle" /\ r \notin workspace
  /\ ~(local /\ HasUser(Shared))
  /\ signup' = [signup EXCEPT ![r] = [phase |-> "email", email |-> e]]
  /\ UNCHANGED <<local, workspace, user, session>>

FindUserByEmail(r) ==
  /\ signup[r].phase = "email"
  /\ IF HasEmail(signup[r].email) THEN EndSignup(r) ELSE Reaches(r, "tenant")
  /\ UNCHANGED <<local, workspace, user, session>>

\* Then the password is hashed, which takes its time.
GetOrCreateTenant(r) ==
  /\ signup[r].phase = "tenant"
  /\ workspace' = workspace \cup {TenantOf(r)}
  /\ Reaches(r, "insert")
  /\ UNCHANGED <<local, user, session>>

\* Mutant: the check before the lock is enough.
CheckedBefore(r) == FALSE

\* Looked at again with the workspace locked, in the transaction that inserts.
HasOwner(r) == local /\ HasUser(Shared)

\* The email is unique across workspaces.
InsertUser(r) ==
  /\ signup[r].phase = "insert"
  /\ ~HasOwner(r) /\ ~HasEmail(signup[r].email)
  /\ user' = user \cup {[email |-> signup[r].email, tenant |-> TenantOf(r)]}
  /\ Reaches(r, "session")
  /\ UNCHANGED <<local, workspace, session>>

CreateSession(r) ==
  /\ signup[r].phase = "session"
  /\ session' = session \cup {[email |-> signup[r].email, tenant |-> TenantOf(r)]}
  /\ EndSignup(r)
  /\ UNCHANGED <<local, workspace, user>>

\* Refused at the insertion, an error, or the death of the process.
FailSignup(r) ==
  /\ signup[r].phase # "idle"
  /\ EndSignup(r)
  /\ UNCHANGED <<local, workspace, user, session>>

AccountNext ==
  \E r \in SignUp :
    \/ \E e \in Email : BeginSignup(r, e)
    \/ FindUserByEmail(r) \/ GetOrCreateTenant(r)
    \/ InsertUser(r) \/ CreateSession(r) \/ FailSignup(r)

AccountSpec == AccountInit /\ [][AccountNext]_accountVars

------------------------------------------------------------------------------
(* What must hold.                                                         *)

\* However many signups are under way, a workspace has one owner and an email one
\* account, and whoever was signed in by signing up is the owner of a workspace.
OneOwner ==
  /\ \A t \in workspace : Cardinality({u \in user : u.tenant = t}) <= 1
  /\ \A e \in Email : Cardinality({u \in user : u.email = e}) <= 1
  /\ session \subseteq {u \in user : u.tenant \in workspace}
=================================================================================
