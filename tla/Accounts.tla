------------------------------ MODULE Accounts ------------------------------
(***************************************************************************)
(* User accounts, their sessions and the administrators: AuthService,      *)
(* SetupService, OidcService, UsersService and AdminService, which all     *)
(* read and write rows of the users table.  A request reads a row, decides *)
(* and writes it back in separate queries (bcrypt and the other awaits lie *)
(* in between), so requests interleave between any two of its steps.       *)
(*                                                                         *)
(* A refresh token is the sign-in it descends from: a refresh replaces the *)
(* token by another of the same sign-in, and the token presented is        *)
(* accepted when it is the stored one.  Passwords are present or absent:   *)
(* whether bcrypt.compare succeeds is the choice of the input.             *)
(***************************************************************************)
EXTENDS Naturals, Sequences, FiniteSets

CONSTANTS
  Users,        \* the email addresses accounts can have
  Requests,     \* requests that can be in progress at once
  Clients,      \* the ways to share the operations among the requests: each
                \* gives the operations that may be asked as each request
  MaxSignIns,   \* bound on the sign-ins of a behaviour
  MaxResets     \* bound on the reset links of a behaviour

ASSUME UsersAssumption == Users # {}
ASSUME AccountsBoundsAssumption == MaxSignIns \in Nat /\ MaxResets \in Nat

VARIABLES
  rows,      \* the users table: account of each address
  setup,     \* SetupService.setupInProgress
  req,       \* the requests in progress
  asked,     \* the operations the clients ask, fixed throughout
  signer,    \* whose sign-in each one was; its length numbers the next
  links,     \* reset links sent so far
  ended,     \* history: sign-ins whose token was stored and replaced or cleared
  uses,      \* history: how often each reset link set a password
  since      \* history: what other requests wrote since a request's read

vars == <<rows, setup, req, asked, signer, links, ended, uses, since>>

None == 0
SetupSession == MaxSignIns + 1    \* signed with the access secret: never verifies
Roles == {"MEMBER", "SUPER_ADMIN"}
Accounts == [exists : BOOLEAN, role : Roles, active : BOOLEAN, deleted : BOOLEAN,
             password : BOOLEAN, session : 0 .. MaxSignIns + 1, reset : 0 .. MaxResets]
NoAccount == [exists |-> FALSE, role |-> "MEMBER", active |-> FALSE, deleted |-> FALSE,
              password |-> FALSE, session |-> None, reset |-> None]

AdminOps == {"role", "status", "patch", "delete", "remove", "sendReset"}
Ops == AdminOps \union {"login", "sso", "register", "setup", "refresh", "forgot", "reset", "logout"}
Steps == {"idle", "bootstrap", "promote", "create", "signIn", "setup", "write",
          "read", "count"}
Values == Roles \union {"ACTIVE", "INACTIVE", "-"}

Idle == [step |-> "idle", op |-> "login", user |-> CHOOSE u \in Users : TRUE,
         actor |-> CHOOSE u \in Users : TRUE, value |-> "-", key |-> None]

LiveAdmins == {u \in Users : rows[u].role = "SUPER_ADMIN" /\ rows[u].active}
Init ==
  /\ rows = [u \in Users |-> NoAccount]
  /\ setup = FALSE
  /\ req = [r \in Requests |-> Idle]
  /\ asked \in Clients
  /\ signer = <<>>
  /\ links = 0
  /\ ended = {}
  /\ uses = [n \in 1 .. MaxResets |-> 0]
  /\ since = [r \in Requests |-> {}]

-----------------------------------------------------------------------------
At(r, op, step) == req[r].op = op /\ req[r].step = step

\* Request r goes on with the given step, or is answered.
Go(r, step) == req' = [req EXCEPT ![r].step = step]
Answered(r) ==
  /\ req' = [req EXCEPT ![r] = Idle]
  /\ since' = [since EXCEPT ![r] = {}]

\* A new request of the given kind, about u, that continues with step.
Begin(r, op, step, u, key) ==
  /\ op \in asked[r]
  /\ req' = [req EXCEPT ![r] = [step |-> step, op |-> op, user |-> u, actor |-> u,
                                value |-> "-", key |-> key]]
  /\ since' = [since EXCEPT ![r] = {}]

\* What a write of account a for u changes that request q may have read.
Kinds(q, u, a) ==
  {k \in {"session", "reset", "admins"} :
     CASE k = "session" -> req[q].user = u /\ a.session # rows[u].session
       [] k = "reset" -> req[q].user = u /\ a.reset # rows[u].reset
       [] k = "admins" -> /\ "SUPER_ADMIN" \in {a.role, rows[u].role}
                          /\ \/ a.role # rows[u].role
                             \/ a.active # rows[u].active
                             \/ a.deleted # rows[u].deleted}

\* Request r writes account a for u and goes on with step (or is answered).
Write(r, u, a, step) ==
  /\ rows' = [rows EXCEPT ![u] = a]
  /\ ended' = IF a.session = rows[u].session THEN ended
              ELSE (ended \union {rows[u].session}) \ {None}
  /\ since' = [q \in Requests |->
                 IF req[q].step = "idle" \/ (q = r /\ step = "idle") THEN {}
                 ELSE IF q = r THEN since[q] ELSE since[q] \union Kinds(q, u, a)]
  /\ req' = IF step = "idle" THEN [req EXCEPT ![r] = Idle]
            ELSE [req EXCEPT ![r].step = step]

\* An update of a row that is gone fails (P2025), and the request with it.
Missing(r) ==
  /\ ~rows[req[r].user].exists
  /\ Answered(r)
  /\ UNCHANGED <<rows, ended>>

-----------------------------------------------------------------------------
\* AuthService.login, OidcService.handleCallback, AuthService.register

\* validateUser: the account is ACTIVE and the password is its own.
Login(r) ==
  /\ req[r].step = "idle"
  /\ \E u \in Users :
       /\ rows[u].exists /\ rows[u].active /\ rows[u].password
       /\ Begin(r, "login", IF rows[u].role = "SUPER_ADMIN" THEN "signIn" ELSE "bootstrap",
                u, None)
  /\ UNCHANGED <<rows, setup, signer, links, ended, uses>>

ActiveAdmin == LiveAdmins # {}                                          \* mutant

\* findFirst: an administrator that is not deleted.
ExistingAdmin ==
  \E u \in Users : rows[u].exists /\ rows[u].role = "SUPER_ADMIN" /\ ~rows[u].deleted

FindAdmin(r) ==
  /\ At(r, "login", "bootstrap")
  /\ Go(r, IF ExistingAdmin THEN "signIn" ELSE "promote")
  /\ UNCHANGED <<rows, setup, signer, links, ended, uses, since>>

Promote(r) ==
  /\ At(r, "login", "promote")
  /\ \/ Missing(r)
     \/ LET u == req[r].user IN
          rows[u].exists /\ Write(r, u, [rows[u] EXCEPT !.role = "SUPER_ADMIN"], "signIn")
  /\ UNCHANGED <<setup, signer, links, uses>>

\* A single sign-on of an account, by external id or by email.
SsoLogin(r) ==
  /\ req[r].step = "idle"
  /\ \E u \in Users :
       /\ ~rows[u].exists \/ rows[u].active
       /\ Begin(r, "sso", IF rows[u].exists THEN "signIn" ELSE "create", u, None)
  /\ UNCHANGED <<rows, setup, signer, links, ended, uses>>

Register(r) ==
  /\ req[r].step = "idle"
  /\ \E u \in Users : ~rows[u].exists /\ Begin(r, "register", "create", u, None)
  /\ UNCHANGED <<rows, setup, signer, links, ended, uses>>

NewAccount(password) ==
  [NoAccount EXCEPT !.exists = TRUE, !.active = TRUE, !.password = password]

\* The insert fails when the address was registered since it was looked up.
Create(r) ==
  /\ req[r].step = "create"
  /\ LET u == req[r].user IN
       \/ /\ rows[u].exists
          /\ Answered(r)
          /\ UNCHANGED <<rows, ended>>
       \/ /\ ~rows[u].exists
          /\ Write(r, u, NewAccount(req[r].op = "register"), "signIn")
  /\ UNCHANGED <<setup, signer, links, uses>>

\* updateRefreshToken with the token of a new sign-in.
SignIn(r) ==
  /\ req[r].step = "signIn"
  /\ Len(signer) < MaxSignIns
  /\ LET u == req[r].user IN
       \/ Missing(r) /\ UNCHANGED signer
       \/ /\ rows[u].exists
          /\ signer' = Append(signer, u)
          /\ Write(r, u, [rows[u] EXCEPT !.session = Len(signer) + 1], "idle")
  /\ UNCHANGED <<setup, links, uses>>

\* SetupService.setupSuperAdmin: the flag, the count, then the insert.
SetupCheck(r) ==
  /\ req[r].step = "idle"
  /\ ~setup /\ \A u \in Users : ~rows[u].exists
  /\ setup' = TRUE
  /\ \E u \in Users : Begin(r, "setup", "setup", u, None)
  /\ UNCHANGED <<rows, signer, links, ended, uses>>

SetupCreate(r) ==
  /\ At(r, "setup", "setup")
  /\ setup' = FALSE
  /\ LET u == req[r].user IN
       \/ /\ rows[u].exists
          /\ Answered(r)
          /\ UNCHANGED <<rows, ended>>
       \/ /\ ~rows[u].exists
          /\ Write(r, u, [NewAccount(TRUE) EXCEPT !.role = "SUPER_ADMIN",
                                                  !.session = SetupSession], "idle")
  /\ UNCHANGED <<signer, links, uses>>

-----------------------------------------------------------------------------
\* AuthService.refreshToken, logout, forgotPassword, resetPassword

RefreshAny(r) ==                                                        \* mutant
  /\ req[r].step = "idle"
  /\ \E n \in DOMAIN signer :
       /\ rows[signer[n]].exists
       /\ Begin(r, "refresh", "write", signer[n], n)
  /\ UNCHANGED <<rows, setup, signer, links, ended, uses>>

\* The presented token (of sign-in n) is the one the row stores.
Refresh(r) ==
  /\ req[r].step = "idle"
  /\ \E n \in DOMAIN signer :
       /\ rows[signer[n]].exists /\ rows[signer[n]].session = n
       /\ Begin(r, "refresh", "write", signer[n], n)
  /\ UNCHANGED <<rows, setup, signer, links, ended, uses>>

RefreshWrite(r) ==
  /\ At(r, "refresh", "write")
  /\ \/ Missing(r)
     \/ LET u == req[r].user IN
          rows[u].exists /\ Write(r, u, [rows[u] EXCEPT !.session = req[r].key], "idle")
  /\ UNCHANGED <<setup, signer, links, uses>>

Logout(r) ==
  /\ At(r, "logout", "write")
  /\ \/ Missing(r)
     \/ LET u == req[r].user IN
          rows[u].exists /\ Write(r, u, [rows[u] EXCEPT !.session = None], "idle")
  /\ UNCHANGED <<setup, signer, links, uses>>

\* forgotPassword asks for no status; resetUserPassword is the administrator's.
Forgot(r) ==
  /\ req[r].step = "idle"
  /\ \E u \in Users : rows[u].exists /\ Begin(r, "forgot", "write", u, None)
  /\ UNCHANGED <<rows, setup, signer, links, ended, uses>>

SendReset(r) ==
  /\ At(r, "forgot", "write") \/ At(r, "sendReset", "write")
  /\ links < MaxResets
  /\ \/ Missing(r) /\ UNCHANGED links
     \/ LET u == req[r].user IN
          /\ rows[u].exists
          /\ links' = links + 1
          /\ Write(r, u, [rows[u] EXCEPT !.reset = links + 1], "idle")
  /\ UNCHANGED <<setup, signer, uses>>

\* resetPassword finds the account whose link it was given, not yet expired.
Reset(r) ==
  /\ req[r].step = "idle"
  /\ \E u \in Users :
       /\ rows[u].exists /\ rows[u].reset # None
       /\ Begin(r, "reset", "write", u, rows[u].reset)
  /\ UNCHANGED <<rows, setup, signer, links, ended, uses>>

ResetPasswordOnly(r) ==                                                 \* mutant
  /\ At(r, "reset", "write")
  /\ \/ Missing(r) /\ UNCHANGED uses
     \/ LET u == req[r].user IN
          /\ rows[u].exists
          /\ uses' = [uses EXCEPT ![req[r].key] = @ + 1]
          /\ Write(r, u, [rows[u] EXCEPT !.password = TRUE, !.session = None], "idle")
  /\ UNCHANGED <<setup, signer, links>>

\* The transaction: the password, the link and the refresh token.
ResetPassword(r) ==
  /\ At(r, "reset", "write")
  /\ \/ Missing(r) /\ UNCHANGED uses
     \/ LET u == req[r].user IN
          /\ rows[u].exists
          /\ uses' = [uses EXCEPT ![req[r].key] = @ + 1]
          /\ Write(r, u, [rows[u] EXCEPT !.password = TRUE, !.reset = None,
                                         !.session = None], "idle")
  /\ UNCHANGED <<setup, signer, links>>

\* A link that passes its expiry between the two clock reads is cleared.
ResetExpired(r) ==
  /\ At(r, "reset", "write")
  /\ \/ Missing(r)
     \/ LET u == req[r].user IN
          rows[u].exists /\ Write(r, u, [rows[u] EXCEPT !.reset = None], "idle")
  /\ UNCHANGED <<setup, signer, links, uses>>

-----------------------------------------------------------------------------
\* JwtStrategy.validate and RolesGuard, then the administrators' operations

\* The account behind an access token is ACTIVE when the request comes in.
Authenticate(r) ==
  /\ req[r].step = "idle"
  /\ \E a \in Users :
       /\ rows[a].exists /\ rows[a].active
       /\ \/ Begin(r, "logout", "write", a, None)
          \/ /\ rows[a].role = "SUPER_ADMIN"
             /\ \E op \in AdminOps \intersect asked[r], u \in Users :
                  \E v \in CASE op = "role" -> Roles
                             [] op = "status" -> {"ACTIVE", "INACTIVE"}
                             [] op = "patch" -> Values \ {"-"}
                             [] OTHER -> {"-"} :
                    /\ req' = [req EXCEPT ![r] = [step |-> "read", op |-> op, user |-> u,
                                                  actor |-> a, value |-> v, key |-> None]]
                    /\ since' = [since EXCEPT ![r] = {}]
  /\ UNCHANGED <<rows, setup, signer, links, ended, uses>>

OwnStatus(r) == req[r].op = "status" /\ req[r].user = req[r].actor       \* mutant

\* An administrator may not change or delete their own account here.
Own(r) == req[r].op \in {"role", "status", "delete"} /\ req[r].user = req[r].actor

\* The demotion or deletion of an administrator counts them first.
TakesAdmin(r) ==
  /\ rows[req[r].user].role = "SUPER_ADMIN"
  /\ \/ req[r].op = "delete"
     \/ req[r].op = "role" /\ req[r].value # "SUPER_ADMIN"

ReadTarget(r) ==
  /\ req[r].step = "read"
  /\ \/ /\ Own(r) \/ ~rows[req[r].user].exists
        /\ Answered(r)
     \/ /\ ~Own(r) /\ rows[req[r].user].exists
        /\ Go(r, IF TakesAdmin(r) THEN "count" ELSE "write")
        /\ UNCHANGED since
  /\ UNCHANGED <<rows, setup, signer, links, ended, uses>>

\* count: every row with the role, deleted or not.
CountAdmins(r) ==
  /\ req[r].step = "count"
  /\ IF Cardinality({u \in Users : rows[u].exists /\ rows[u].role = "SUPER_ADMIN"}) <= 1
       THEN Answered(r)
       ELSE Go(r, "write") /\ UNCHANGED since
  /\ UNCHANGED <<rows, setup, signer, links, ended, uses>>

\* What each operation makes of the account a.
Changed(r, a) ==
  CASE req[r].op \in {"role", "patch"} /\ req[r].value \in Roles ->
         [a EXCEPT !.role = req[r].value]
    [] req[r].op = "patch" /\ req[r].value \notin Roles ->
         [a EXCEPT !.active = (req[r].value = "ACTIVE")]
    [] req[r].op = "status" /\ req[r].value = "ACTIVE" -> [a EXCEPT !.active = TRUE]
    [] req[r].op = "status" /\ req[r].value # "ACTIVE" ->
         [a EXCEPT !.active = FALSE, !.session = None, !.reset = None]
    [] req[r].op = "delete" ->
         [a EXCEPT !.active = FALSE, !.deleted = TRUE, !.password = FALSE,
                   !.session = None, !.reset = None]
    [] OTHER -> NoAccount

AdminWrite(r) ==
  /\ req[r].op \in AdminOps \ {"sendReset"} /\ req[r].step = "write"
  /\ \/ Missing(r)
     \/ LET u == req[r].user IN
          rows[u].exists /\ Write(r, u, Changed(r, rows[u]), "idle")
  /\ UNCHANGED <<setup, signer, links, uses>>

\* deleteUser refuses the owner of an organization.
OwnsOrganizations(r) ==
  /\ At(r, "delete", "write")
  /\ Answered(r)
  /\ UNCHANGED <<rows, setup, signer, links, ended, uses>>

-----------------------------------------------------------------------------
Step(r) ==
  \/ Login(r) \/ FindAdmin(r) \/ Promote(r) \/ SsoLogin(r) \/ Register(r)
  \/ Create(r) \/ SignIn(r) \/ SetupCheck(r) \/ SetupCreate(r)
  \/ Refresh(r) \/ RefreshWrite(r) \/ Logout(r) \/ Forgot(r) \/ SendReset(r)
  \/ Reset(r) \/ ResetPassword(r) \/ ResetExpired(r)
  \/ Authenticate(r) \/ ReadTarget(r) \/ CountAdmins(r) \/ AdminWrite(r)
  \/ OwnsOrganizations(r)

Next == (\E r \in Requests : Step(r)) /\ UNCHANGED asked

Spec == Init /\ [][Next]_vars

-----------------------------------------------------------------------------
TypeOK ==
  /\ rows \in [Users -> Accounts]
  /\ \A u \in Users : rows[u].exists \/ rows[u] = NoAccount
  /\ setup \in BOOLEAN
  /\ req \in [Requests -> [step : Steps, op : Ops, user : Users, actor : Users,
                          value : Values, key : 0 .. MaxSignIns + MaxResets]]
  /\ signer \in Seq(Users) /\ Len(signer) <= MaxSignIns
  /\ links \in 0 .. MaxResets
  /\ ended \subseteq 1 .. MaxSignIns + 1
  /\ uses \in [1 .. MaxResets -> Nat]
  /\ since \in [Requests -> SUBSET {"session", "reset", "admins"}]

\* Request r writes an account in this step.
Writes(r, ops) ==
  req[r].op \in ops /\ req[r].step = "write" /\ rows' # rows /\ req'[r].step = "idle"

\* updateUserRole, updateUserStatus and deleteUser never leave the system
\* without a working administrator, provided no administrator's account was
\* written since the request was authenticated: the acting one remains.
\* (users.controller's PATCH and DELETE give no such protection.)
AdminRemains ==
  [][ LiveAdmins # {} /\ LiveAdmins' = {}
        => \E r \in Requests : \/ Writes(r, {"patch", "remove"})
                              \/ /\ Writes(r, {"role", "status", "delete"})
                                 /\ "admins" \in since[r] ]_vars

\* "Prevent demoting the last SUPER_ADMIN", without that proviso.
LastAdminKept ==
  [][ \A r \in Requests : Writes(r, {"role"}) /\ LiveAdmins # {} => LiveAdmins' # {} ]_vars

\* login makes an administrator only of an instance that has none, unless
\* one came to be after the request looked.
FirstAdminOnly ==
  [][ \A r \in Requests :
        /\ At(r, "login", "promote") /\ req'[r].step = "signIn"
        /\ \E u \in Users : rows[u].role = "SUPER_ADMIN" /\ ~rows[u].deleted
        => "admins" \in since[r] ]_vars

\* A sign-in whose token was cleared (logout, reset, deactivation, deletion)
\* or replaced does not come back: only a refresh that read the token before
\* that and writes after it stores one of its tokens again.
SessionsStayEnded ==
  [][ \A u \in Users :
        /\ rows'[u].session # rows[u].session
        /\ rows'[u].session \in ended \intersect DOMAIN signer
        => \E r \in Requests : /\ At(r, "refresh", "write") /\ req[r].user = u
                              /\ "session" \in since[r] ]_vars

\* A reset link sets a password once: a second time only for a request that
\* had looked the link up before the first one cleared it.
LinkUsedOnce ==
  [][ \A n \in DOMAIN uses :
        uses'[n] > 1 /\ uses'[n] # uses[n]
        => \E r \in Requests : At(r, "reset", "write") /\ "reset" \in since[r] ]_vars

=============================================================================
