---------------------------- MODULE Memberships ----------------------------
(***************************************************************************)
(* Who belongs to one organization, to its workspaces and to their         *)
(* projects, and with which role: OrganizationMembersService,              *)
(* WorkspaceMembersService, ProjectMembersService and the administrators'  *)
(* transfer of ownership.  The three tables are written by separate        *)
(* queries: a change of an organization role goes on to every workspace in *)
(* parallel (Promise.all), each workspace with its own checks, and a       *)
(* failure in one neither undoes nor stops the others.                     *)
(*                                                                         *)
(* A request begins when the queries of its checks are done and they all   *)
(* passed: a refused one changes nothing.  What it does afterwards is one  *)
(* step per query or transaction.  Rows are named by user and place; gone  *)
(* records which of the rows a request holds by id were deleted meanwhile. *)
(***************************************************************************)
EXTENDS Naturals, FiniteSets

CONSTANTS
  Users, Workspaces, Projects,
  WorkspaceOf,    \* the workspace of each project
  Founder,        \* the first owner of the organization
  SuperAdmins,    \* users whose global role is SUPER_ADMIN
  Clients,        \* the ways to share the work among the requests: each gives
                  \* the operations, and the roles, that each request may ask for
  Requests,
  NoActor         \* a call of a service that names no acting user

ASSUME ProjectsAssumption == WorkspaceOf \in [Projects -> Workspaces]
ASSUME FounderAssumption == Founder \in Users
ASSUME NoActorAssumption == NoActor \notin Users
ASSUME PlacesAssumption == "org" \notin Workspaces \union Projects

VARIABLES
  owner,     \* organization.ownerId
  org,       \* organization_members: role of each user, or "NONE"
  ws,        \* workspace_members
  prj,       \* project_members
  req,       \* the requests in progress
  asked,     \* the operations and roles the clients ask for, fixed throughout
  work,      \* per request: where its write to each workspace has got to
  gone,      \* rows held by a request that others deleted
  over       \* history: what others wrote since the request began

members == <<owner, org, ws, prj>>
memberVars == <<members, req, asked, work, gone, over>>

Roles == {"VIEWER", "MEMBER", "MANAGER", "OWNER"}
High == {"MANAGER", "OWNER"}
Row == Roles \union {"NONE"}
\* ROLE_HIERARCHY: the roles that satisfy a required one.
AtLeast(role) == CASE role = "OWNER" -> {"OWNER"} [] role = "MANAGER" -> High
                   [] role = "MEMBER" -> High \union {"MEMBER"} [] OTHER -> Roles

OrgOps == {"orgAdd", "orgUpdate", "orgRemove", "orgBulkRemove"}
WsOps == {"wsAdd", "wsUpdate", "wsRemove", "wsBulkRemove"}
PrjOps == {"prjAdd", "prjUpdate", "prjRemove", "prjBulkRemove"}
Ops == OrgOps \union WsOps \union PrjOps \union {"transfer"}
Places == {"org"} \union Workspaces \union Projects
NoWork == [w \in Workspaces |-> "none"]
Assignable(r) == Roles \intersect asked[r]
ProjectsOf(w) == {p \in Projects : WorkspaceOf[p] = w}

Idle == [step |-> "idle", op |-> "orgAdd", actor |-> Founder, user |-> Founder,
         who |-> {}, role |-> "MEMBER", at |-> "org", then |-> "idle", ok |-> TRUE]

Init ==
  /\ owner = Founder
  /\ org = [u \in Users |-> IF u = Founder THEN "OWNER" ELSE "NONE"]
  /\ ws = [u \in Users |-> [w \in Workspaces |-> IF u = Founder THEN "OWNER" ELSE "NONE"]]
  /\ prj = [u \in Users |-> [p \in Projects |-> IF u = Founder THEN "OWNER" ELSE "NONE"]]
  /\ req = [r \in Requests |-> Idle]
  /\ asked \in Clients
  /\ work = [r \in Requests |-> NoWork]
  /\ gone = [r \in Requests |-> {}]
  /\ over = [r \in Requests |-> {}]

-----------------------------------------------------------------------------
\* Steps of requests

Begin(r, op, actor, who, u, role, at, step) ==
  /\ op \in asked[r] /\ req[r].step = "idle"
  /\ req' = [req EXCEPT ![r] = [Idle EXCEPT !.step = step, !.op = op, !.actor = actor,
                                            !.user = u, !.who = who, !.role = role,
                                            !.at = at]]
  /\ gone' = [gone EXCEPT ![r] = {}]
  /\ over' = [over EXCEPT ![r] = {}]
  /\ UNCHANGED members

Active(q) == req'[q].step # "idle"

\* A write by r of the given kind that deletes the rows del (user, place).
Wrote(r, kind, del) ==
  /\ over' = [q \in Requests |-> IF ~Active(q) THEN {} ELSE
                IF q = r THEN over[q] ELSE over[q] \union {kind}]
  /\ gone' = [q \in Requests |-> IF ~Active(q) THEN {} ELSE
                gone[q] \union {d \in del : q # r /\ d[1] \in req[q].who}]

Finish(r) == req' = [req EXCEPT ![r] = Idle]

\* A query of request r fails: it is answered with an error.
Fail(r) ==
  /\ Finish(r)
  /\ gone' = [gone EXCEPT ![r] = {}]
  /\ over' = [over EXCEPT ![r] = {}]
  /\ UNCHANGED <<members, work>>

\* The write to workspace w moves on; with the last one the request goes on to
\* what follows it, or is answered with the error of one that failed.
Proceed(r, w, stage, ok) ==
  /\ work' = [work EXCEPT ![r][w] = stage]
  /\ LET all == req[r].ok /\ ok IN
       req' = IF \A v \in Workspaces : work'[r][v] = "none"
                THEN IF all THEN [req EXCEPT ![r].step = req[r].then] ELSE [req EXCEPT ![r] = Idle]
                ELSE [req EXCEPT ![r].ok = all]

\* The write to w fails, or there is nothing left to write there.
Done(r, w, ok) ==
  /\ Proceed(r, w, "none", ok)
  /\ gone' = [gone EXCEPT ![r] = IF Active(r) THEN @ ELSE {}]
  /\ over' = [over EXCEPT ![r] = IF Active(r) THEN @ ELSE {}]
  /\ UNCHANGED members

-----------------------------------------------------------------------------
\* WorkspaceMembersService

\* checkActorPermissions for MANAGER, and again for OWNER when that is the role.
MayManage(a, w, role) ==
  a # NoActor =>
    \/ a = owner \/ a \in SuperAdmins \/ org[a] \in High
    \/ ws[a][w] \in AtLeast(IF role = "OWNER" THEN "OWNER" ELSE "MANAGER")

AskWsAdd(r) ==
  /\ \E a, u \in Users, w \in Workspaces, role \in Assignable(r) :
       /\ Begin(r, "wsAdd", a, {u}, u, role, w, "spread")
       /\ work' = [work EXCEPT ![r][w] = "check"]

\* create: the actor may, and the user is a member of the organization.
CheckWsCreate(r, w) ==
  /\ work[r][w] = "check"
  /\ LET allowed == MayManage(req[r].actor, w, req[r].role) /\ org[req[r].user] # "NONE" IN
       \/ ~allowed /\ Done(r, w, FALSE)
       \/ /\ allowed
          /\ Proceed(r, w, "insert", TRUE)
          /\ gone' = [gone EXCEPT ![r] = @ \ {<<req[r].user, "org">>}]
          /\ UNCHANGED <<members, over>>

\* create: the row (unique per user and workspace).
InsertWs(r, w) ==
  /\ work[r][w] = "insert"
  /\ LET u == req[r].user IN
       \/ ws[u][w] # "NONE" /\ Done(r, w, FALSE)
       \/ /\ ws[u][w] = "NONE"
          /\ ws' = [ws EXCEPT ![u][w] = req[r].role]
          /\ Proceed(r, w, IF req[r].role \in High THEN "projects" ELSE "none", TRUE)
          /\ Wrote(r, "member", {})
          /\ UNCHANGED <<owner, org, prj>>

\* create: a manager joins every project; createMany skips the rows there are.
InsertProjects(r, w) ==
  /\ work[r][w] = "projects"
  /\ LET u == req[r].user IN
       prj' = [prj EXCEPT ![u] = [p \in Projects |->
                 IF p \in ProjectsOf(w) /\ @[p] = "NONE" THEN req[r].role ELSE @[p]]]
  /\ Proceed(r, w, "none", TRUE)
  /\ Wrote(r, "member", {})
  /\ UNCHANGED <<owner, org, ws>>

AskWsUpdate(r) ==
  /\ \E a, u \in Users, w \in Workspaces, role \in Assignable(r) :
       /\ ws[u][w] # "NONE" /\ MayManage(a, w, role)
       /\ Begin(r, "wsUpdate", a, {u}, u, role, w, "spread")
       /\ work' = [work EXCEPT ![r][w] = "update"]

\* update: a transaction of the row and an upsert per project.
UpdateWs(r, w) ==
  /\ work[r][w] = "update"
  /\ LET u == req[r].user IN
       \/ <<u, w>> \in gone[r] /\ Done(r, w, FALSE)
       \/ /\ <<u, w>> \notin gone[r]
          /\ ws' = [ws EXCEPT ![u][w] = req[r].role]
          /\ prj' = [prj EXCEPT ![u] = [p \in Projects |->
                       IF p \in ProjectsOf(w) THEN req[r].role ELSE @[p]]]
          /\ Proceed(r, w, "none", TRUE)
          /\ Wrote(r, "member", {})
          /\ UNCHANGED <<owner, org>>

\* remove (oneself, or as a manager) and bulkRemove (never oneself).
AskWsRemove(r) ==
  /\ \E a \in Users, who \in SUBSET Users \ {{}}, w \in Workspaces,
        op \in {"wsRemove", "wsBulkRemove"} :
       /\ \A u \in who : ws[u][w] # "NONE"
       /\ op = "wsRemove" => Cardinality(who) = 1
       /\ op = "wsBulkRemove" => a \notin who
       /\ who = {a} \/ MayManage(a, w, "MEMBER")
       /\ Begin(r, op, a, who, a, "MEMBER", w, "remove")
  /\ UNCHANGED work

\* Both are transactions: the project rows of the users, then their own rows.
RemoveWs(r) ==
  /\ req[r].step = "remove" /\ req[r].op \in WsOps
  /\ LET w == req[r].at
         who == req[r].who
         rows == {u \in who : <<u, w>> \notin gone[r]}
     IN \/ req[r].op = "wsRemove" /\ rows = {} /\ Fail(r)
        \/ /\ req[r].op = "wsRemove" => rows # {}
           /\ prj' = [u \in Users |-> [p \in Projects |->
                        IF u \in who /\ p \in ProjectsOf(w) THEN "NONE" ELSE prj[u][p]]]
           /\ ws' = [u \in Users |-> [ws[u] EXCEPT ![w] = IF u \in rows THEN "NONE" ELSE @]]
           /\ Finish(r)
           /\ Wrote(r, "member", (rows \X {w}) \union (who \X ProjectsOf(w)))
           /\ UNCHANGED <<owner, org, work>>

-----------------------------------------------------------------------------
\* OrganizationMembersService

OrgManager(a) == org[a] # "NONE" /\ (a = owner \/ org[a] \in High)

\* create and update: an owner or a manager may; only an owner makes an owner.
MayAssign(a, role) ==
  \/ a \in SuperAdmins
  \/ OrgManager(a) /\ (role = "OWNER" => a = owner \/ org[a] = "OWNER")

AskOrgAdd(r) ==
  /\ \E a, u \in Users, role \in Assignable(r) :
       MayAssign(a, role) /\ Begin(r, "orgAdd", a, {u}, u, role, "org", "write")
  /\ UNCHANGED work

\* After the row: a manager or owner is created in every workspace.
InsertOrg(r) ==
  /\ req[r].step = "write" /\ req[r].op \in {"orgAdd", "accept"}
  /\ LET u == req[r].user IN
       \/ org[u] # "NONE" /\ Fail(r)
       \/ /\ org[u] = "NONE"
          /\ org' = [org EXCEPT ![u] = req[r].role]
          /\ IF req[r].role \in High /\ Workspaces # {}
               THEN /\ work' = [work EXCEPT ![r] = [w \in Workspaces |-> "check"]]
                    /\ req' = [req EXCEPT ![r].step = "spread"]
               ELSE /\ req' = [req EXCEPT ![r].step = req[r].then]
                    /\ UNCHANGED work
          /\ Wrote(r, "org", {})
          /\ UNCHANGED <<owner, ws, prj>>

AskAnyOrgUpdate(r) ==                                                   \* mutant
  /\ \E a, u \in Users, role \in Assignable(r) :
       /\ org[u] # "NONE" /\ MayAssign(a, role)
       /\ Begin(r, "orgUpdate", a, {u}, u, role, "org", "write")
  /\ UNCHANGED work

AskOrgUpdate(r) ==
  /\ \E a, u \in Users, role \in Assignable(r) :
       /\ org[u] # "NONE" /\ MayAssign(a, role)
       /\ u = owner => role = "OWNER"
       /\ Begin(r, "orgUpdate", a, {u}, u, role, "org", "write")
  /\ UNCHANGED work

\* After the row: every workspace, whatever the role.
UpdateOrg(r) ==
  /\ req[r].step = "write" /\ req[r].op = "orgUpdate"
  /\ LET u == req[r].user IN
       \/ <<u, "org">> \in gone[r] /\ Fail(r)
       \/ /\ <<u, "org">> \notin gone[r]
          /\ org' = [org EXCEPT ![u] = req[r].role]
          /\ IF Workspaces # {}
               THEN /\ work' = [work EXCEPT ![r] = [w \in Workspaces |-> "find"]]
                    /\ req' = [req EXCEPT ![r].step = "spread"]
               ELSE Finish(r) /\ UNCHANGED work
          /\ Wrote(r, "org", {})
          /\ UNCHANGED <<owner, ws, prj>>

FindExisting(r, w) ==                                                   \* mutant
  /\ work[r][w] = "find"
  /\ LET u == req[r].user IN
       \/ ws[u][w] = "NONE" /\ Done(r, w, TRUE)
       \/ /\ ws[u][w] # "NONE"
          /\ Proceed(r, w, "update", TRUE)
          /\ gone' = [gone EXCEPT ![r] = @ \ {<<u, w>>}]
          /\ UNCHANGED <<members, over>>

\* The workspace row is updated, with update's own checks, or else created.
FindWs(r, w) ==
  /\ work[r][w] = "find"
  /\ LET u == req[r].user IN
       \/ ws[u][w] = "NONE" /\ Proceed(r, w, "check", TRUE) /\ UNCHANGED <<members, gone, over>>
       \/ ws[u][w] # "NONE" /\ ~MayManage(req[r].actor, w, req[r].role) /\ Done(r, w, FALSE)
       \/ /\ ws[u][w] # "NONE" /\ MayManage(req[r].actor, w, req[r].role)
          /\ Proceed(r, w, "update", TRUE)
          /\ gone' = [gone EXCEPT ![r] = @ \ {<<u, w>>}]
          /\ UNCHANGED <<members, over>>

AskOrgRemove(r) ==
  /\ \E a \in Users, who \in SUBSET Users \ {{}}, op \in {"orgRemove", "orgBulkRemove"} :
       /\ \A u \in who : org[u] # "NONE" /\ u # owner
       /\ op = "orgRemove" => Cardinality(who) = 1
       /\ op = "orgBulkRemove" => a \notin who
       /\ who = {a} \/ a \in SuperAdmins \/ OrgManager(a)
       /\ Begin(r, op, a, who, a, "MEMBER", "org", "remove")
  /\ UNCHANGED work

RemoveOrgRow(r) ==                                                      \* mutant
  /\ req[r].step = "remove" /\ req[r].op \in OrgOps
  /\ org' = [u \in Users |-> IF u \in req[r].who THEN "NONE" ELSE org[u]]
  /\ Finish(r)
  /\ Wrote(r, "org", req[r].who \X {"org"})
  /\ UNCHANGED <<owner, ws, prj, work>>

\* The transaction: every workspace and project row of the users, then theirs.
RemoveOrg(r) ==
  /\ req[r].step = "remove" /\ req[r].op \in OrgOps
  /\ LET who == req[r].who
         rows == {u \in who : <<u, "org">> \notin gone[r]}
     IN \/ req[r].op = "orgRemove" /\ rows = {} /\ Fail(r)
        \/ /\ req[r].op = "orgRemove" => rows # {}
           /\ ws' = [u \in Users |-> IF u \in who THEN [w \in Workspaces |-> "NONE"] ELSE ws[u]]
           /\ prj' = [u \in Users |-> IF u \in who THEN [p \in Projects |-> "NONE"] ELSE prj[u]]
           /\ org' = [u \in Users |-> IF u \in rows THEN "NONE" ELSE org[u]]
           /\ Finish(r)
           /\ Wrote(r, "org", (rows \X {"org"}) \union (who \X (Workspaces \union Projects)))
           /\ UNCHANGED <<owner, work>>

\* AdminService.transferOrganizationOwnership: actor is the owner it read, role
\* the new owner's membership as it read it.
AskTransfer(r) ==
  /\ SuperAdmins # {}
  /\ \E u \in Users \ {owner} :
       Begin(r, "transfer", owner, {u}, u, org[u], "org", "write")
  /\ UNCHANGED work

Transfer(r) ==
  /\ req[r].step = "write" /\ req[r].op = "transfer"
  /\ LET u == req[r].user
         prev == req[r].actor
         clash == \/ req[r].role = "NONE" /\ org[u] # "NONE"
                  \/ req[r].role \notin {"NONE", "OWNER"} /\ <<u, "org">> \in gone[r]
         promoted == IF req[r].role = "OWNER" THEN org ELSE [org EXCEPT ![u] = "OWNER"]
     IN \/ clash /\ Fail(r)
        \/ /\ ~clash
           /\ org' = [promoted EXCEPT ![prev] = IF @ = "OWNER" THEN "MANAGER" ELSE @]
           /\ owner' = u
           /\ Finish(r)
           /\ Wrote(r, "org", {})
           /\ UNCHANGED <<ws, prj, work>>

-----------------------------------------------------------------------------
\* ProjectMembersService

\* Owners of the organization, and owners and managers of workspace or project.
PrjManager(a, p) ==
  \/ a \in SuperAdmins \/ a = owner \/ org[a] = "OWNER"
  \/ ws[a][WorkspaceOf[p]] \in High \/ prj[a][p] \in High

\* A project manager who is nothing more assigns any role but OWNER.
MayAssignPrj(a, p, role) ==
  /\ PrjManager(a, p)
  /\ role = "OWNER" => \/ a \in SuperAdmins \/ a = owner \/ org[a] = "OWNER"
                       \/ ws[a][WorkspaceOf[p]] \in High \/ prj[a][p] = "OWNER"

AskPrjAdd(r) ==
  /\ \E a, u \in Users, p \in Projects, role \in Assignable(r) :
       /\ MayAssignPrj(a, p, role)
       /\ org[u] # "NONE" \/ ws[u][WorkspaceOf[p]] # "NONE"
       /\ Begin(r, "prjAdd", a, {u}, u, role, p, "write")
  /\ UNCHANGED work

AskPrjUpdate(r) ==
  /\ \E a, u \in Users, p \in Projects, role \in Assignable(r) :
       /\ prj[u][p] # "NONE" /\ MayAssignPrj(a, p, role)
       /\ a \in SuperAdmins \/ {org[a], ws[a][WorkspaceOf[p]], prj[a][p]} # {"NONE"}
       /\ Begin(r, "prjUpdate", a, {u}, u, role, p, "write")
  /\ UNCHANGED work

\* The insert fails on a row that is there, the update on one that is gone.
WritePrj(r) ==
  /\ req[r].step = "write" /\ req[r].op \in PrjOps
  /\ LET u == req[r].user
         p == req[r].at
         clash == IF req[r].op = "prjAdd" THEN prj[u][p] # "NONE" ELSE <<u, p>> \in gone[r]
     IN \/ clash /\ Fail(r)
        \/ /\ ~clash
           /\ prj' = [prj EXCEPT ![u][p] = req[r].role]
           /\ Finish(r)
           /\ Wrote(r, "member", {})
           /\ UNCHANGED <<owner, org, ws, work>>

AskPrjRemove(r) ==
  /\ \E a \in Users, who \in SUBSET Users \ {{}}, p \in Projects,
        op \in {"prjRemove", "prjBulkRemove"} :
       /\ \A u \in who : prj[u][p] # "NONE"
       /\ op = "prjRemove" => Cardinality(who) = 1
       /\ op = "prjBulkRemove" => a \notin who
       /\ (op = "prjRemove" /\ who = {a}) \/ PrjManager(a, p)
       /\ Begin(r, op, a, who, a, "MEMBER", p, "remove")
  /\ UNCHANGED work

RemovePrj(r) ==
  /\ req[r].step = "remove" /\ req[r].op \in PrjOps
  /\ LET p == req[r].at
         rows == {u \in req[r].who : <<u, p>> \notin gone[r]}
     IN \/ req[r].op = "prjRemove" /\ rows = {} /\ Fail(r)
        \/ /\ req[r].op = "prjRemove" => rows # {}
           /\ prj' = [u \in Users |-> [prj[u] EXCEPT ![p] = IF u \in rows THEN "NONE" ELSE @]]
           /\ Finish(r)
           /\ Wrote(r, "member", rows \X {p})
           /\ UNCHANGED <<owner, org, ws, work>>

-----------------------------------------------------------------------------
AtWorkspace(r, w) ==
  \/ CheckWsCreate(r, w) \/ InsertWs(r, w) \/ InsertProjects(r, w)
  \/ FindWs(r, w) \/ UpdateWs(r, w)

Step(r) ==
  \/ AskOrgAdd(r) \/ InsertOrg(r) \/ AskOrgUpdate(r) \/ UpdateOrg(r)
  \/ AskOrgRemove(r) \/ RemoveOrg(r) \/ AskTransfer(r) \/ Transfer(r)
  \/ AskWsAdd(r) \/ AskWsUpdate(r) \/ AskWsRemove(r) \/ RemoveWs(r)
  \/ AskPrjAdd(r) \/ AskPrjUpdate(r) \/ WritePrj(r) \/ AskPrjRemove(r) \/ RemovePrj(r)
  \/ \E w \in Workspaces : AtWorkspace(r, w)

Next == (\E r \in Requests : Step(r)) /\ UNCHANGED asked

Spec == Init /\ [][Next]_memberVars

-----------------------------------------------------------------------------
TypeOK ==
  /\ owner \in Users
  /\ org \in [Users -> Row]
  /\ ws \in [Users -> [Workspaces -> Row]]
  /\ prj \in [Users -> [Projects -> Row]]
  /\ \A r \in Requests :
       /\ req[r].step \in {"idle", "write", "spread", "remove"}
       /\ req[r].op \in Ops /\ req[r].who \subseteq Users /\ req[r].user \in Users
       /\ req[r].role \in Row /\ req[r].at \in Places
       /\ (\E w \in Workspaces : work[r][w] # "none") <=> req[r].step = "spread"
       /\ work[r] \in [Workspaces -> {"none", "find", "check", "insert", "projects", "update"}]
       /\ gone[r] \subseteq Users \X Places /\ over[r] \subseteq {"org", "member"}

\* u belongs to a workspace or a project of the organization.
Inside(u) == (\E w \in Workspaces : ws[u][w] # "NONE") \/ \E p \in Projects : prj[u][p] # "NONE"

Moves(r) == req'[r] # req[r] \/ work'[r] # work[r]

\* Nobody is inside the organization without being a member of it: a removal
\* takes everything with it, and only a request that had checked a membership
\* before its removal can add the user to a workspace or project again.
InsideIsMember ==
  [][ \A u \in Users :
        Inside(u)' /\ org'[u] = "NONE" /\ ~(Inside(u) /\ org[u] = "NONE")
        => \E r \in Requests : Moves(r) /\ \E d \in gone[r] : d[1] = u ]_memberVars

\* The organization's owner is a member with the role OWNER (nobody demotes or
\* removes them), unless the step's request had read the organization before
\* another one wrote it.
OwnerKeepsRole ==
  [][ org[owner] = "OWNER" /\ org'[owner'] # "OWNER"
        => \E r \in Requests : Moves(r) /\ "org" \in over[r] ]_memberVars

\* A change of somebody else's organization role that nothing interrupts ends
\* with the user in every workspace with that role, and in every project if it
\* is a manager's.
RoleReachesWorkspaces ==
  [][ \A r \in Requests :
        /\ req[r].op = "orgUpdate" /\ req[r].step = "spread" /\ req'[r].step = "idle"
        /\ over[r] = {} /\ req[r].user # req[r].actor
        => LET u == req[r].user IN
             /\ \A w \in Workspaces : ws'[u][w] = req[r].role
             /\ req[r].role \in High => \A p \in Projects : prj'[u][p] # "NONE" ]_memberVars
=============================================================================
