------------------------- MODULE Memberships_proofs -------------------------
(***************************************************************************)
(* For any users, places, invitations and number of requests at a time.    *)
(*                                                                         *)
(* Memberships: nobody gets inside the organization past a membership, its *)
(* owner keeps the role, and a change of role that nothing interrupts      *)
(* reaches every workspace.  What could undo each of them is a request     *)
(* that goes on with what it had checked; MembersInv says how much of that *)
(* still holds, or else that "gone" or "over" records what changed it.     *)
(*                                                                         *)
(* Invitations: an acceptance leads where the invitation says, and goes    *)
(* through when nobody interrupts it; a declined invitation stays          *)
(* declined; and nobody is invited twice to one place.  IInv follows an    *)
(* acceptance along its chain: the rows it has passed are there, or among  *)
(* what is gone, and the rows it is about to make are not.                 *)
(***************************************************************************)
EXTENDS Invitations, TLAPS


Stages == {"none", "find", "check", "insert", "projects", "update"}
MemberRequestType ==
  [step : {"idle", "write", "spread", "remove"}, op : Ops, actor : Users, user : Users,
   who : SUBSET Users, role : Row, at : Places, then : {"idle"}, ok : BOOLEAN]

MembersTyped ==
  /\ owner \in Users /\ org \in [Users -> Row]
  /\ ws \in [Users -> [Workspaces -> Row]] /\ prj \in [Users -> [Projects -> Row]]

MemberTyped ==
  /\ MembersTyped
  /\ req \in [Requests -> MemberRequestType]
  /\ work \in [Requests -> [Workspaces -> Stages]]
  /\ gone \in [Requests -> SUBSET (Users \X Places)]
  /\ over \in [Requests -> SUBSET {"org", "member"}]

\* Which operations take which steps, and for whom.
MemberShape(q, k) ==
  /\ q.step = "write" => q.op \in {"orgAdd", "orgUpdate", "transfer", "prjAdd", "prjUpdate"}
  /\ q.step = "spread" => q.op \in {"orgAdd", "orgUpdate", "wsAdd", "wsUpdate"}
  /\ q.step \in {"write", "spread"} =>
       q.who = {q.user} /\ (q.op # "transfer" => q.role \in Roles)
  /\ q.step = "write" /\ q.op \in {"prjAdd", "prjUpdate"} => q.at \in Projects
  /\ (\E w \in Workspaces : k[w] # "none") <=> q.step = "spread"

\* What a request had found of the user is still so, or among what is gone.
Found(q, k, g) ==
  LET u == q.user IN
  /\ \A w \in Workspaces :
       /\ k[w] \in {"insert", "projects"} => org[u] # "NONE" \/ <<u, "org">> \in g
       /\ k[w] = "update" => ws[u][w] # "NONE" \/ <<u, w>> \in g
  /\ q.step = "write" /\ q.op = "prjAdd" =>
       org[u] # "NONE" \/ ws[u][WorkspaceOf[q.at]] # "NONE" \/ \E d \in g : d[1] = u
  /\ q.step = "write" /\ q.op = "prjUpdate" => prj[u][q.at] # "NONE" \/ <<u, q.at>> \in g

\* What it had found of the organization's owner is so unless the organization
\* was written since.
OwnerFound(q, o) ==
  /\ "org" \notin o =>
       /\ q.step = "write" /\ q.op = "orgUpdate" /\ q.user = owner => q.role = "OWNER"
       /\ q.step = "remove" /\ q.op \in OrgOps => owner \notin q.who
       /\ q.step = "write" /\ q.op = "transfer" /\ q.role = "OWNER" => org[q.user] = "OWNER"
  /\ q.step = "write" /\ q.op = "transfer" => q.actor # q.user

\* How far an uninterrupted change of somebody else's role has got.
HasRole(q, w) ==
  /\ ws[q.user][w] = q.role
  /\ q.role \in High => \A p \in ProjectsOf(w) : prj[q.user][p] # "NONE"
Reached(q, k) ==
  /\ org[q.user] = q.role
  /\ \A w \in Workspaces :
       /\ k[w] = "none" => HasRole(q, w)
       /\ k[w] = "projects" => ws[q.user][w] = q.role
       /\ k[w] \in {"check", "insert"} => ws[q.user][w] = "NONE"
Uninterrupted(q, k, g, o) ==
  o = {} =>
    /\ q.step # "idle" => g = {}
    /\ q.step \in {"write", "spread"} /\ q.op = "orgUpdate" /\ q.user # q.actor =>
         /\ q.actor \in SuperAdmins \/ q.actor = owner \/ org[q.actor] \in High
         /\ q.step = "spread" => Reached(q, k)

MemberRequestOK(q, k, g, o) ==
  MemberShape(q, k) /\ Found(q, k, g) /\ OwnerFound(q, o) /\ Uninterrupted(q, k, g, o)

MembersInv == MemberTyped /\ \A r \in Requests : MemberRequestOK(req[r], work[r], gone[r], over[r])

-----------------------------------------------------------------------------
LEMMA MemberIdleType ==
  /\ Idle \in MemberRequestType /\ Idle.step = "idle"
  /\ NoWork \in [Workspaces -> Stages] /\ \A w \in Workspaces : NoWork[w] = "none"
BY FounderAssumption DEF Idle, MemberRequestType, Row, Roles, Ops, OrgOps, WsOps, PrjOps, Places, NoWork, Stages

LEMMA MemberRestingOK ==
  ASSUME NEW q, q.step = "idle", NEW k, \A w \in Workspaces : k[w] = "none", NEW g, NEW o
  PROVE  MemberRequestOK(q, k, g, o)
BY DEF MemberRequestOK, MemberShape, Found, OwnerFound, Uninterrupted

LEMMA InitMembersInv == Init => MembersInv
<1> SUFFICES ASSUME Init PROVE MembersInv
  OBVIOUS
<1>1. MemberTyped
  BY MemberIdleType, FounderAssumption DEF Init, MemberTyped, MembersTyped, Row, Roles
<1>2. \A r \in Requests : req[r] = Idle /\ work[r] = NoWork
  BY DEF Init
<1> QED
  BY <1>1, <1>2, MemberIdleType, MemberRestingOK DEF MembersInv

\* A request of which nothing else is known than that rows it holds, when they
\* are deleted, are among the gone.
LEMMA OthersKeep ==
  ASSUME MemberTyped, MembersTyped',
         NEW q \in MemberRequestType, NEW k \in [Workspaces -> Stages], NEW g, NEW o, NEW g2, NEW o2,
         MemberRequestOK(q, k, g, o), q.step # "idle",
         g \subseteq g2, o \subseteq o2,
         \A u \in q.who : org[u] # "NONE" /\ org'[u] = "NONE" => <<u, "org">> \in g2,
         \A u \in q.who, w \in Workspaces : ws[u][w] # "NONE" /\ ws'[u][w] = "NONE" => <<u, w>> \in g2,
         \A u \in q.who, p \in Projects : prj[u][p] # "NONE" /\ prj'[u][p] = "NONE" => <<u, p>> \in g2,
         owner' # owner \/ org' # org => "org" \in o2,
         o2 = {} => UNCHANGED members /\ g2 = g
  PROVE  MemberRequestOK(q, k, g2, o2)'
<1>1. MemberShape(q, k) /\ MemberShape(q, k)'
  BY DEF MemberRequestOK, MemberShape
<1>2. Found(q, k, g2)'
  <2>1. ASSUME NEW w \in Workspaces, k[w] # "none"
        PROVE  /\ k[w] \in {"insert", "projects"} => org'[q.user] # "NONE" \/ <<q.user, "org">> \in g2
               /\ k[w] = "update" => ws'[q.user][w] # "NONE" \/ <<q.user, w>> \in g2
    <3>1. q.step = "spread" /\ q.user \in q.who
      BY <1>1, <2>1 DEF MemberShape
    <3>2. Found(q, k, g)
      BY DEF MemberRequestOK
    <3> QED
      BY <3>1, <3>2 DEF Found
  <2>2. q.step = "write" => q.user \in q.who
    BY <1>1 DEF MemberShape
  <2>3. ASSUME q.step = "write", q.op = "prjAdd"
        PROVE  \/ org'[q.user] # "NONE" \/ ws'[q.user][WorkspaceOf[q.at]] # "NONE"
               \/ \E d \in g2 : d[1] = q.user
    <3>1. WorkspaceOf[q.at] \in Workspaces
      BY <1>1, <2>3, ProjectsAssumption DEF MemberShape
    <3>2. \/ org[q.user] # "NONE" \/ ws[q.user][WorkspaceOf[q.at]] # "NONE"
          \/ \E d \in g : d[1] = q.user
      BY <2>3 DEF MemberRequestOK, Found
    <3>3. /\ <<q.user, "org">>[1] = q.user
          /\ <<q.user, WorkspaceOf[q.at]>>[1] = q.user
      OBVIOUS
    <3> QED
      BY <2>2, <2>3, <3>1, <3>2, <3>3
  <2>4. ASSUME q.step = "write", q.op = "prjUpdate"
        PROVE  prj'[q.user][q.at] # "NONE" \/ <<q.user, q.at>> \in g2
    <3>1. q.at \in Projects
      BY <1>1, <2>4 DEF MemberShape
    <3>2. prj[q.user][q.at] # "NONE" \/ <<q.user, q.at>> \in g
      BY <2>4 DEF MemberRequestOK, Found
    <3> QED
      BY <2>2, <2>4, <3>1, <3>2
  <2>5. \A w \in Workspaces :
          /\ k[w] \in {"insert", "projects"} => org'[q.user] # "NONE" \/ <<q.user, "org">> \in g2
          /\ k[w] = "update" => ws'[q.user][w] # "NONE" \/ <<q.user, w>> \in g2
    BY <2>1
  <2> QED
    BY <2>3, <2>4, <2>5 DEF Found
<1>3. OwnerFound(q, o2)'
  <2>1. OwnerFound(q, o)
    BY DEF MemberRequestOK
  <2> QED
    BY <2>1 DEF OwnerFound
<1>4. Uninterrupted(q, k, g2, o2)'
  <2> SUFFICES ASSUME o2 = {} PROVE Uninterrupted(q, k, g2, {})'
    BY DEF Uninterrupted
  <2>1. o = {} /\ g2 = g /\ org' = org /\ ws' = ws /\ prj' = prj /\ owner' = owner
    BY DEF members
  <2>2. Uninterrupted(q, k, g, o)
    BY DEF MemberRequestOK
  <2> QED
    BY <2>1, <2>2 DEF Uninterrupted, Reached, HasRole
<1> QED
  BY <1>1, <1>2, <1>3, <1>4 DEF MemberRequestOK

\* A step of r which leaves the members as they are.
LEMMA LookingKeepsMembersInv ==
  ASSUME MembersInv, NEW r \in Requests, UNCHANGED members,
         NEW x \in MemberRequestType, NEW y \in [Workspaces -> Stages],
         NEW g \in SUBSET (Users \X Places), NEW o \in SUBSET {"org", "member"},
         req' = [req EXCEPT ![r] = x], work' = [work EXCEPT ![r] = y],
         gone' = [gone EXCEPT ![r] = g], over' = [over EXCEPT ![r] = o],
         MemberRequestOK(x, y, g, o)
  PROVE  MembersInv'
<1>1. MemberTyped'
  BY DEF MembersInv, MemberTyped, MembersTyped, members
<1>2. \A q, k, h, p : MemberRequestOK(q, k, h, p)' <=> MemberRequestOK(q, k, h, p)
  BY DEF members, MemberRequestOK, MemberShape, Found, OwnerFound, Uninterrupted, Reached, HasRole
<1>3. ASSUME NEW s \in Requests PROVE MemberRequestOK(req[s], work[s], gone[s], over[s])'
  <2>1. PICK q, k, h, p : q = req'[s] /\ k = work'[s] /\ h = gone'[s] /\ p = over'[s]
    OBVIOUS
  <2>2. MemberRequestOK(q, k, h, p)
    BY <2>1 DEF MembersInv, MemberTyped
  <2> QED
    BY <1>2, <2>1, <2>2
<1> QED
  BY <1>1, <1>3 DEF MembersInv

\* A step of r which writes the tables of members.
LEMMA WritingKeepsMembersInv ==
  ASSUME MembersInv, NEW r \in Requests, MembersTyped',
         NEW x \in MemberRequestType, NEW y \in [Workspaces -> Stages],
         NEW kind \in {"org", "member"}, NEW del \in SUBSET (Users \X Places),
         req' = [req EXCEPT ![r] = x], work' = [work EXCEPT ![r] = y],
         Wrote(r, kind, del),
         \A u \in Users : org[u] # "NONE" /\ org'[u] = "NONE" => <<u, "org">> \in del,
         \A u \in Users, w \in Workspaces :
           ws[u][w] # "NONE" /\ ws'[u][w] = "NONE" => <<u, w>> \in del,
         \A u \in Users, p \in Projects :
           prj[u][p] # "NONE" /\ prj'[u][p] = "NONE" => <<u, p>> \in del,
         owner' # owner \/ org' # org => kind = "org",
         x.step = "idle" => \A w \in Workspaces : y[w] = "none",
         NEW g, NEW o, g = gone[r], o = over[r],
         x.step # "idle" => MemberRequestOK(x, y, g, o)'
  PROVE  MembersInv'
<1>1. /\ req \in [Requests -> MemberRequestType] /\ work \in [Requests -> [Workspaces -> Stages]]
      /\ gone \in [Requests -> SUBSET (Users \X Places)]
      /\ over \in [Requests -> SUBSET {"org", "member"}]
  BY DEF MembersInv, MemberTyped
<1>2. /\ req'[r] = x /\ work'[r] = y
      /\ \A s \in Requests \ {r} : req'[s] = req[s] /\ work'[s] = work[s]
  BY <1>1
<1>3. /\ over' = [s \in Requests |-> over'[s]] /\ gone' = [s \in Requests |-> gone'[s]]
      /\ \A s \in Requests : req'[s].step = "idle" => over'[s] = {} /\ gone'[s] = {}
      /\ x.step # "idle" => over'[r] = o /\ gone'[r] = g
      /\ \A s \in Requests \ {r} : req[s].step # "idle" =>
           /\ over'[s] = over[s] \union {kind}
           /\ gone'[s] = gone[s] \union {d \in del : d[1] \in req[s].who}
  BY <1>2 DEF Wrote, Active
<1>4. MemberTyped'
  <2>1. \A s \in Requests : over'[s] \in SUBSET {"org", "member"} /\ gone'[s] \in SUBSET (Users \X Places)
    BY <1>1, <1>2, <1>3
  <2>2. over' \in [Requests -> SUBSET {"org", "member"}] /\ gone' \in [Requests -> SUBSET (Users \X Places)]
    BY <1>3, <2>1
  <2> QED
    BY <1>1, <2>2 DEF MemberTyped
<1>5. ASSUME NEW s \in Requests PROVE MemberRequestOK(req[s], work[s], gone[s], over[s])'
  <2>1. PICK q \in MemberRequestType, k \in [Workspaces -> Stages] : q = req'[s] /\ k = work'[s]
    BY <1>1, <1>2
  <2>2. PICK h, p : h = gone'[s] /\ p = over'[s]
    OBVIOUS
  <2>3. q = req'[s] /\ k = work'[s] /\ h = gone'[s] /\ p = over'[s]
    BY <2>1, <2>2
  <2>4. CASE s = r
    <3>1. CASE x.step = "idle"
      <4>1. MemberRequestOK(q, k, h, p)'
        BY <1>2, <2>3, <2>4, <3>1 DEF MemberRequestOK, MemberShape, Found, OwnerFound, Uninterrupted
      <4> QED
        BY <2>3, <4>1
    <3>2. CASE x.step # "idle"
      BY <1>2, <1>3, <2>3, <2>4, <3>2
    <3> QED
      BY <3>1, <3>2
  <2>5. CASE s # r /\ req[s].step = "idle"
    <3>1. \A w \in Workspaces : k[w] = "none"
      BY <1>2, <2>3, <2>5 DEF MembersInv, MemberRequestOK, MemberShape
    <3>2. MemberRequestOK(q, k, h, p)'
      BY <1>2, <2>3, <2>5, <3>1 DEF MemberRequestOK, MemberShape, Found, OwnerFound, Uninterrupted
    <3> QED
      BY <2>3, <3>2
  <2>6. CASE s # r /\ req[s].step # "idle"
    <3>1. PICK g1, o1 : g1 = gone[s] /\ o1 = over[s]
      OBVIOUS
    <3>2. q = req[s] /\ k = work[s] /\ MemberRequestOK(q, k, g1, o1) /\ q.step # "idle"
      BY <1>2, <2>3, <2>6, <3>1 DEF MembersInv
    <3>3. p = o1 \union {kind} /\ h = g1 \union {d \in del : d[1] \in q.who}
      BY <1>3, <2>3, <2>6, <3>1, <3>2
    <3>4. /\ \A u \in q.who : u \in Users
          /\ \A u, v : <<u, v>>[1] = u
      BY DEF MemberRequestType
    <3>5. /\ \A u \in q.who : org[u] # "NONE" /\ org'[u] = "NONE" => <<u, "org">> \in h
          /\ \A u \in q.who, w \in Workspaces :
               ws[u][w] # "NONE" /\ ws'[u][w] = "NONE" => <<u, w>> \in h
          /\ \A u \in q.who, m \in Projects :
               prj[u][m] # "NONE" /\ prj'[u][m] = "NONE" => <<u, m>> \in h
      BY <3>3, <3>4
    <3>6. /\ g1 \subseteq h /\ o1 \subseteq p /\ p # {}
          /\ owner' # owner \/ org' # org => "org" \in p
      BY <3>3
    <3>7. MemberRequestOK(q, k, h, p)'
      BY <3>2, <3>5, <3>6, OthersKeep DEF MembersInv
    <3> QED
      BY <2>3, <3>7
  <2> QED
    BY <2>4, <2>5, <2>6
<1> QED
  BY <1>4, <1>5 DEF MembersInv

-----------------------------------------------------------------------------
\* A request that begins: its checks are what RequestOK says of it.
MemberFresh(op, actor, who, u, role, at, step) ==
  [Idle EXCEPT !.step = step, !.op = op, !.actor = actor, !.user = u, !.who = who,
               !.role = role, !.at = at]

LEMMA MemberFreshType ==
  ASSUME NEW op \in Ops, NEW actor \in Users, NEW who \in SUBSET Users, NEW u \in Users,
         NEW role \in Row, NEW at \in Places, NEW step \in {"write", "spread", "remove"},
         NEW x, x = MemberFresh(op, actor, who, u, role, at, step)
  PROVE  /\ x \in MemberRequestType /\ x.step = step /\ x.op = op /\ x.actor = actor /\ x.who = who
         /\ x.user = u /\ x.role = role /\ x.at = at
BY MemberIdleType DEF MemberFresh, MemberRequestType

LEMMA BeginKeepsMembersInv ==
  ASSUME MembersInv, NEW r \in Requests, NEW x \in MemberRequestType, NEW y \in [Workspaces -> Stages],
         req' = [req EXCEPT ![r] = x], work' = [work EXCEPT ![r] = y],
         gone' = [gone EXCEPT ![r] = {}], over' = [over EXCEPT ![r] = {}],
         UNCHANGED members, MemberRequestOK(x, y, {}, {})
  PROVE  MembersInv'
BY LookingKeepsMembersInv

LEMMA MemberRestingWork ==
  ASSUME MembersInv, NEW r \in Requests, req[r].step # "spread"
  PROVE  /\ work[r] \in [Workspaces -> Stages] /\ \A w \in Workspaces : work[r][w] = "none"
         /\ work = [work EXCEPT ![r] = work[r]]
BY DEF MembersInv, MemberTyped, MemberRequestOK, MemberShape

LEMMA MemberPlacement ==
  /\ "org" \in Places /\ Workspaces \subseteq Places /\ Projects \subseteq Places
  /\ Roles \subseteq Row /\ High \subseteq Roles /\ "OWNER" \in Roles /\ "MEMBER" \in Roles
  /\ \A r : Assignable(r) \subseteq Roles
BY DEF Places, Row, Roles, High, Assignable

LEMMA AskOrgAddKeepsMembersInv == ASSUME MembersInv, NEW r \in Requests, AskOrgAdd(r) PROVE MembersInv'
<1>1. PICK a \in Users, u \in Users, role \in Assignable(r) :
        Begin(r, "orgAdd", a, {u}, u, role, "org", "write") /\ UNCHANGED work
  BY DEF AskOrgAdd
<1>2. PICK x : x = MemberFresh("orgAdd", a, {u}, u, role, "org", "write")
  OBVIOUS
<1>3. /\ x \in MemberRequestType /\ x.step = "write" /\ x.op = "orgAdd" /\ x.who = {u}
      /\ x.user = u /\ x.role = role
  <2>1. "orgAdd" \in Ops /\ {u} \in SUBSET Users /\ role \in Row /\ "org" \in Places
    BY MemberPlacement DEF Ops, OrgOps
  <2> QED
    BY <1>2, <2>1, MemberFreshType
<1>4. PICK y : y = work[r]
  OBVIOUS
<1>5. /\ req[r].step = "idle" /\ req' = [req EXCEPT ![r] = x] /\ gone' = [gone EXCEPT ![r] = {}]
      /\ over' = [over EXCEPT ![r] = {}] /\ UNCHANGED members
  BY <1>1, <1>2 DEF Begin, MemberFresh
<1>6. y \in [Workspaces -> Stages] /\ (\A w \in Workspaces : y[w] = "none") /\ work' = [work EXCEPT ![r] = y]
  BY <1>1, <1>4, <1>5, MemberRestingWork
<1>7. MemberRequestOK(x, y, {}, {})
  BY <1>3, <1>6, MemberPlacement DEF MemberRequestOK, MemberShape, Found, OwnerFound, Uninterrupted
<1> QED
  BY <1>3, <1>5, <1>6, <1>7, BeginKeepsMembersInv

LEMMA AskOrgUpdateKeepsMembersInv == ASSUME MembersInv, NEW r \in Requests, AskOrgUpdate(r) PROVE MembersInv'
<1>1. PICK a \in Users, u \in Users, role \in Assignable(r) :
        /\ MayAssign(a, role) /\ (u = owner => role = "OWNER")
        /\ Begin(r, "orgUpdate", a, {u}, u, role, "org", "write") /\ UNCHANGED work
  BY DEF AskOrgUpdate
<1>2. PICK x : x = MemberFresh("orgUpdate", a, {u}, u, role, "org", "write")
  OBVIOUS
<1>3. /\ x \in MemberRequestType /\ x.step = "write" /\ x.op = "orgUpdate" /\ x.who = {u}
      /\ x.user = u /\ x.role = role /\ x.actor = a
  <2>1. "orgUpdate" \in Ops /\ {u} \in SUBSET Users /\ role \in Row /\ "org" \in Places
    BY MemberPlacement DEF Ops, OrgOps
  <2> QED
    BY <1>2, <2>1, MemberFreshType
<1>4. PICK y : y = work[r]
  OBVIOUS
<1>5. /\ req[r].step = "idle" /\ req' = [req EXCEPT ![r] = x] /\ gone' = [gone EXCEPT ![r] = {}]
      /\ over' = [over EXCEPT ![r] = {}] /\ UNCHANGED members
  BY <1>1, <1>2 DEF Begin, MemberFresh
<1>6. y \in [Workspaces -> Stages] /\ (\A w \in Workspaces : y[w] = "none") /\ work' = [work EXCEPT ![r] = y]
  BY <1>1, <1>4, <1>5, MemberRestingWork
<1>7. MemberShape(x, y) /\ Found(x, y, {})
  BY <1>3, <1>6, MemberPlacement DEF MemberShape, Found
<1>8. OwnerFound(x, {})
  BY <1>1, <1>3 DEF OwnerFound
<1>9. Uninterrupted(x, y, {}, {})
  BY <1>1, <1>3 DEF Uninterrupted, MayAssign, OrgManager
<1> QED
  BY <1>3, <1>5, <1>6, <1>7, <1>8, <1>9, BeginKeepsMembersInv DEF MemberRequestOK

LEMMA AskOrgRemoveKeepsMembersInv == ASSUME MembersInv, NEW r \in Requests, AskOrgRemove(r) PROVE MembersInv'
<1>1. PICK a \in Users, who \in SUBSET Users, op \in {"orgRemove", "orgBulkRemove"} :
        /\ \A u \in who : u # owner
        /\ Begin(r, op, a, who, a, "MEMBER", "org", "remove") /\ UNCHANGED work
  BY DEF AskOrgRemove
<1>2. PICK x : x = MemberFresh(op, a, who, a, "MEMBER", "org", "remove")
  OBVIOUS
<1>3. x \in MemberRequestType /\ x.step = "remove" /\ x.op = op /\ x.who = who
  <2>1. op \in Ops /\ "MEMBER" \in Row /\ "org" \in Places
    BY MemberPlacement DEF Ops, OrgOps
  <2> QED
    BY <1>2, <2>1, MemberFreshType
<1>4. PICK y : y = work[r]
  OBVIOUS
<1>5. /\ req[r].step = "idle" /\ req' = [req EXCEPT ![r] = x] /\ gone' = [gone EXCEPT ![r] = {}]
      /\ over' = [over EXCEPT ![r] = {}] /\ UNCHANGED members
  BY <1>1, <1>2 DEF Begin, MemberFresh
<1>6. y \in [Workspaces -> Stages] /\ (\A w \in Workspaces : y[w] = "none") /\ work' = [work EXCEPT ![r] = y]
  BY <1>1, <1>4, <1>5, MemberRestingWork
<1>7. MemberRequestOK(x, y, {}, {})
  BY <1>1, <1>3, <1>6 DEF MemberRequestOK, MemberShape, Found, OwnerFound, Uninterrupted
<1> QED
  BY <1>3, <1>5, <1>6, <1>7, BeginKeepsMembersInv

LEMMA AskTransferKeepsMembersInv == ASSUME MembersInv, NEW r \in Requests, AskTransfer(r) PROVE MembersInv'
<1>1. PICK u \in Users \ {owner} :
        Begin(r, "transfer", owner, {u}, u, org[u], "org", "write") /\ UNCHANGED work
  BY DEF AskTransfer
<1>2. PICK x, a, role : x = MemberFresh("transfer", a, {u}, u, role, "org", "write") /\ a = owner /\ role = org[u]
  OBVIOUS
<1>3. a \in Users /\ a # u /\ role \in Row
  BY <1>1, <1>2 DEF MembersInv, MemberTyped, MembersTyped
<1>4. /\ x \in MemberRequestType /\ x.step = "write" /\ x.op = "transfer" /\ x.who = {u}
      /\ x.user = u /\ x.role = role /\ x.actor = a
  BY <1>2, <1>3, MemberFreshType, MemberPlacement DEF Ops
<1>5. PICK y : y = work[r]
  OBVIOUS
<1>6. /\ req[r].step = "idle" /\ req' = [req EXCEPT ![r] = x] /\ gone' = [gone EXCEPT ![r] = {}]
      /\ over' = [over EXCEPT ![r] = {}] /\ UNCHANGED members
  BY <1>1, <1>2 DEF Begin, MemberFresh
<1>7. y \in [Workspaces -> Stages] /\ (\A w \in Workspaces : y[w] = "none") /\ work' = [work EXCEPT ![r] = y]
  BY <1>1, <1>5, <1>6, MemberRestingWork
<1>8. MemberRequestOK(x, y, {}, {})
  BY <1>2, <1>3, <1>4, <1>7 DEF MemberRequestOK, MemberShape, Found, OwnerFound, Uninterrupted
<1> QED
  BY <1>4, <1>6, <1>7, <1>8, BeginKeepsMembersInv

LEMMA AskWsAddKeepsMembersInv == ASSUME MembersInv, NEW r \in Requests, AskWsAdd(r) PROVE MembersInv'
<1>1. PICK a \in Users, u \in Users, w \in Workspaces, role \in Assignable(r) :
        /\ Begin(r, "wsAdd", a, {u}, u, role, w, "spread")
        /\ work' = [work EXCEPT ![r][w] = "check"]
  BY DEF AskWsAdd
<1>2. PICK x : x = MemberFresh("wsAdd", a, {u}, u, role, w, "spread")
  OBVIOUS
<1>3. /\ x \in MemberRequestType /\ x.step = "spread" /\ x.op = "wsAdd" /\ x.who = {u}
      /\ x.user = u /\ x.role = role
  <2>1. "wsAdd" \in Ops /\ {u} \in SUBSET Users /\ role \in Row /\ w \in Places
    BY MemberPlacement DEF Ops, WsOps
  <2> QED
    BY <1>2, <2>1, MemberFreshType
<1>4. PICK y : y = [work[r] EXCEPT ![w] = "check"]
  OBVIOUS
<1>5. /\ req[r].step = "idle" /\ req' = [req EXCEPT ![r] = x] /\ gone' = [gone EXCEPT ![r] = {}]
      /\ over' = [over EXCEPT ![r] = {}] /\ UNCHANGED members
  BY <1>1, <1>2 DEF Begin, MemberFresh
<1>6. /\ y \in [Workspaces -> Stages] /\ y[w] = "check" /\ \A v \in Workspaces \ {w} : y[v] = "none"
      /\ work' = [work EXCEPT ![r] = y]
  BY <1>1, <1>4, <1>5, MemberRestingWork DEF Stages
<1>7. MemberRequestOK(x, y, {}, {})
  BY <1>3, <1>6, MemberPlacement DEF MemberRequestOK, MemberShape, Found, OwnerFound, Uninterrupted
<1> QED
  BY <1>3, <1>5, <1>6, <1>7, BeginKeepsMembersInv

LEMMA AskWsUpdateKeepsMembersInv == ASSUME MembersInv, NEW r \in Requests, AskWsUpdate(r) PROVE MembersInv'
<1>1. PICK a \in Users, u \in Users, w \in Workspaces, role \in Assignable(r) :
        /\ ws[u][w] # "NONE" /\ MayManage(a, w, role)
        /\ Begin(r, "wsUpdate", a, {u}, u, role, w, "spread")
        /\ work' = [work EXCEPT ![r][w] = "update"]
  BY DEF AskWsUpdate
<1>2. PICK x : x = MemberFresh("wsUpdate", a, {u}, u, role, w, "spread")
  OBVIOUS
<1>3. /\ x \in MemberRequestType /\ x.step = "spread" /\ x.op = "wsUpdate" /\ x.who = {u}
      /\ x.user = u /\ x.role = role
  <2>1. "wsUpdate" \in Ops /\ {u} \in SUBSET Users /\ role \in Row /\ w \in Places
    BY MemberPlacement DEF Ops, WsOps
  <2> QED
    BY <1>2, <2>1, MemberFreshType
<1>4. PICK y : y = [work[r] EXCEPT ![w] = "update"]
  OBVIOUS
<1>5. /\ req[r].step = "idle" /\ req' = [req EXCEPT ![r] = x] /\ gone' = [gone EXCEPT ![r] = {}]
      /\ over' = [over EXCEPT ![r] = {}] /\ UNCHANGED members
  BY <1>1, <1>2 DEF Begin, MemberFresh
<1>6. /\ y \in [Workspaces -> Stages] /\ y[w] = "update" /\ \A v \in Workspaces \ {w} : y[v] = "none"
      /\ work' = [work EXCEPT ![r] = y]
  BY <1>1, <1>4, <1>5, MemberRestingWork DEF Stages
<1>7. MemberRequestOK(x, y, {}, {})
  BY <1>1, <1>3, <1>6, MemberPlacement DEF MemberRequestOK, MemberShape, Found, OwnerFound, Uninterrupted
<1> QED
  BY <1>3, <1>5, <1>6, <1>7, BeginKeepsMembersInv

LEMMA AskWsRemoveKeepsMembersInv == ASSUME MembersInv, NEW r \in Requests, AskWsRemove(r) PROVE MembersInv'
<1>1. PICK a \in Users, who \in SUBSET Users, w \in Workspaces, op \in {"wsRemove", "wsBulkRemove"} :
        Begin(r, op, a, who, a, "MEMBER", w, "remove") /\ UNCHANGED work
  BY DEF AskWsRemove
<1>2. PICK x : x = MemberFresh(op, a, who, a, "MEMBER", w, "remove")
  OBVIOUS
<1>3. x \in MemberRequestType /\ x.step = "remove" /\ x.op = op /\ x.who = who
  <2>1. op \in Ops /\ "MEMBER" \in Row /\ w \in Places
    BY MemberPlacement DEF Ops, WsOps
  <2> QED
    BY <1>2, <2>1, MemberFreshType
<1>4. PICK y : y = work[r]
  OBVIOUS
<1>5. /\ req[r].step = "idle" /\ req' = [req EXCEPT ![r] = x] /\ gone' = [gone EXCEPT ![r] = {}]
      /\ over' = [over EXCEPT ![r] = {}] /\ UNCHANGED members
  BY <1>1, <1>2 DEF Begin, MemberFresh
<1>6. y \in [Workspaces -> Stages] /\ (\A v \in Workspaces : y[v] = "none") /\ work' = [work EXCEPT ![r] = y]
  BY <1>1, <1>4, <1>5, MemberRestingWork
<1>7. MemberRequestOK(x, y, {}, {})
  BY <1>3, <1>6 DEF MemberRequestOK, MemberShape, Found, OwnerFound, Uninterrupted, OrgOps
<1> QED
  BY <1>3, <1>5, <1>6, <1>7, BeginKeepsMembersInv

LEMMA AskPrjAddKeepsMembersInv == ASSUME MembersInv, NEW r \in Requests, AskPrjAdd(r) PROVE MembersInv'
<1>1. PICK a \in Users, u \in Users, p \in Projects, role \in Assignable(r) :
        /\ org[u] # "NONE" \/ ws[u][WorkspaceOf[p]] # "NONE"
        /\ Begin(r, "prjAdd", a, {u}, u, role, p, "write") /\ UNCHANGED work
  BY DEF AskPrjAdd
<1>2. PICK x : x = MemberFresh("prjAdd", a, {u}, u, role, p, "write")
  OBVIOUS
<1>3. /\ x \in MemberRequestType /\ x.step = "write" /\ x.op = "prjAdd" /\ x.who = {u}
      /\ x.user = u /\ x.role = role /\ x.at = p
  <2>1. "prjAdd" \in Ops /\ {u} \in SUBSET Users /\ role \in Row /\ p \in Places
    BY MemberPlacement DEF Ops, PrjOps
  <2> QED
    BY <1>2, <2>1, MemberFreshType
<1>4. PICK y : y = work[r]
  OBVIOUS
<1>5. /\ req[r].step = "idle" /\ req' = [req EXCEPT ![r] = x] /\ gone' = [gone EXCEPT ![r] = {}]
      /\ over' = [over EXCEPT ![r] = {}] /\ UNCHANGED members
  BY <1>1, <1>2 DEF Begin, MemberFresh
<1>6. y \in [Workspaces -> Stages] /\ (\A w \in Workspaces : y[w] = "none") /\ work' = [work EXCEPT ![r] = y]
  BY <1>1, <1>4, <1>5, MemberRestingWork
<1>7. MemberRequestOK(x, y, {}, {})
  BY <1>1, <1>3, <1>6, MemberPlacement DEF MemberRequestOK, MemberShape, Found, OwnerFound, Uninterrupted
<1> QED
  BY <1>3, <1>5, <1>6, <1>7, BeginKeepsMembersInv

LEMMA AskPrjUpdateKeepsMembersInv == ASSUME MembersInv, NEW r \in Requests, AskPrjUpdate(r) PROVE MembersInv'
<1>1. PICK a \in Users, u \in Users, p \in Projects, role \in Assignable(r) :
        /\ prj[u][p] # "NONE"
        /\ Begin(r, "prjUpdate", a, {u}, u, role, p, "write") /\ UNCHANGED work
  BY DEF AskPrjUpdate
<1>2. PICK x : x = MemberFresh("prjUpdate", a, {u}, u, role, p, "write")
  OBVIOUS
<1>3. /\ x \in MemberRequestType /\ x.step = "write" /\ x.op = "prjUpdate" /\ x.who = {u}
      /\ x.user = u /\ x.role = role /\ x.at = p
  <2>1. "prjUpdate" \in Ops /\ {u} \in SUBSET Users /\ role \in Row /\ p \in Places
    BY MemberPlacement DEF Ops, PrjOps
  <2> QED
    BY <1>2, <2>1, MemberFreshType
<1>4. PICK y : y = work[r]
  OBVIOUS
<1>5. /\ req[r].step = "idle" /\ req' = [req EXCEPT ![r] = x] /\ gone' = [gone EXCEPT ![r] = {}]
      /\ over' = [over EXCEPT ![r] = {}] /\ UNCHANGED members
  BY <1>1, <1>2 DEF Begin, MemberFresh
<1>6. y \in [Workspaces -> Stages] /\ (\A w \in Workspaces : y[w] = "none") /\ work' = [work EXCEPT ![r] = y]
  BY <1>1, <1>4, <1>5, MemberRestingWork
<1>7. MemberRequestOK(x, y, {}, {})
  BY <1>1, <1>3, <1>6, MemberPlacement DEF MemberRequestOK, MemberShape, Found, OwnerFound, Uninterrupted
<1> QED
  BY <1>3, <1>5, <1>6, <1>7, BeginKeepsMembersInv

LEMMA AskPrjRemoveKeepsMembersInv == ASSUME MembersInv, NEW r \in Requests, AskPrjRemove(r) PROVE MembersInv'
<1>1. PICK a \in Users, who \in SUBSET Users, p \in Projects, op \in {"prjRemove", "prjBulkRemove"} :
        Begin(r, op, a, who, a, "MEMBER", p, "remove") /\ UNCHANGED work
  BY DEF AskPrjRemove
<1>2. PICK x : x = MemberFresh(op, a, who, a, "MEMBER", p, "remove")
  OBVIOUS
<1>3. x \in MemberRequestType /\ x.step = "remove" /\ x.op = op /\ x.who = who
  <2>1. op \in Ops /\ who \in SUBSET Users /\ "MEMBER" \in Row /\ p \in Places
    BY MemberPlacement DEF Ops, PrjOps
  <2> QED
    BY <1>2, <2>1, MemberFreshType
<1>4. PICK y : y = work[r]
  OBVIOUS
<1>5. /\ req[r].step = "idle" /\ req' = [req EXCEPT ![r] = x] /\ gone' = [gone EXCEPT ![r] = {}]
      /\ over' = [over EXCEPT ![r] = {}] /\ UNCHANGED members
  BY <1>1, <1>2 DEF Begin, MemberFresh
<1>6. y \in [Workspaces -> Stages] /\ (\A v \in Workspaces : y[v] = "none") /\ work' = [work EXCEPT ![r] = y]
  BY <1>1, <1>4, <1>5, MemberRestingWork
<1>7. MemberRequestOK(x, y, {}, {})
  BY <1>3, <1>6 DEF MemberRequestOK, MemberShape, Found, OwnerFound, Uninterrupted, OrgOps
<1> QED
  BY <1>3, <1>5, <1>6, <1>7, BeginKeepsMembersInv

-----------------------------------------------------------------------------
\* The requests' other steps.

\* The roles that are written are roles, and only a spreading one has work.
LEMMA MemberActing ==
  ASSUME MembersInv, NEW r \in Requests
  PROVE  /\ req[r] \in MemberRequestType /\ work[r] \in [Workspaces -> Stages]
         /\ gone[r] \in SUBSET (Users \X Places) /\ over[r] \in SUBSET {"org", "member"}
         /\ MemberRequestOK(req[r], work[r], gone[r], over[r])
BY DEF MembersInv, MemberTyped

LEMMA FailKeepsMembersInv ==
  ASSUME MembersInv, NEW r \in Requests, req[r].step # "spread", Fail(r)
  PROVE  MembersInv'
<1>1. PICK x, y : x = Idle /\ y = work[r]
  OBVIOUS
<1>2. /\ x \in MemberRequestType /\ x.step = "idle" /\ y \in [Workspaces -> Stages]
      /\ (\A w \in Workspaces : y[w] = "none") /\ work' = [work EXCEPT ![r] = y]
  BY <1>1, MemberIdleType, MemberRestingWork DEF Fail
<1>3. /\ req' = [req EXCEPT ![r] = x] /\ gone' = [gone EXCEPT ![r] = {}]
      /\ over' = [over EXCEPT ![r] = {}] /\ UNCHANGED members
  BY <1>1 DEF Fail, Finish
<1> QED
  BY <1>2, <1>3, MemberRestingOK, LookingKeepsMembersInv

LEMMA FinishKeepsMembersInv ==
  ASSUME MembersInv, NEW r \in Requests, req[r].step # "spread", MembersTyped',
         NEW kind \in {"org", "member"}, NEW del \in SUBSET (Users \X Places),
         Finish(r), Wrote(r, kind, del), UNCHANGED work,
         \A u \in Users : org[u] # "NONE" /\ org'[u] = "NONE" => <<u, "org">> \in del,
         \A u \in Users, w \in Workspaces :
           ws[u][w] # "NONE" /\ ws'[u][w] = "NONE" => <<u, w>> \in del,
         \A u \in Users, p \in Projects :
           prj[u][p] # "NONE" /\ prj'[u][p] = "NONE" => <<u, p>> \in del,
         owner' # owner \/ org' # org => kind = "org"
  PROVE  MembersInv'
<1>1. PICK x, y, g, o : x = Idle /\ y = work[r] /\ g = gone[r] /\ o = over[r]
  OBVIOUS
<1>2. /\ x \in MemberRequestType /\ x.step = "idle" /\ y \in [Workspaces -> Stages]
      /\ (\A w \in Workspaces : y[w] = "none") /\ work' = [work EXCEPT ![r] = y]
  BY <1>1, MemberIdleType, MemberRestingWork
<1>3. req' = [req EXCEPT ![r] = x]
  BY <1>1 DEF Finish
<1>4. /\ x.step = "idle" => \A w \in Workspaces : y[w] = "none"
      /\ x.step # "idle" => MemberRequestOK(x, y, g, o)'
  BY <1>2
<1>5. g = gone[r] /\ o = over[r]
  BY <1>1
<1> HIDE <1>1
<1> QED
  BY ZenonT(30), <1>2, <1>3, <1>4, <1>5, WritingKeepsMembersInv

\* What Proceed leaves of the request: it is done, or goes on with its work.
After(r, w, stage, q, k, x, y) ==
  /\ req' = [req EXCEPT ![r] = x] /\ work' = [work EXCEPT ![r] = y]
  /\ y[w] = stage /\ \A v \in Workspaces \ {w} : y[v] = k[v]
  /\ \/ x.step = "idle" /\ \A v \in Workspaces : y[v] = "none"
     \/ /\ x.step = "spread" /\ ~ \A v \in Workspaces : y[v] = "none"
        /\ x.op = q.op /\ x.who = q.who /\ x.user = q.user /\ x.role = q.role /\ x.actor = q.actor

LEMMA MemberProceedEffect ==
  ASSUME MembersInv, NEW r \in Requests, NEW w \in Workspaces, NEW stage \in Stages,
         NEW ok \in BOOLEAN, work[r][w] # "none", Proceed(r, w, stage, ok)
  PROVE  \E x \in MemberRequestType, y \in [Workspaces -> Stages] :
           After(r, w, stage, req[r], work[r], x, y)
<1> USE DEF After
<1>1. req[r] \in MemberRequestType /\ work[r] \in [Workspaces -> Stages] /\ req[r].step = "spread"
  BY MemberActing DEF MemberRequestOK, MemberShape
<1>2. PICK y : y = [work[r] EXCEPT ![w] = stage]
  OBVIOUS
<1>3. /\ y \in [Workspaces -> Stages] /\ work' = [work EXCEPT ![r] = y]
      /\ y[w] = stage /\ \A v \in Workspaces \ {w} : y[v] = work[r][v]
  BY <1>1, <1>2 DEF Proceed
<1>4. work'[r] = y
  BY <1>3 DEF MembersInv, MemberTyped
<1>5. PICK all : all = (req[r].ok /\ ok)
  OBVIOUS
<1>6. req' = IF \A v \in Workspaces : y[v] = "none"
                THEN IF all THEN [req EXCEPT ![r].step = req[r].then] ELSE [req EXCEPT ![r] = Idle]
                ELSE [req EXCEPT ![r].ok = all]
  BY <1>4, <1>5 DEF Proceed
<1>7. req[r].ok \in BOOLEAN /\ req[r].then = "idle"
  BY <1>1 DEF MemberRequestType
<1>8. CASE (\A v \in Workspaces : y[v] = "none") /\ all
  <2>1. PICK x : x = [req[r] EXCEPT !.step = "idle"]
    OBVIOUS
  <2>2. x \in MemberRequestType /\ x.step = "idle"
    BY <1>1, <2>1 DEF MemberRequestType
  <2>3. req' = [req EXCEPT ![r] = x]
    BY <1>6, <1>7, <1>8, <2>1
  <2> QED
    BY <1>3, <1>8, <2>2, <2>3
<1>9. CASE (\A v \in Workspaces : y[v] = "none") /\ ~all
  BY <1>3, <1>6, <1>9, MemberIdleType
<1>10. CASE ~ \A v \in Workspaces : y[v] = "none"
  <2>1. PICK x : x = [req[r] EXCEPT !.ok = all]
    OBVIOUS
  <2>2. all \in BOOLEAN
    BY <1>5, <1>7
  <2>3. /\ x \in MemberRequestType /\ x.step = "spread"
        /\ x.op = req[r].op /\ x.who = req[r].who /\ x.user = req[r].user
        /\ x.role = req[r].role /\ x.actor = req[r].actor
    BY <1>1, <2>1, <2>2 DEF MemberRequestType
  <2>4. req' = [req EXCEPT ![r] = x]
    BY <1>6, <1>10, <2>1
  <2> QED
    BY <1>3, <1>10, <2>3, <2>4
<1> QED
  BY <1>8, <1>9, <1>10

\* A workspace's write moves to a stage, or fails, without writing a member.
Moving(r, w, stage, q, k, g, o) ==
  /\ q = req[r] /\ k = work[r] /\ k[w] # "none" /\ UNCHANGED members
  /\ g \in SUBSET (Users \X Places) /\ o \in SUBSET {"org", "member"} /\ MemberRequestOK(q, k, g, o)
  /\ stage # "none" \/ Active(r) =>
       gone' = [gone EXCEPT ![r] = g] /\ over' = [over EXCEPT ![r] = o]
  /\ stage = "none" /\ ~Active(r) =>
       gone' = [gone EXCEPT ![r] = {}] /\ over' = [over EXCEPT ![r] = {}]
  /\ stage \in {"insert", "projects"} => org[q.user] # "NONE" \/ <<q.user, "org">> \in g
  /\ stage = "update" => ws[q.user][w] # "NONE" \/ <<q.user, w>> \in g
  /\ o = {} /\ q.op = "orgUpdate" /\ q.user # q.actor =>
       /\ stage \notin {"none", "projects"}
       /\ stage \in {"check", "insert"} => ws[q.user][w] = "NONE"

LEMMA StageKeepsMembersInv ==
  ASSUME MembersInv, NEW r \in Requests, NEW w \in Workspaces, NEW stage \in Stages, NEW ok \in BOOLEAN,
         Proceed(r, w, stage, ok), NEW q, NEW k, NEW g, NEW o, Moving(r, w, stage, q, k, g, o)
  PROVE  MembersInv'
<1> USE DEF Moving
<1>1. PICK x \in MemberRequestType, y \in [Workspaces -> Stages] : After(r, w, stage, q, k, x, y)
  BY MemberProceedEffect
<1> USE DEF After
<1>2. q.step = "spread" /\ (Active(r) <=> x.step # "idle")
  BY <1>1, MemberActing DEF MemberRequestOK, MemberShape, Active, MembersInv, MemberTyped
<1>3. CASE x.step = "idle"
  <2>1. gone' = [gone EXCEPT ![r] = {}] /\ over' = [over EXCEPT ![r] = {}]
    BY <1>1, <1>2, <1>3
  <2>2. MemberRequestOK(x, y, {}, {})
    BY <1>1, <1>3, MemberRestingOK
  <2> QED
    BY <1>1, <2>1, <2>2, LookingKeepsMembersInv
<1>4. CASE x.step # "idle"
  <2>1. gone' = [gone EXCEPT ![r] = g] /\ over' = [over EXCEPT ![r] = o]
    BY <1>1, <1>2, <1>4
  <2>2. MemberShape(x, y)
    BY <1>1, <1>2, <1>4 DEF MemberRequestOK, MemberShape
  <2>3. Found(x, y, g)
    BY <1>1, <1>2, <1>4 DEF MemberRequestOK, Found
  <2>4. OwnerFound(x, o)
    BY <1>1, <1>2, <1>4 DEF MemberRequestOK, OwnerFound
  <2>5. Uninterrupted(x, y, g, o)
    BY <1>1, <1>2, <1>4 DEF MemberRequestOK, Uninterrupted, Reached, HasRole
  <2>6. MemberRequestOK(x, y, g, o)
    BY <2>2, <2>3, <2>4, <2>5 DEF MemberRequestOK
  <2> QED
    BY <1>1, <2>1, <2>6, LookingKeepsMembersInv
<1> QED
  BY <1>3, <1>4

LEMMA DoneKeepsMembersInv ==
  ASSUME MembersInv, NEW r \in Requests, NEW w \in Workspaces, work[r][w] # "none",
         NEW ok \in BOOLEAN, Done(r, w, ok),
         over[r] = {} => ~ (req[r].op = "orgUpdate" /\ req[r].user # req[r].actor)
  PROVE  MembersInv'
<1>1. PICK q, k, g, o : q = req[r] /\ k = work[r] /\ g = gone[r] /\ o = over[r]
  OBVIOUS
<1>2. /\ g \in SUBSET (Users \X Places) /\ o \in SUBSET {"org", "member"} /\ MemberRequestOK(q, k, g, o)
  BY <1>1, MemberActing
<1>3. /\ Proceed(r, w, "none", ok) /\ UNCHANGED members /\ "none" \in Stages
      /\ gone' = [gone EXCEPT ![r] = IF Active(r) THEN g ELSE {}]
      /\ over' = [over EXCEPT ![r] = IF Active(r) THEN o ELSE {}]
  BY <1>1 DEF Done, Stages
<1>4. Moving(r, w, "none", q, k, g, o)
  BY <1>1, <1>2, <1>3 DEF Moving
<1> QED
  BY <1>3, <1>4, StageKeepsMembersInv

\* A spreading change of somebody's role that nothing interrupted may go on.
LEMMA ActorMay ==
  ASSUME MembersInv, NEW r \in Requests, NEW w \in Workspaces, work[r][w] # "none",
         over[r] = {}, req[r].op = "orgUpdate", req[r].user # req[r].actor
  PROVE  /\ MayManage(req[r].actor, w, req[r].role) /\ org[req[r].user] # "NONE"
         /\ Reached(req[r], work[r]) /\ gone[r] = {}
<1>1. req[r].step = "spread" /\ req[r].role \in Roles
  BY MemberActing DEF MemberRequestOK, MemberShape
<1>2. /\ req[r].actor \in SuperAdmins \/ req[r].actor = owner \/ org[req[r].actor] \in High
      /\ Reached(req[r], work[r]) /\ gone[r] = {}
  BY <1>1, MemberActing DEF MemberRequestOK, Uninterrupted
<1> QED
  BY <1>1, <1>2 DEF MayManage, Reached, Roles

LEMMA CheckWsCreateKeepsMembersInv ==
  ASSUME MembersInv, NEW r \in Requests, NEW w \in Workspaces, CheckWsCreate(r, w) PROVE MembersInv'
<1>1. work[r][w] = "check"
  BY DEF CheckWsCreate
<1>2. CASE Done(r, w, FALSE) /\ ~ (MayManage(req[r].actor, w, req[r].role) /\ org[req[r].user] # "NONE")
  BY <1>1, <1>2, ActorMay, DoneKeepsMembersInv
<1>3. CASE /\ org[req[r].user] # "NONE" /\ Proceed(r, w, "insert", TRUE)
           /\ gone' = [gone EXCEPT ![r] = @ \ {<<req[r].user, "org">>}]
           /\ UNCHANGED <<members, over>>
  <2>1. PICK q, k, g, o, g2 : /\ q = req[r] /\ k = work[r] /\ g = gone[r] /\ o = over[r]
                              /\ g2 = g \ {<<q.user, "org">>}
    OBVIOUS
  <2>2. /\ g2 \in SUBSET (Users \X Places) /\ o \in SUBSET {"org", "member"} /\ MemberRequestOK(q, k, g, o)
    BY <2>1, MemberActing
  <2>3. q.step = "spread" /\ \A d \in g : d # <<q.user, "org">> => d \in g2
    BY <1>1, <2>1, <2>2 DEF MemberRequestOK, MemberShape
  <2>4. MemberRequestOK(q, k, g2, o)
    <3>1. Found(q, k, g2)
      <4>1. ASSUME NEW v \in Workspaces, k[v] = "update" PROVE ws[q.user][v] # "NONE" \/ <<q.user, v>> \in g2
        <5>1. <<q.user, v>> # <<q.user, "org">>
          BY PlacesAssumption
        <5> QED
          BY <2>2, <2>3, <4>1, <5>1 DEF MemberRequestOK, Found
      <4>2. org[q.user] # "NONE"
        BY <1>3, <2>1
      <4> QED
        BY <2>3, <4>1, <4>2 DEF Found
    <3>2. Uninterrupted(q, k, g2, o)
      BY <2>1, <2>2 DEF MemberRequestOK, Uninterrupted
    <3> QED
      BY <2>2, <3>1, <3>2 DEF MemberRequestOK
  <2>5. /\ gone' = [gone EXCEPT ![r] = g2] /\ over' = [over EXCEPT ![r] = o]
        /\ UNCHANGED members /\ Proceed(r, w, "insert", TRUE)
    BY <1>3, <2>1 DEF MembersInv, MemberTyped
  <2>6. org[q.user] # "NONE" /\ "insert" \in Stages
    BY <1>3, <2>1 DEF Stages
  <2>7. o = {} /\ q.op = "orgUpdate" /\ q.user # q.actor => ws[q.user][w] = "NONE"
    BY <1>1, <2>1, ActorMay DEF Reached
  <2>8. Moving(r, w, "insert", q, k, g2, o)
    BY <1>1, <2>1, <2>2, <2>4, <2>5, <2>6, <2>7 DEF Moving
  <2> QED
    BY <2>5, <2>6, <2>8, StageKeepsMembersInv
<1> QED
  BY <1>2, <1>3 DEF CheckWsCreate

LEMMA FindWsKeepsMembersInv ==
  ASSUME MembersInv, NEW r \in Requests, NEW w \in Workspaces, FindWs(r, w) PROVE MembersInv'
<1>1. work[r][w] = "find"
  BY DEF FindWs
<1>2. CASE Done(r, w, FALSE) /\ ~MayManage(req[r].actor, w, req[r].role)
  BY <1>1, <1>2, ActorMay, DoneKeepsMembersInv
<1>3. PICK q, k, g, o, g2 : /\ q = req[r] /\ k = work[r] /\ g = gone[r] /\ o = over[r]
                            /\ g2 = g \ {<<q.user, w>>}
  OBVIOUS
<1>4. /\ g \in SUBSET (Users \X Places) /\ g2 \in SUBSET (Users \X Places)
      /\ o \in SUBSET {"org", "member"} /\ MemberRequestOK(q, k, g, o)
      /\ "check" \in Stages /\ "update" \in Stages /\ q = req[r] /\ k = work[r]
  BY <1>3, MemberActing DEF Stages
<1>5. CASE ws[req[r].user][w] = "NONE" /\ Proceed(r, w, "check", TRUE) /\ UNCHANGED <<members, gone, over>>
  <2>1. /\ gone' = [gone EXCEPT ![r] = g] /\ over' = [over EXCEPT ![r] = o]
        /\ UNCHANGED members /\ Proceed(r, w, "check", TRUE) /\ ws[q.user][w] = "NONE"
    BY <1>3, <1>5 DEF MembersInv, MemberTyped
  <2>2. Moving(r, w, "check", q, k, g, o)
    BY <1>1, <1>4, <2>1 DEF Moving
  <2> QED
    BY <1>4, <2>1, <2>2, StageKeepsMembersInv
<1>6. CASE /\ ws[req[r].user][w] # "NONE" /\ Proceed(r, w, "update", TRUE)
           /\ gone' = [gone EXCEPT ![r] = @ \ {<<req[r].user, w>>}] /\ UNCHANGED <<members, over>>
  <2>1. q.step = "spread" /\ \A d \in g : d # <<q.user, w>> => d \in g2
    BY <1>1, <1>3, <1>4 DEF MemberRequestOK, MemberShape
  <2>2. MemberRequestOK(q, k, g2, o)
    <3>1. Found(q, k, g2)
      <4>1. ASSUME NEW v \in Workspaces, k[v] = "update" PROVE ws[q.user][v] # "NONE" \/ <<q.user, v>> \in g2
        <5>1. v # w
          BY <1>1, <1>3, <4>1
        <5> QED
          BY <1>4, <2>1, <4>1, <5>1 DEF MemberRequestOK, Found
      <4>2. <<q.user, "org">> # <<q.user, w>>
        BY PlacesAssumption
      <4>3. ASSUME NEW v \in Workspaces, k[v] \in {"insert", "projects"}
            PROVE org[q.user] # "NONE" \/ <<q.user, "org">> \in g2
        BY <1>4, <2>1, <4>2, <4>3 DEF MemberRequestOK, Found
      <4> QED
        BY <2>1, <4>1, <4>3 DEF Found
    <3>2. Uninterrupted(q, k, g2, o)
      BY <1>3, <1>4 DEF MemberRequestOK, Uninterrupted
    <3> QED
      BY <1>4, <3>1, <3>2 DEF MemberRequestOK
  <2>3. /\ gone' = [gone EXCEPT ![r] = g2] /\ over' = [over EXCEPT ![r] = o]
        /\ UNCHANGED members /\ Proceed(r, w, "update", TRUE) /\ ws[q.user][w] # "NONE"
    BY <1>3, <1>6 DEF MembersInv, MemberTyped
  <2>4. Moving(r, w, "update", q, k, g2, o)
    BY <1>1, <1>4, <2>2, <2>3 DEF Moving
  <2> QED
    BY <1>4, <2>3, <2>4, StageKeepsMembersInv
<1> QED
  BY <1>2, <1>5, <1>6 DEF FindWs

\* A workspace's write is done: nothing is deleted, no other workspace's row changes.
Written(r, w, stage, q, k, g, o) ==
  /\ q = req[r] /\ k = work[r] /\ g = gone[r] /\ o = over[r] /\ k[w] # "none"
  /\ Proceed(r, w, stage, TRUE) /\ Wrote(r, "member", {}) /\ UNCHANGED <<owner, org>>
  /\ MembersTyped'
  /\ \A u \in Users, v \in Workspaces :
       /\ ws[u][v] # "NONE" => ws'[u][v] # "NONE"
       /\ v # w => ws'[u][v] = ws[u][v]
  /\ \A u \in Users, p \in Projects : prj[u][p] # "NONE" => prj'[u][p] # "NONE"
  /\ stage = "projects" => org[q.user] # "NONE" \/ <<q.user, "org">> \in g
  /\ o = {} /\ q.op = "orgUpdate" /\ q.user # q.actor =>
       /\ ws'[q.user][w] = q.role
       /\ stage = "none" => HasRole(q, w)'

LEMMA WrittenKeepsMembersInv ==
  ASSUME MembersInv, NEW r \in Requests, NEW w \in Workspaces, NEW stage \in {"none", "projects"},
         NEW q, NEW k, NEW g, NEW o, Written(r, w, stage, q, k, g, o)
  PROVE  MembersInv'
<1>0. /\ stage \in Stages /\ TRUE \in BOOLEAN /\ q = req[r] /\ k = work[r]
      /\ work[r][w] # "none" /\ Proceed(r, w, stage, TRUE)
  BY DEF Stages, Written
<1> USE DEF Written
<1>1. PICK x \in MemberRequestType, y \in [Workspaces -> Stages] : After(r, w, stage, q, k, x, y)
  <2> HIDE DEF Written
  <2>1. PICK ok \in BOOLEAN : Proceed(r, w, stage, ok)
    BY <1>0
  <2> QED
    BY <1>0, <2>1, MemberProceedEffect
<1> USE DEF After
<1>2. q.step = "spread" /\ q.user \in Users /\ MemberRequestOK(q, k, g, o)
  BY MemberActing DEF MemberRequestOK, MemberShape, MemberRequestType
<1>3. ASSUME x.step # "idle" PROVE MemberRequestOK(x, y, g, o)'
  <2>1. MemberShape(x, y)'
    BY <1>1, <1>2, <1>3 DEF MemberRequestOK, MemberShape
  <2>2. Found(x, y, g)'
    <3>1. ASSUME NEW v \in Workspaces
          PROVE  /\ y[v] \in {"insert", "projects"} => org'[x.user] # "NONE" \/ <<x.user, "org">> \in g
                 /\ y[v] = "update" => ws'[x.user][v] # "NONE" \/ <<x.user, v>> \in g
      BY <1>1, <1>2, <1>3 DEF MemberRequestOK, Found
    <3> QED
      BY <1>1, <1>3, <3>1 DEF Found
  <2>3. OwnerFound(x, o)'
    BY <1>1, <1>3 DEF OwnerFound
  <2>4. Uninterrupted(x, y, g, o)'
    <3>1. ASSUME o = {} PROVE g = {}
      BY <1>2, <3>1 DEF MemberRequestOK, Uninterrupted
    <3>2. ASSUME o = {}, x.op = "orgUpdate", x.user # x.actor
          PROVE  /\ x.actor \in SuperAdmins \/ x.actor = owner' \/ org'[x.actor] \in High
                 /\ Reached(x, y)'
      <4>1. /\ q.actor \in SuperAdmins \/ q.actor = owner \/ org[q.actor] \in High
            /\ Reached(q, k)
        BY <1>1, <1>2, <1>3, <3>2 DEF MemberRequestOK, Uninterrupted
      <4>2. ASSUME NEW v \in Workspaces, v # w
            PROVE  /\ y[v] = "none" => HasRole(x, v)'
                   /\ y[v] = "projects" => ws'[x.user][v] = x.role
                   /\ y[v] \in {"check", "insert"} => ws'[x.user][v] = "NONE"
        <5>1. \A p \in ProjectsOf(v) : p \in Projects
          BY DEF ProjectsOf
        <5> QED
          BY <1>1, <1>2, <1>3, <4>1, <4>2, <5>1 DEF Reached, HasRole
      <4>3. /\ y[w] = "none" => HasRole(x, w)'
            /\ y[w] = "projects" => ws'[x.user][w] = x.role
            /\ y[w] \notin {"check", "insert"}
        BY <1>1, <1>3, <3>2 DEF HasRole
      <4>4. org'[x.user] = x.role
        BY <1>1, <1>3, <4>1 DEF Reached
      <4>5. \A v \in Workspaces :
              /\ y[v] = "none" => HasRole(x, v)'
              /\ y[v] = "projects" => ws'[x.user][v] = x.role
              /\ y[v] \in {"check", "insert"} => ws'[x.user][v] = "NONE"
        BY <4>2, <4>3
      <4> QED
        BY <1>1, <1>3, <4>1, <4>4, <4>5 DEF Reached
    <3> QED
      BY <3>1, <3>2 DEF Uninterrupted
  <2> QED
    BY <2>1, <2>2, <2>3, <2>4 DEF MemberRequestOK
<1>4. {} \in SUBSET (Users \X Places)
  OBVIOUS
<1>5. x.step = "idle" => \A v \in Workspaces : y[v] = "none"
  BY <1>1
<1>6. /\ \A u \in Users : org[u] # "NONE" /\ org'[u] = "NONE" => <<u, "org">> \in {}
      /\ \A u \in Users, v \in Workspaces :
           ws[u][v] # "NONE" /\ ws'[u][v] = "NONE" => <<u, v>> \in {}
      /\ \A u \in Users, p \in Projects :
           prj[u][p] # "NONE" /\ prj'[u][p] = "NONE" => <<u, p>> \in {}
  OBVIOUS
<1>7. /\ MembersTyped' /\ Wrote(r, "member", {}) /\ ~(owner' # owner \/ org' # org)
      /\ g = gone[r] /\ o = over[r] /\ "member" \in {"org", "member"}
  OBVIOUS
<1>8. req' = [req EXCEPT ![r] = x] /\ work' = [work EXCEPT ![r] = y]
  BY <1>1
<1> HIDE DEF Written, After
<1> QED
  BY ZenonT(30), <1>8, <1>3, <1>4, <1>5, <1>6, <1>7, WritingKeepsMembersInv

LEMMA SpreadRole ==
  ASSUME MembersInv, NEW r \in Requests, NEW w \in Workspaces, work[r][w] # "none"
  PROVE  /\ req[r].user \in Users /\ req[r].role \in Roles
         /\ "NONE" \notin Roles
BY MemberActing DEF MemberRequestOK, MemberShape, MemberRequestType, Roles

LEMMA InsertWsWritten ==
  ASSUME MembersInv, NEW r \in Requests, NEW w \in Workspaces, InsertWs(r, w),
         ws[req[r].user][w] = "NONE"
  PROVE  \E stage \in {"none", "projects"} :
           Written(r, w, stage, req[r], work[r], gone[r], over[r])
<1>1. work[r][w] = "insert"
  BY DEF InsertWs
<1>3. ASSUME NEW q, NEW k, NEW g, NEW o, q = req[r], k = work[r], g = gone[r], o = over[r],
             ws[q.user][w] = "NONE", ws' = [ws EXCEPT ![q.user][w] = q.role],
             Proceed(r, w, IF q.role \in High THEN "projects" ELSE "none", TRUE),
             Wrote(r, "member", {}), UNCHANGED <<owner, org, prj>>
      PROVE  \E stage \in {"none", "projects"} : Written(r, w, stage, q, k, g, o)
  <2>1. PICK stage : stage = IF q.role \in High THEN "projects" ELSE "none"
    OBVIOUS
  <2>2. q.user \in Users /\ q.role \in Roles /\ "NONE" \notin Roles /\ Roles \subseteq Row
    BY <1>1, <1>3, SpreadRole, MemberPlacement
  <2>3. MembersTyped' /\ \A u \in Users, v \in Workspaces :
          ws'[u][v] = IF u = q.user /\ v = w THEN q.role ELSE ws[u][v]
    BY <1>3, <2>2 DEF MembersInv, MemberTyped, MembersTyped
  <2>4. org[q.user] # "NONE" \/ <<q.user, "org">> \in g
    BY <1>1, <1>3, MemberActing DEF MemberRequestOK, Found
  <2>5. stage = "none" => HasRole(q, w)'
    BY <2>1, <2>2, <2>3 DEF HasRole
  <2>6. /\ \A u \in Users, v \in Workspaces :
             (ws[u][v] # "NONE" => ws'[u][v] # "NONE") /\ (v # w => ws'[u][v] = ws[u][v])
        /\ ws'[q.user][w] = q.role
    BY <2>2, <2>3
  <2>7. prj' = prj /\ Proceed(r, w, stage, TRUE) /\ stage \in {"none", "projects"}
    BY <1>3, <2>1
  <2>8. Written(r, w, stage, q, k, g, o)
    BY <1>1, <1>3, <2>3, <2>4, <2>5, <2>6, <2>7 DEF Written
  <2> QED
    BY <2>7, <2>8
<1>4. PICK q, k, g, o : q = req[r] /\ k = work[r] /\ g = gone[r] /\ o = over[r]
  OBVIOUS
<1>5. /\ ws[q.user][w] = "NONE" /\ ws' = [ws EXCEPT ![q.user][w] = q.role]
      /\ Proceed(r, w, IF q.role \in High THEN "projects" ELSE "none", TRUE)
      /\ Wrote(r, "member", {}) /\ UNCHANGED <<owner, org, prj>>
  BY <1>4 DEF InsertWs
<1>6. \E stage \in {"none", "projects"} : Written(r, w, stage, q, k, g, o)
  BY <1>3, <1>4, <1>5
<1> QED
  BY <1>4, <1>6

LEMMA InsertWsKeepsMembersInv ==
  ASSUME MembersInv, NEW r \in Requests, NEW w \in Workspaces, InsertWs(r, w) PROVE MembersInv'
<1>1. CASE ws[req[r].user][w] # "NONE"
  <2>1. work[r][w] = "insert" /\ Done(r, w, FALSE)
    BY <1>1 DEF InsertWs
  <2> QED
    BY <1>1, <2>1, ActorMay, DoneKeepsMembersInv DEF Reached
<1>2. CASE ws[req[r].user][w] = "NONE"
  BY <1>2, InsertWsWritten, WrittenKeepsMembersInv
<1> QED
  BY <1>1, <1>2

LEMMA InsertProjectsWritten ==
  ASSUME MembersInv, NEW r \in Requests, NEW w \in Workspaces, InsertProjects(r, w)
  PROVE  \E stage \in {"none", "projects"} :
           Written(r, w, stage, req[r], work[r], gone[r], over[r])
<1>1. work[r][w] = "projects"
  BY DEF InsertProjects
<1>2. PICK q, k, g, o : q = req[r] /\ k = work[r] /\ g = gone[r] /\ o = over[r]
  OBVIOUS
<1>3. q.user \in Users /\ q.role \in Roles /\ "NONE" \notin Roles /\ Roles \subseteq Row
  BY <1>1, <1>2, SpreadRole, MemberPlacement
<1>4. /\ prj' = [prj EXCEPT ![q.user] = [p \in Projects |->
                   IF p \in ProjectsOf(w) /\ @[p] = "NONE" THEN q.role ELSE @[p]]]
      /\ Proceed(r, w, "none", TRUE) /\ Wrote(r, "member", {}) /\ UNCHANGED <<owner, org, ws>>
  BY <1>2 DEF InsertProjects
<1>5. prj \in [Users -> [Projects -> Row]]
  BY DEF MembersInv, MemberTyped, MembersTyped
<1>6. \A u \in Users, p \in Projects :
        prj'[u][p] = IF u = q.user /\ p \in ProjectsOf(w) /\ prj[u][p] = "NONE"
                       THEN q.role ELSE prj[u][p]
  BY <1>3, <1>4, <1>5
<1>7. prj' \in [Users -> [Projects -> Row]]
  BY <1>3, <1>4, <1>5
<1>8. MembersTyped'
  BY <1>4, <1>7 DEF MembersInv, MemberTyped, MembersTyped
<1>9. \A p \in ProjectsOf(w) : p \in Projects /\ prj'[q.user][p] # "NONE"
  BY <1>3, <1>6 DEF ProjectsOf
<1>10. o = {} /\ q.op = "orgUpdate" /\ q.user # q.actor => ws'[q.user][w] = q.role
  BY <1>1, <1>2, <1>4, ActorMay DEF Reached
<1>11. ws' = ws /\ \A u \in Users, p \in Projects : prj[u][p] # "NONE" => prj'[u][p] # "NONE"
  BY <1>4, <1>6
<1>12. Written(r, w, "none", q, k, g, o)
  BY <1>1, <1>2, <1>4, <1>8, <1>9, <1>10, <1>11 DEF Written, HasRole
<1> QED
  BY <1>2, <1>12

LEMMA UpdateWsWritten ==
  ASSUME MembersInv, NEW r \in Requests, NEW w \in Workspaces, UpdateWs(r, w),
         <<req[r].user, w>> \notin gone[r]
  PROVE  \E stage \in {"none", "projects"} :
           Written(r, w, stage, req[r], work[r], gone[r], over[r])
<1>1. work[r][w] = "update"
  BY DEF UpdateWs
<1>3. ASSUME NEW q, NEW k, NEW g, NEW o, q = req[r], k = work[r], g = gone[r], o = over[r],
             ws' = [ws EXCEPT ![q.user][w] = q.role],
             prj' = [prj EXCEPT ![q.user] = [p \in Projects |->
                       IF p \in ProjectsOf(w) THEN q.role ELSE @[p]]],
             Proceed(r, w, "none", TRUE), Wrote(r, "member", {}), UNCHANGED <<owner, org>>
      PROVE  \E stage \in {"none", "projects"} : Written(r, w, stage, q, k, g, o)
  <2>1. q.user \in Users /\ q.role \in Roles /\ "NONE" \notin Roles /\ Roles \subseteq Row
    BY <1>1, <1>3, SpreadRole, MemberPlacement
  <2>2. ws \in [Users -> [Workspaces -> Row]] /\ prj \in [Users -> [Projects -> Row]]
    BY DEF MembersInv, MemberTyped, MembersTyped
  <2>3. /\ \A u \in Users, p \in Projects :
             prj'[u][p] = IF u = q.user /\ p \in ProjectsOf(w) THEN q.role ELSE prj[u][p]
        /\ prj' \in [Users -> [Projects -> Row]]
    BY <1>3, <2>1, <2>2
  <2>4. /\ \A u \in Users, v \in Workspaces :
             ws'[u][v] = IF u = q.user /\ v = w THEN q.role ELSE ws[u][v]
        /\ ws' \in [Users -> [Workspaces -> Row]]
    BY <1>3, <2>1, <2>2
  <2>5. MembersTyped'
    BY <1>3, <2>3, <2>4 DEF MembersInv, MemberTyped, MembersTyped
  <2>6. HasRole(q, w)'
    BY <2>1, <2>3, <2>4 DEF HasRole, ProjectsOf
  <2>7. /\ \A u \in Users, v \in Workspaces :
             (ws[u][v] # "NONE" => ws'[u][v] # "NONE") /\ (v # w => ws'[u][v] = ws[u][v])
        /\ \A u \in Users, p \in Projects : prj[u][p] # "NONE" => prj'[u][p] # "NONE"
    BY <2>1, <2>3, <2>4
  <2>8. Written(r, w, "none", q, k, g, o)
    BY <1>1, <1>3, <2>5, <2>6, <2>7 DEF Written, HasRole
  <2> QED
    BY <2>8
<1>4. PICK q, k, g, o : q = req[r] /\ k = work[r] /\ g = gone[r] /\ o = over[r]
  OBVIOUS
<1>5. /\ ws' = [ws EXCEPT ![q.user][w] = q.role]
      /\ prj' = [prj EXCEPT ![q.user] = [p \in Projects |->
                    IF p \in ProjectsOf(w) THEN q.role ELSE @[p]]]
      /\ Proceed(r, w, "none", TRUE) /\ Wrote(r, "member", {}) /\ UNCHANGED <<owner, org>>
  BY <1>4 DEF UpdateWs
<1>6. \E stage \in {"none", "projects"} : Written(r, w, stage, q, k, g, o)
  BY <1>3, <1>4, <1>5
<1> QED
  BY <1>4, <1>6

LEMMA UpdateWsKeepsMembersInv ==
  ASSUME MembersInv, NEW r \in Requests, NEW w \in Workspaces, UpdateWs(r, w) PROVE MembersInv'
<1>1. CASE <<req[r].user, w>> \in gone[r]
  <2>1. work[r][w] = "update" /\ Done(r, w, FALSE)
    BY <1>1 DEF UpdateWs
  <2> QED
    BY <1>1, <2>1, ActorMay, DoneKeepsMembersInv
<1>2. CASE <<req[r].user, w>> \notin gone[r]
  BY <1>2, UpdateWsWritten, WrittenKeepsMembersInv
<1> QED
  BY <1>1, <1>2

\* Requests at rest with their work, whose step ends them.
LEMMA RemoveWsKeepsMembersInv == ASSUME MembersInv, NEW r \in Requests, RemoveWs(r) PROVE MembersInv'
<1>1. PICK w, who, rows : w = req[r].at /\ who = req[r].who /\ rows = {u \in who : <<u, w>> \notin gone[r]}
  OBVIOUS
<1>2. req[r].step = "remove" /\ who \subseteq Users /\ rows \subseteq who /\ w \in Places
  BY <1>1, MemberActing DEF RemoveWs, MemberRequestType
<1>3. CASE Fail(r)
  BY <1>2, <1>3, FailKeepsMembersInv
<1>4. ASSUME prj' = [u \in Users |-> [p \in Projects |->
                        IF u \in who /\ p \in ProjectsOf(w) THEN "NONE" ELSE prj[u][p]]],
             ws' = [u \in Users |-> [ws[u] EXCEPT ![w] = IF u \in rows THEN "NONE" ELSE @]],
             Finish(r), Wrote(r, "member", (rows \X {w}) \union (who \X ProjectsOf(w))),
             UNCHANGED <<owner, org, work>>
      PROVE  MembersInv'
  <2>1. PICK del : del = (rows \X {w}) \union (who \X ProjectsOf(w))
    OBVIOUS
  <2>2. del \in SUBSET (Users \X Places)
    BY <1>2, <2>1 DEF ProjectsOf, Places
  <2>3. ws \in [Users -> [Workspaces -> Row]] /\ prj \in [Users -> [Projects -> Row]] /\ "NONE" \in Row
    BY DEF MembersInv, MemberTyped, MembersTyped, Row
  <2>4. /\ prj' \in [Users -> [Projects -> Row]]
        /\ \A u \in Users, p \in Projects : prj[u][p] # "NONE" /\ prj'[u][p] = "NONE" => <<u, p>> \in del
    BY <1>4, <2>1, <2>3
  <2>5. /\ ws' \in [Users -> [Workspaces -> Row]]
        /\ \A u \in Users, v \in Workspaces : ws[u][v] # "NONE" /\ ws'[u][v] = "NONE" => <<u, v>> \in del
    BY <1>4, <2>1, <2>3
  <2>6. MembersTyped' /\ Wrote(r, "member", del) /\ ~(owner' # owner \/ org' # org)
    BY <1>4, <2>1, <2>4, <2>5 DEF MembersInv, MemberTyped, MembersTyped
  <2>7. \A u \in Users : org[u] # "NONE" /\ org'[u] = "NONE" => <<u, "org">> \in del
    BY <1>4
  <2>8. Finish(r) /\ work' = work /\ "member" \in {"org", "member"} /\ req[r].step # "spread"
    BY <1>2, <1>4
  <2> QED
    BY <2>2, <2>4, <2>5, <2>6, <2>7, <2>8, FinishKeepsMembersInv
<1> QED
  BY <1>1, <1>3, <1>4 DEF RemoveWs

LEMMA RemoveOrgKeepsMembersInv == ASSUME MembersInv, NEW r \in Requests, RemoveOrg(r) PROVE MembersInv'
<1>1. PICK who, rows : who = req[r].who /\ rows = {u \in who : <<u, "org">> \notin gone[r]}
  OBVIOUS
<1>2. req[r].step = "remove" /\ who \subseteq Users /\ rows \subseteq who
  BY <1>1, MemberActing DEF RemoveOrg, MemberRequestType
<1>3. CASE Fail(r)
  BY <1>2, <1>3, FailKeepsMembersInv
<1>4. ASSUME ws' = [u \in Users |-> IF u \in who THEN [w \in Workspaces |-> "NONE"] ELSE ws[u]],
             prj' = [u \in Users |-> IF u \in who THEN [p \in Projects |-> "NONE"] ELSE prj[u]],
             org' = [u \in Users |-> IF u \in rows THEN "NONE" ELSE org[u]],
             Finish(r), UNCHANGED <<owner, work>>,
             Wrote(r, "org", (rows \X {"org"}) \union (who \X (Workspaces \union Projects)))
      PROVE  MembersInv'
  <2>1. PICK del : del = (rows \X {"org"}) \union (who \X (Workspaces \union Projects))
    OBVIOUS
  <2>2. del \in SUBSET (Users \X Places)
    BY <1>2, <2>1 DEF Places
  <2>3. /\ ws \in [Users -> [Workspaces -> Row]] /\ prj \in [Users -> [Projects -> Row]]
        /\ org \in [Users -> Row] /\ owner \in Users /\ "NONE" \in Row
    BY DEF MembersInv, MemberTyped, MembersTyped, Row
  <2>4. MembersTyped'
    BY <1>4, <2>3 DEF MembersTyped
  <2>5. \A u \in Users, v \in Workspaces : ws[u][v] # "NONE" /\ ws'[u][v] = "NONE" => <<u, v>> \in del
    BY <1>4, <2>1
  <2>6. \A u \in Users, p \in Projects : prj[u][p] # "NONE" /\ prj'[u][p] = "NONE" => <<u, p>> \in del
    BY <1>4, <2>1
  <2>7. \A u \in Users : org[u] # "NONE" /\ org'[u] = "NONE" => <<u, "org">> \in del
    BY <1>4, <2>1
  <2>8. /\ Finish(r) /\ work' = work /\ "org" \in {"org", "member"} /\ req[r].step # "spread"
        /\ Wrote(r, "org", del)
    BY <1>2, <1>4, <2>1
  <2> QED
    BY <2>2, <2>4, <2>5, <2>6, <2>7, <2>8, FinishKeepsMembersInv
<1> QED
  BY <1>1, <1>3, <1>4 DEF RemoveOrg

LEMMA RemovePrjKeepsMembersInv == ASSUME MembersInv, NEW r \in Requests, RemovePrj(r) PROVE MembersInv'
<1>1. PICK p, rows : p = req[r].at /\ rows = {u \in req[r].who : <<u, p>> \notin gone[r]}
  OBVIOUS
<1>2. req[r].step = "remove" /\ rows \subseteq Users /\ p \in Places
  BY <1>1, MemberActing DEF RemovePrj, MemberRequestType
<1>3. CASE Fail(r)
  BY <1>2, <1>3, FailKeepsMembersInv
<1>4. ASSUME prj' = [u \in Users |-> [prj[u] EXCEPT ![p] = IF u \in rows THEN "NONE" ELSE @]],
             Finish(r), Wrote(r, "member", rows \X {p}), UNCHANGED <<owner, org, ws, work>>
      PROVE  MembersInv'
  <2>1. PICK del : del = rows \X {p}
    OBVIOUS
  <2>2. del \in SUBSET (Users \X Places)
    BY <1>2, <2>1
  <2>3. prj \in [Users -> [Projects -> Row]] /\ "NONE" \in Row
    BY DEF MembersInv, MemberTyped, MembersTyped, Row
  <2>4. /\ prj' \in [Users -> [Projects -> Row]]
        /\ \A u \in Users, m \in Projects : prj[u][m] # "NONE" /\ prj'[u][m] = "NONE" => <<u, m>> \in del
    BY <1>4, <2>1, <2>3
  <2>5. MembersTyped' /\ Wrote(r, "member", del) /\ ~(owner' # owner \/ org' # org)
    BY <1>4, <2>1, <2>4 DEF MembersInv, MemberTyped, MembersTyped
  <2>6. /\ \A u \in Users : org[u] # "NONE" /\ org'[u] = "NONE" => <<u, "org">> \in del
        /\ \A u \in Users, v \in Workspaces : ws[u][v] # "NONE" /\ ws'[u][v] = "NONE" => <<u, v>> \in del
    BY <1>4
  <2>7. Finish(r) /\ work' = work /\ "member" \in {"org", "member"} /\ req[r].step # "spread"
    BY <1>2, <1>4
  <2> QED
    BY <2>2, <2>4, <2>5, <2>6, <2>7, FinishKeepsMembersInv
<1> QED
  BY <1>1, <1>3, <1>4 DEF RemovePrj

LEMMA WritePrjKeepsMembersInv == ASSUME MembersInv, NEW r \in Requests, WritePrj(r) PROVE MembersInv'
<1>1. req[r].step = "write" /\ req[r].op \in {"prjAdd", "prjUpdate"}
  BY MemberActing DEF WritePrj, MemberRequestOK, MemberShape, PrjOps
<1>2. CASE Fail(r)
  BY <1>1, <1>2, FailKeepsMembersInv
<1>3. ASSUME NEW q, q = req[r], prj' = [prj EXCEPT ![q.user][q.at] = q.role],
             Finish(r), Wrote(r, "member", {}), UNCHANGED <<owner, org, ws, work>>
      PROVE  MembersInv'
  <2>1. q.user \in Users /\ q.at \in Projects /\ q.role \in Roles /\ "NONE" \notin Roles /\ Roles \subseteq Row
    BY <1>1, <1>3, MemberActing DEF MemberRequestOK, MemberShape, MemberRequestType, Roles, Row
  <2>2. prj \in [Users -> [Projects -> Row]]
    BY DEF MembersInv, MemberTyped, MembersTyped
  <2>3. /\ prj' \in [Users -> [Projects -> Row]]
        /\ \A u \in Users, m \in Projects : prj[u][m] # "NONE" /\ prj'[u][m] = "NONE" => <<u, m>> \in {}
    BY <1>3, <2>1, <2>2
  <2>4. MembersTyped' /\ ~(owner' # owner \/ org' # org) /\ {} \in SUBSET (Users \X Places)
    BY <1>3, <2>3 DEF MembersInv, MemberTyped, MembersTyped
  <2>5. /\ \A u \in Users : org[u] # "NONE" /\ org'[u] = "NONE" => <<u, "org">> \in {}
        /\ \A u \in Users, v \in Workspaces : ws[u][v] # "NONE" /\ ws'[u][v] = "NONE" => <<u, v>> \in {}
    BY <1>3
  <2>6. /\ Finish(r) /\ work' = work /\ "member" \in {"org", "member"} /\ req[r].step # "spread"
        /\ Wrote(r, "member", {})
    BY <1>1, <1>3
  <2> QED
    BY <2>3, <2>4, <2>5, <2>6, FinishKeepsMembersInv
<1> QED
  BY <1>2, <1>3 DEF WritePrj

LEMMA TransferKeepsMembersInv == ASSUME MembersInv, NEW r \in Requests, Transfer(r) PROVE MembersInv'
<1>1. req[r].step = "write"
  BY DEF Transfer
<1>2. CASE Fail(r)
  BY <1>1, <1>2, FailKeepsMembersInv
<1>3. ASSUME NEW q, q = req[r], NEW promoted,
             promoted = IF q.role = "OWNER" THEN org ELSE [org EXCEPT ![q.user] = "OWNER"],
             org' = [promoted EXCEPT ![q.actor] = IF @ = "OWNER" THEN "MANAGER" ELSE @],
             owner' = q.user, Finish(r), Wrote(r, "org", {}), UNCHANGED <<ws, prj, work>>
      PROVE  MembersInv'
  <2>1. q.user \in Users /\ q.actor \in Users
    BY <1>3, MemberActing DEF MemberRequestType
  <2>2. org \in [Users -> Row] /\ {"OWNER", "MANAGER"} \subseteq Row
    BY DEF MembersInv, MemberTyped, MembersTyped, Row, Roles
  <2>3. promoted \in [Users -> Row] /\ \A u \in Users : org[u] # "NONE" => promoted[u] # "NONE"
    BY <1>3, <2>1, <2>2
  <2>4. /\ org' \in [Users -> Row]
        /\ \A u \in Users : org[u] # "NONE" /\ org'[u] = "NONE" => <<u, "org">> \in {}
    BY <1>3, <2>1, <2>2, <2>3
  <2>5. MembersTyped' /\ {} \in SUBSET (Users \X Places) /\ "org" = "org"
    BY <1>3, <2>1, <2>4 DEF MembersInv, MemberTyped, MembersTyped
  <2>6. /\ \A u \in Users, v \in Workspaces : ws[u][v] # "NONE" /\ ws'[u][v] = "NONE" => <<u, v>> \in {}
        /\ \A u \in Users, p \in Projects : prj[u][p] # "NONE" /\ prj'[u][p] = "NONE" => <<u, p>> \in {}
    BY <1>3
  <2>7. /\ Finish(r) /\ work' = work /\ "org" \in {"org", "member"} /\ req[r].step # "spread"
        /\ Wrote(r, "org", {})
    BY <1>1, <1>3
  <2> QED
    BY <2>4, <2>5, <2>6, <2>7, FinishKeepsMembersInv
<1> QED
  BY <1>2, <1>3 DEF Transfer

\* The write of a membership that goes on to the workspaces, or ends there.
LEMMA OrgRowKeepsMembersInv ==
  ASSUME MembersInv, NEW r \in Requests, NEW q, q = req[r], NEW first \in {"check", "find"},
         q.step = "write", q.op = IF first = "check" THEN "orgAdd" ELSE "orgUpdate",
         org' = [org EXCEPT ![q.user] = q.role], Wrote(r, "org", {}), UNCHANGED <<owner, ws, prj>>,
         NEW x \in MemberRequestType, NEW y \in [Workspaces -> Stages],
         req' = [req EXCEPT ![r] = x], work' = [work EXCEPT ![r] = y],
         \/ x.step = "idle" /\ \A w \in Workspaces : y[w] = "none"
         \/ /\ Workspaces # {} /\ y = [w \in Workspaces |-> first]
            /\ x = [q EXCEPT !.step = "spread"]
  PROVE  MembersInv'
<1>1. PICK k, g, o : k = work[r] /\ g = gone[r] /\ o = over[r]
  OBVIOUS
<1>2. q \in MemberRequestType /\ MemberRequestOK(q, k, g, o)
  BY <1>1, MemberActing
<1>3. q.user \in Users /\ q.role \in Roles /\ "NONE" \notin Roles /\ Roles \subseteq Row
  BY <1>2 DEF MemberRequestOK, MemberShape, MemberRequestType, Roles, Row
<1>4. org \in [Users -> Row]
  BY DEF MembersInv, MemberTyped, MembersTyped
<1>5. MembersTyped' /\ \A u \in Users : org[u] # "NONE" /\ org'[u] = "NONE" => <<u, "org">> \in {}
  <2>1. org' \in [Users -> Row]
    BY <1>3, <1>4
  <2>2. \A u \in Users : org[u] # "NONE" /\ org'[u] = "NONE" => <<u, "org">> \in {}
    BY <1>3, <1>4
  <2> QED
    BY <2>1, <2>2 DEF MembersInv, MemberTyped, MembersTyped
<1>6. ASSUME x.step # "idle" PROVE MemberRequestOK(x, y, g, o)'
  <2>1. Workspaces # {} /\ (\A w \in Workspaces : y[w] = first) /\ x = [q EXCEPT !.step = "spread"]
    BY <1>6
  <2>2. /\ x.step = "spread" /\ x.op = q.op /\ x.who = q.who /\ x.user = q.user
        /\ x.role = q.role /\ x.actor = q.actor
    BY <1>2, <2>1 DEF MemberRequestType
  <2>3. MemberShape(x, y)'
    BY <1>2, <2>1, <2>2 DEF MemberRequestOK, MemberShape
  <2>4. Found(x, y, g)' /\ OwnerFound(x, o)'
    BY <2>1, <2>2 DEF Found, OwnerFound
  <2>5. Uninterrupted(x, y, g, o)'
    <3>1. o = {} => g = {}
      BY <1>2 DEF MemberRequestOK, Uninterrupted
    <3>2. ASSUME o = {}, x.op = "orgUpdate", x.user # x.actor
          PROVE  /\ x.actor \in SuperAdmins \/ x.actor = owner' \/ org'[x.actor] \in High
                 /\ Reached(x, y)'
      <4>1. q.actor \in SuperAdmins \/ q.actor = owner \/ org[q.actor] \in High
        BY <1>2, <2>2, <3>2 DEF MemberRequestOK, Uninterrupted
      <4>2. org'[q.actor] = org[q.actor] /\ owner' = owner
        BY <1>2, <1>4, <2>2, <3>2 DEF MemberRequestType
      <4>3. org'[x.user] = x.role
        BY <1>3, <1>4, <2>2
      <4>4. first = "find"
        BY <2>2, <3>2
      <4> QED
        BY <2>1, <2>2, <4>1, <4>2, <4>3, <4>4 DEF Reached
    <3> QED
      BY <3>1, <3>2 DEF Uninterrupted
  <2> QED
    BY <2>3, <2>4, <2>5 DEF MemberRequestOK
<1>7. x.step = "idle" => \A w \in Workspaces : y[w] = "none"
  <2> SUFFICES ASSUME x.step = "idle", x = [q EXCEPT !.step = "spread"] PROVE FALSE
    OBVIOUS
  <2> QED
    BY <1>2 DEF MemberRequestType
<1>8. /\ \A u \in Users, w \in Workspaces : ws[u][w] # "NONE" /\ ws'[u][w] = "NONE" => <<u, w>> \in {}
      /\ \A u \in Users, p \in Projects : prj[u][p] # "NONE" /\ prj'[u][p] = "NONE" => <<u, p>> \in {}
      /\ {} \in SUBSET (Users \X Places) /\ "org" \in {"org", "member"} /\ "org" = "org"
  OBVIOUS
<1>9. g = gone[r] /\ o = over[r]
  BY <1>1
<1> HIDE <1>1
<1> QED
  BY <1>5, <1>6, <1>7, <1>8, <1>9, WritingKeepsMembersInv

LEMMA InsertOrgKeepsMembersInv == ASSUME MembersInv, NEW r \in Requests, InsertOrg(r) PROVE MembersInv'
<1>1. PICK q, k : q = req[r] /\ k = work[r]
  OBVIOUS
<1>2. q \in MemberRequestType /\ q.step = "write" /\ q.op = "orgAdd" /\ q.then = "idle"
  BY <1>1, MemberActing DEF InsertOrg, MemberRequestType, Ops, OrgOps, WsOps, PrjOps
<1>3. k \in [Workspaces -> Stages] /\ (\A w \in Workspaces : k[w] = "none") /\ work = [work EXCEPT ![r] = k]
  BY <1>1, <1>2, MemberRestingWork
<1>4. CASE Fail(r)
  BY <1>1, <1>2, <1>4, FailKeepsMembersInv
<1>5. CASE ~Fail(r)
  <2>1. /\ org' = [org EXCEPT ![q.user] = q.role] /\ Wrote(r, "org", {}) /\ UNCHANGED <<owner, ws, prj>>
        /\ IF q.role \in High /\ Workspaces # {}
             THEN /\ work' = [work EXCEPT ![r] = [w \in Workspaces |-> "check"]]
                  /\ req' = [req EXCEPT ![r].step = "spread"]
             ELSE req' = [req EXCEPT ![r].step = "idle"] /\ work' = work
    BY <1>1, <1>2, <1>5 DEF InsertOrg
  <2>2. PICK x, y : /\ x = [q EXCEPT !.step = IF q.role \in High /\ Workspaces # {} THEN "spread" ELSE "idle"]
                    /\ y = IF q.role \in High /\ Workspaces # {} THEN [w \in Workspaces |-> "check"] ELSE k
    OBVIOUS
  <2>3. x \in MemberRequestType /\ y \in [Workspaces -> Stages]
    BY <1>2, <1>3, <2>2 DEF MemberRequestType, Stages
  <2>4. req' = [req EXCEPT ![r] = x] /\ work' = [work EXCEPT ![r] = y]
    BY <1>1, <1>3, <2>1, <2>2
  <2>5. \/ x.step = "idle" /\ \A w \in Workspaces : y[w] = "none"
        \/ /\ Workspaces # {} /\ y = [w \in Workspaces |-> "check"]
           /\ x = [q EXCEPT !.step = "spread"]
    BY <1>2, <1>3, <2>2 DEF MemberRequestType
  <2>6. q = req[r] /\ "check" \in {"check", "find"}
        /\ q.op = IF "check" = "check" THEN "orgAdd" ELSE "orgUpdate"
    BY <1>1, <1>2
  <2> HIDE <1>1, <2>2
  <2> QED
    BY <1>2, <2>1, <2>3, <2>4, <2>5, <2>6, OrgRowKeepsMembersInv
<1> QED
  BY <1>4, <1>5

LEMMA UpdateOrgKeepsMembersInv == ASSUME MembersInv, NEW r \in Requests, UpdateOrg(r) PROVE MembersInv'
<1>1. PICK q, k : q = req[r] /\ k = work[r]
  OBVIOUS
<1>2. q \in MemberRequestType /\ q.step = "write" /\ q.op = "orgUpdate"
  BY <1>1, MemberActing DEF UpdateOrg
<1>3. k \in [Workspaces -> Stages] /\ (\A w \in Workspaces : k[w] = "none") /\ work = [work EXCEPT ![r] = k]
  BY <1>1, <1>2, MemberRestingWork
<1>4. CASE Fail(r)
  BY <1>1, <1>2, <1>4, FailKeepsMembersInv
<1>5. CASE ~Fail(r)
  <2>1. /\ org' = [org EXCEPT ![q.user] = q.role] /\ Wrote(r, "org", {}) /\ UNCHANGED <<owner, ws, prj>>
        /\ IF Workspaces # {}
             THEN /\ work' = [work EXCEPT ![r] = [w \in Workspaces |-> "find"]]
                  /\ req' = [req EXCEPT ![r].step = "spread"]
             ELSE req' = [req EXCEPT ![r] = Idle] /\ work' = work
    BY <1>1, <1>5 DEF UpdateOrg, Finish
  <2>2. PICK x, y : /\ x = IF Workspaces # {} THEN [q EXCEPT !.step = "spread"] ELSE Idle
                    /\ y = IF Workspaces # {} THEN [w \in Workspaces |-> "find"] ELSE k
    OBVIOUS
  <2>3. x \in MemberRequestType /\ y \in [Workspaces -> Stages]
    BY <1>2, <1>3, <2>2, MemberIdleType DEF MemberRequestType, Stages
  <2>4. req' = [req EXCEPT ![r] = x] /\ work' = [work EXCEPT ![r] = y]
    BY <1>1, <1>3, <2>1, <2>2
  <2>5. \/ x.step = "idle" /\ \A w \in Workspaces : y[w] = "none"
        \/ /\ Workspaces # {} /\ y = [w \in Workspaces |-> "find"]
           /\ x = [q EXCEPT !.step = "spread"]
    BY <1>2, <1>3, <2>2, MemberIdleType
  <2>6. q = req[r] /\ "find" \in {"check", "find"}
        /\ q.op = IF "find" = "check" THEN "orgAdd" ELSE "orgUpdate"
    BY <1>1, <1>2
  <2> HIDE <1>1, <2>2
  <2> QED
    BY <1>2, <2>1, <2>3, <2>4, <2>5, <2>6, OrgRowKeepsMembersInv
<1> QED
  BY <1>4, <1>5

-----------------------------------------------------------------------------
LEMMA NextKeepsMembersInv == MembersInv /\ [Next]_memberVars => MembersInv'
<1> SUFFICES ASSUME MembersInv, [Next]_memberVars PROVE MembersInv'
  OBVIOUS
<1>1. CASE UNCHANGED memberVars
  <2>1. /\ owner' = owner /\ org' = org /\ ws' = ws /\ prj' = prj
        /\ req' = req /\ work' = work /\ gone' = gone /\ over' = over
    BY <1>1 DEF memberVars, members
  <2>2. MemberTyped'
    BY <2>1 DEF MembersInv, MemberTyped, MembersTyped
  <2>3. ASSUME NEW r \in Requests, MemberRequestOK(req[r], work[r], gone[r], over[r])
        PROVE  MemberRequestOK(req[r], work[r], gone[r], over[r])'
    <3>1. MemberShape(req[r], work[r])' /\ Found(req[r], work[r], gone[r])'
      BY <2>1, <2>3 DEF MemberRequestOK, MemberShape, Found
    <3>2. OwnerFound(req[r], over[r])'
      BY <2>1, <2>3 DEF MemberRequestOK, OwnerFound
    <3>3. Uninterrupted(req[r], work[r], gone[r], over[r])'
      BY <2>1, <2>3 DEF MemberRequestOK, Uninterrupted, Reached, HasRole
    <3> QED
      BY <3>1, <3>2, <3>3 DEF MemberRequestOK
  <2> QED
    BY <2>2, <2>3 DEF MembersInv
<1>2. ASSUME NEW r \in Requests, Step(r) PROVE MembersInv'
  <2>1. CASE AskOrgAdd(r) \/ AskOrgUpdate(r) \/ AskOrgRemove(r) \/ AskTransfer(r)
    BY <2>1, AskOrgAddKeepsMembersInv, AskOrgUpdateKeepsMembersInv, AskOrgRemoveKeepsMembersInv,
       AskTransferKeepsMembersInv
  <2>2. CASE AskWsAdd(r) \/ AskWsUpdate(r) \/ AskWsRemove(r)
    BY <2>2, AskWsAddKeepsMembersInv, AskWsUpdateKeepsMembersInv, AskWsRemoveKeepsMembersInv
  <2>3. CASE AskPrjAdd(r) \/ AskPrjUpdate(r) \/ AskPrjRemove(r)
    BY <2>3, AskPrjAddKeepsMembersInv, AskPrjUpdateKeepsMembersInv, AskPrjRemoveKeepsMembersInv
  <2>4. CASE InsertOrg(r) \/ UpdateOrg(r) \/ RemoveOrg(r) \/ Transfer(r)
    BY <2>4, InsertOrgKeepsMembersInv, UpdateOrgKeepsMembersInv, RemoveOrgKeepsMembersInv, TransferKeepsMembersInv
  <2>5. CASE RemoveWs(r) \/ WritePrj(r) \/ RemovePrj(r)
    BY <2>5, RemoveWsKeepsMembersInv, WritePrjKeepsMembersInv, RemovePrjKeepsMembersInv
  <2>6. ASSUME NEW w \in Workspaces, AtWorkspace(r, w) PROVE MembersInv'
    <3>1. CASE InsertProjects(r, w)
      BY <3>1, InsertProjectsWritten, WrittenKeepsMembersInv
    <3> QED
      BY <2>6, <3>1, CheckWsCreateKeepsMembersInv, InsertWsKeepsMembersInv, FindWsKeepsMembersInv,
         UpdateWsKeepsMembersInv DEF AtWorkspace
  <2> QED
    BY <1>2, <2>1, <2>2, <2>3, <2>4, <2>5, <2>6 DEF Step
<1> QED
  BY <1>1, <1>2 DEF Next

-----------------------------------------------------------------------------
\* What a step does to who is inside the organization.
Entered(r) ==
  \A u \in Users :
    /\ org[u] # "NONE" /\ org'[u] = "NONE" => ~Inside(u)'
    /\ Inside(u)' /\ ~Inside(u) /\ org'[u] = "NONE" =>
         Moves(r) /\ \E d \in gone[r] : d[1] = u

LEMMA SameMembersEnter == ASSUME NEW r, UNCHANGED members PROVE Entered(r)
BY DEF members, Entered, Inside

\* Only deletions, and those of all rows where the membership is deleted.
LEMMA RemovingEnters ==
  ASSUME NEW r \in Requests, RemoveWs(r) \/ RemoveOrg(r) \/ RemovePrj(r), MembersInv
  PROVE  Entered(r)
<1>1. CASE Fail(r)
  BY <1>1, SameMembersEnter DEF Fail
<1>2. /\ ws \in [Users -> [Workspaces -> Row]] /\ prj \in [Users -> [Projects -> Row]]
      /\ req[r].who \subseteq Users
  BY MemberActing DEF MembersInv, MemberTyped, MembersTyped, MemberRequestType
<1>3. CASE RemoveWs(r) /\ ~Fail(r)
  <2>1. PICK w, who, rows : w = req[r].at /\ who = req[r].who /\ rows = {u \in who : <<u, w>> \notin gone[r]}
    OBVIOUS
  <2>2. /\ prj' = [u \in Users |-> [p \in Projects |->
                     IF u \in who /\ p \in ProjectsOf(w) THEN "NONE" ELSE prj[u][p]]]
        /\ ws' = [u \in Users |-> [ws[u] EXCEPT ![w] = IF u \in rows THEN "NONE" ELSE @]]
        /\ org' = org
    BY <1>3, <2>1 DEF RemoveWs
  <2>3. \A u \in Users, p \in Projects : prj'[u][p] # "NONE" => prj[u][p] # "NONE"
    BY <2>2
  <2>4. \A u \in Users, v \in Workspaces : ws'[u][v] # "NONE" => ws[u][v] # "NONE"
    BY <1>2, <2>2
  <2> QED
    BY <2>2, <2>3, <2>4 DEF Entered, Inside
<1>4. CASE RemovePrj(r) /\ ~Fail(r)
  <2>1. PICK p, rows : p = req[r].at /\ rows = {u \in req[r].who : <<u, p>> \notin gone[r]}
    OBVIOUS
  <2>2. /\ prj' = [u \in Users |-> [prj[u] EXCEPT ![p] = IF u \in rows THEN "NONE" ELSE @]]
        /\ ws' = ws /\ org' = org
    BY <1>4, <2>1 DEF RemovePrj
  <2>3. \A u \in Users, m \in Projects : prj'[u][m] # "NONE" => prj[u][m] # "NONE"
    BY <1>2, <2>2
  <2> QED
    BY <2>2, <2>3 DEF Entered, Inside
<1>5. CASE RemoveOrg(r) /\ ~Fail(r)
  <2>1. PICK who, rows : who = req[r].who /\ rows = {u \in who : <<u, "org">> \notin gone[r]}
    OBVIOUS
  <2>2. /\ ws' = [u \in Users |-> IF u \in who THEN [w \in Workspaces |-> "NONE"] ELSE ws[u]]
        /\ prj' = [u \in Users |-> IF u \in who THEN [p \in Projects |-> "NONE"] ELSE prj[u]]
        /\ org' = [u \in Users |-> IF u \in rows THEN "NONE" ELSE org[u]]
    BY <1>5, <2>1 DEF RemoveOrg
  <2>3. \A u \in Users :
          /\ u \in who => (\A p \in Projects : prj'[u][p] = "NONE")
          /\ u \in who => (\A v \in Workspaces : ws'[u][v] = "NONE")
          /\ u \notin who => ws'[u] = ws[u] /\ prj'[u] = prj[u] /\ org'[u] = org[u]
    BY <2>1, <2>2
  <2> QED
    BY <2>3 DEF Entered, Inside
<1> QED
  BY <1>1, <1>3, <1>4, <1>5

\* The writes of the organization's table delete nothing.
LEMMA OrgWritesEnter ==
  ASSUME NEW r \in Requests, InsertOrg(r) \/ UpdateOrg(r) \/ Transfer(r), MembersInv
  PROVE  Entered(r)
<1>1. CASE Fail(r)
  BY <1>1, SameMembersEnter DEF Fail
<1>2. /\ req[r].user \in Users /\ req[r].actor \in Users
      /\ req[r].op # "transfer" => req[r].role # "NONE"
      /\ org \in [Users -> Row]
  BY MemberActing
     DEF InsertOrg, UpdateOrg, Transfer, MemberRequestType, MemberRequestOK, MemberShape, Roles, MembersInv,
          MemberTyped, MembersTyped
<1>3. CASE ~Fail(r)
  <2>1. ws' = ws /\ prj' = prj
    BY <1>3 DEF InsertOrg, UpdateOrg, Transfer
  <2>2. CASE InsertOrg(r) \/ UpdateOrg(r)
    <3>1. /\ org' = [org EXCEPT ![req[r].user] = req[r].role]
          /\ req[r].op # "transfer"
      BY <1>3, <2>2 DEF InsertOrg, UpdateOrg
    <3>2. \A u \in Users : org[u] # "NONE" => org'[u] # "NONE"
      BY <1>2, <3>1
    <3> QED
      BY <2>1, <3>2 DEF Entered, Inside
  <2>3. CASE Transfer(r)
    <3>1. PICK promoted :
            /\ promoted = IF req[r].role = "OWNER" THEN org ELSE [org EXCEPT ![req[r].user] = "OWNER"]
            /\ org' = [promoted EXCEPT ![req[r].actor] = IF @ = "OWNER" THEN "MANAGER" ELSE @]
      BY <1>3, <2>3 DEF Transfer
    <3>2. promoted \in [Users -> Row] /\ \A u \in Users : org[u] # "NONE" => promoted[u] # "NONE"
      BY <1>2, <3>1 DEF Row, Roles
    <3>3. \A u \in Users : org[u] # "NONE" => org'[u] # "NONE"
      BY <1>2, <3>1, <3>2
    <3> QED
      BY <2>1, <3>3 DEF Entered, Inside
  <2> QED
    BY <2>2, <2>3
<1> QED
  BY <1>1, <1>3

\* Only the request's user enters, and only where it had found them a member.
LEMMA MemberWritesEnter ==
  ASSUME NEW r \in Requests, MembersInv, NEW u \in Users, u = req[r].user,
         org' = org, Moves(r),
         org[u] # "NONE" \/ Inside(u) \/ (\E d \in gone[r] : d[1] = u),
         \A v \in Users \ {u} : ws'[v] = ws[v] /\ prj'[v] = prj[v]
  PROVE  Entered(r)
BY DEF Entered, Inside

LEMMA StepMoves ==
  ASSUME NEW r \in Requests, MembersInv, NEW w \in Workspaces, NEW stage, NEW ok \in BOOLEAN,
         Proceed(r, w, stage, ok), work[r][w] # stage
  PROVE  Moves(r)
<1>1. work'[r][w] = stage
  BY DEF Proceed, MembersInv, MemberTyped
<1> QED
  BY <1>1 DEF Moves

LEMMA WorkspaceWritesEnter ==
  ASSUME NEW r \in Requests, NEW w \in Workspaces, AtWorkspace(r, w), MembersInv
  PROVE  Entered(r)
<1>1. CASE UNCHANGED members
  BY <1>1, SameMembersEnter
<1>2. CASE ~ UNCHANGED members
  <2>1. PICK q, k, g : q = req[r] /\ k = work[r] /\ g = gone[r]
    OBVIOUS
  <2>2. /\ q.user \in Users /\ Found(q, k, g)
        /\ ws \in [Users -> [Workspaces -> Row]] /\ prj \in [Users -> [Projects -> Row]]
    BY <2>1, MemberActing DEF MemberRequestType, MemberRequestOK, MembersInv, MemberTyped, MembersTyped
  <2>3. \A u, v : <<u, v>>[1] = u
    OBVIOUS
  <2>4. CASE InsertWs(r, w)
    <3>1. /\ k[w] = "insert" /\ ws' = [ws EXCEPT ![q.user][w] = q.role] /\ prj' = prj /\ org' = org
          /\ Proceed(r, w, IF q.role \in High THEN "projects" ELSE "none", TRUE)
      BY <1>2, <2>1, <2>4 DEF InsertWs, Done
    <3>2. Moves(r)
      BY <2>1, <3>1, StepMoves
    <3>3. org[q.user] # "NONE" \/ \E d \in g : d[1] = q.user
      BY <2>2, <2>3, <3>1 DEF Found
    <3>4. \A v \in Users \ {q.user} : ws'[v] = ws[v] /\ prj'[v] = prj[v]
      BY <2>2, <3>1
    <3> QED
      BY <2>1, <2>2, <3>1, <3>2, <3>3, <3>4, MemberWritesEnter
  <2>5. CASE InsertProjects(r, w)
    <3>1. /\ k[w] = "projects" /\ ws' = ws /\ org' = org /\ Proceed(r, w, "none", TRUE)
          /\ prj' = [prj EXCEPT ![q.user] = [p \in Projects |->
                       IF p \in ProjectsOf(w) /\ @[p] = "NONE" THEN q.role ELSE @[p]]]
      BY <2>1, <2>5 DEF InsertProjects
    <3>2. Moves(r)
      BY <2>1, <3>1, StepMoves
    <3>3. org[q.user] # "NONE" \/ \E d \in g : d[1] = q.user
      BY <2>2, <2>3, <3>1 DEF Found
    <3>4. \A v \in Users \ {q.user} : ws'[v] = ws[v] /\ prj'[v] = prj[v]
      BY <2>2, <3>1
    <3> QED
      BY <2>1, <2>2, <3>1, <3>2, <3>3, <3>4, MemberWritesEnter
  <2>6. CASE UpdateWs(r, w)
    <3>1. /\ k[w] = "update" /\ org' = org /\ Proceed(r, w, "none", TRUE)
          /\ ws' = [ws EXCEPT ![q.user][w] = q.role]
          /\ prj' = [prj EXCEPT ![q.user] = [p \in Projects |->
                       IF p \in ProjectsOf(w) THEN q.role ELSE @[p]]]
      BY <1>2, <2>1, <2>6 DEF UpdateWs, Done
    <3>2. Moves(r)
      BY <2>1, <3>1, StepMoves
    <3>3. Inside(q.user) \/ \E d \in g : d[1] = q.user
      BY <2>2, <2>3, <3>1 DEF Found, Inside
    <3>4. \A v \in Users \ {q.user} : ws'[v] = ws[v] /\ prj'[v] = prj[v]
      BY <2>2, <3>1
    <3> QED
      BY <2>1, <2>2, <3>1, <3>2, <3>3, <3>4, MemberWritesEnter
  <2> QED
    BY <1>2, <2>4, <2>5, <2>6 DEF AtWorkspace, CheckWsCreate, FindWs, Done, members
<1> QED
  BY <1>1, <1>2

LEMMA WritePrjEnters == ASSUME NEW r \in Requests, WritePrj(r), MembersInv PROVE Entered(r)
<1>1. CASE Fail(r)
  BY <1>1, SameMembersEnter DEF Fail
<1>2. CASE ~Fail(r)
  <2>1. PICK q, k, g : q = req[r] /\ k = work[r] /\ g = gone[r]
    OBVIOUS
  <2>2. /\ q.step = "write" /\ q.op \in {"prjAdd", "prjUpdate"} /\ q.at \in Projects
        /\ q.user \in Users /\ Found(q, k, g) /\ prj \in [Users -> [Projects -> Row]]
    BY <2>1, MemberActing
       DEF WritePrj, PrjOps, MemberRequestType, MemberRequestOK, MemberShape, MembersInv, MemberTyped, MembersTyped
  <2>3. prj' = [prj EXCEPT ![q.user][q.at] = q.role] /\ Finish(r) /\ ws' = ws /\ org' = org
    BY <1>2, <2>1 DEF WritePrj
  <2>4. Moves(r)
    <3>1. req'[r] = Idle
      BY <2>3 DEF Finish, MembersInv, MemberTyped
    <3> QED
      BY <2>1, <2>2, <3>1, MemberIdleType DEF Moves
  <2>5. org[q.user] # "NONE" \/ Inside(q.user) \/ \E d \in g : d[1] = q.user
    <3>1. WorkspaceOf[q.at] \in Workspaces /\ \A v : <<q.user, v>>[1] = q.user
      BY <2>2, ProjectsAssumption
    <3> QED
      BY <2>2, <3>1 DEF Found, Inside
  <2>6. \A v \in Users \ {q.user} : ws'[v] = ws[v] /\ prj'[v] = prj[v]
    BY <2>2, <2>3
  <2> QED
    BY <2>1, <2>2, <2>3, <2>4, <2>5, <2>6, MemberWritesEnter
<1> QED
  BY <1>1, <1>2

Asks(r) ==
  \/ AskOrgAdd(r) \/ AskOrgUpdate(r) \/ AskOrgRemove(r) \/ AskTransfer(r)
  \/ AskWsAdd(r) \/ AskWsUpdate(r) \/ AskWsRemove(r)
  \/ AskPrjAdd(r) \/ AskPrjUpdate(r) \/ AskPrjRemove(r)

LEMMA AskingLooks == ASSUME NEW r, Asks(r) PROVE UNCHANGED members /\ req[r].step = "idle"
<1> USE DEF Begin
<1>1. CASE AskOrgAdd(r) \/ AskOrgUpdate(r) \/ AskOrgRemove(r) \/ AskTransfer(r)
  BY <1>1, ZenonT(30) DEF AskOrgAdd, AskOrgUpdate, AskOrgRemove, AskTransfer
<1>2. CASE AskWsAdd(r) \/ AskWsUpdate(r) \/ AskWsRemove(r)
  BY <1>2, ZenonT(30) DEF AskWsAdd, AskWsUpdate, AskWsRemove
<1>3. CASE AskPrjAdd(r) \/ AskPrjUpdate(r) \/ AskPrjRemove(r)
  BY <1>3, ZenonT(30) DEF AskPrjAdd, AskPrjUpdate, AskPrjRemove
<1> QED
  BY <1>1, <1>2, <1>3 DEF Asks

LEMMA StepEnters == ASSUME NEW r \in Requests, Step(r), MembersInv PROVE Entered(r)
<1>1. CASE Asks(r)
  BY <1>1, AskingLooks, SameMembersEnter
<1>2. CASE RemoveWs(r) \/ RemoveOrg(r) \/ RemovePrj(r)
  BY <1>2, RemovingEnters
<1>3. CASE InsertOrg(r) \/ UpdateOrg(r) \/ Transfer(r)
  BY <1>3, OrgWritesEnter
<1>4. CASE WritePrj(r)
  BY <1>4, WritePrjEnters
<1>5. CASE \E w \in Workspaces : AtWorkspace(r, w)
  BY <1>5, WorkspaceWritesEnter
<1> QED
  BY <1>1, <1>2, <1>3, <1>4, <1>5, Zenon DEF Step, Asks

-----------------------------------------------------------------------------
\* What a step does to the owner's role.
OwnerKept(r) ==
  org[owner] = "OWNER" /\ org'[owner'] # "OWNER" => Moves(r) /\ "org" \in over[r]

LEMMA FinishMoves == ASSUME NEW r \in Requests, MembersInv, Finish(r), req[r].step # "idle" PROVE Moves(r)
<1>1. req'[r] = Idle
  BY DEF Finish, MembersInv, MemberTyped
<1> QED
  BY <1>1, MemberIdleType DEF Moves

LEMMA InsertOrgKeepsOwner == ASSUME NEW r \in Requests, InsertOrg(r), MembersInv PROVE OwnerKept(r)
<1>1. req[r].user \in Users /\ owner \in Users /\ org \in [Users -> Row]
  BY MemberActing DEF MemberRequestType, MembersInv, MemberTyped, MembersTyped
<1>2. \/ UNCHANGED members
      \/ /\ org[req[r].user] = "NONE" /\ org' = [org EXCEPT ![req[r].user] = req[r].role]
         /\ owner' = owner
  BY DEF InsertOrg, Fail
<1> QED
  BY <1>1, <1>2 DEF OwnerKept, members

LEMMA UpdateOrgKeepsOwner == ASSUME NEW r \in Requests, UpdateOrg(r), MembersInv PROVE OwnerKept(r)
<1>1. /\ req[r].user \in Users /\ owner \in Users /\ org \in [Users -> Row]
      /\ req[r].step = "write" /\ req[r].op = "orgUpdate"
  BY MemberActing DEF MemberRequestType, MembersInv, MemberTyped, MembersTyped, UpdateOrg
<1>2. "org" \notin over[r] /\ req[r].user = owner => req[r].role = "OWNER"
  BY <1>1, MemberActing DEF MemberRequestOK, OwnerFound
<1>3. CASE Fail(r)
  BY <1>3 DEF OwnerKept, Fail, members
<1>4. CASE ~Fail(r)
  <2>1. org' = [org EXCEPT ![req[r].user] = req[r].role] /\ owner' = owner
    BY <1>4 DEF UpdateOrg
  <2>2. req'[r].step # "write"
    BY <1>1, <1>4, MemberActing, MemberIdleType
       DEF UpdateOrg, Finish, MembersInv, MemberTyped, MemberRequestType
  <2> QED
    BY <1>1, <1>2, <2>1, <2>2 DEF OwnerKept, Moves
<1> QED
  BY <1>3, <1>4

LEMMA RemoveOrgKeepsOwner == ASSUME NEW r \in Requests, RemoveOrg(r), MembersInv PROVE OwnerKept(r)
<1>1. owner \in Users /\ req[r].step = "remove" /\ req[r].op \in OrgOps
  BY DEF MembersInv, MemberTyped, MembersTyped, RemoveOrg
<1>2. "org" \notin over[r] => owner \notin req[r].who
  BY <1>1, MemberActing DEF MemberRequestOK, OwnerFound
<1>3. CASE Fail(r)
  BY <1>3 DEF OwnerKept, Fail, members
<1>4. CASE ~Fail(r)
  <2>1. PICK rows : /\ rows \subseteq req[r].who
                    /\ org' = [u \in Users |-> IF u \in rows THEN "NONE" ELSE org[u]]
                    /\ owner' = owner /\ Finish(r)
    BY <1>4 DEF RemoveOrg
  <2>2. Moves(r)
    BY <1>1, <2>1, FinishMoves
  <2> QED
    BY <1>1, <1>2, <2>1, <2>2 DEF OwnerKept
<1> QED
  BY <1>3, <1>4

LEMMA TransferKeepsOwner == ASSUME NEW r \in Requests, Transfer(r), MembersInv PROVE OwnerKept(r)
<1>1. PICK q : q = req[r]
  OBVIOUS
<1>2. /\ q.user \in Users /\ q.actor \in Users /\ org \in [Users -> Row]
      /\ q.step = "write" /\ q.op = "transfer"
  BY <1>1, MemberActing DEF MemberRequestType, MembersInv, MemberTyped, MembersTyped, Transfer
<1>3. /\ q.actor # q.user
      /\ "org" \notin over[r] /\ q.role = "OWNER" => org[q.user] = "OWNER"
  BY <1>1, <1>2, MemberActing DEF MemberRequestOK, OwnerFound
<1>4. CASE Fail(r)
  BY <1>4 DEF OwnerKept, Fail, members
<1>5. CASE ~Fail(r)
  <2>1. PICK promoted :
          /\ promoted = IF q.role = "OWNER" THEN org ELSE [org EXCEPT ![q.user] = "OWNER"]
          /\ org' = [promoted EXCEPT ![q.actor] = IF @ = "OWNER" THEN "MANAGER" ELSE @]
          /\ owner' = q.user /\ Finish(r)
    BY <1>1, <1>5 DEF Transfer
  <2>2. Moves(r)
    BY <1>1, <1>2, <2>1, FinishMoves
  <2>3. "org" \notin over[r] => promoted[q.user] = "OWNER"
    BY <1>2, <1>3, <2>1
  <2>4. promoted \in [Users -> Row]
    BY <1>2, <2>1 DEF Row, Roles
  <2>5. org'[q.user] = promoted[q.user]
    BY <1>2, <1>3, <2>1, <2>4
  <2> QED
    BY <2>1, <2>2, <2>3, <2>5 DEF OwnerKept
<1> QED
  BY <1>4, <1>5

LEMMA StepKeepsOwner == ASSUME NEW r \in Requests, Step(r), MembersInv PROVE OwnerKept(r)
<1>1. CASE owner' = owner /\ org' = org
  BY <1>1 DEF OwnerKept
<1>2. CASE Asks(r)
  BY <1>1, <1>2, AskingLooks DEF members
<1>3. CASE RemoveWs(r) \/ RemovePrj(r) \/ WritePrj(r)
  BY <1>1, <1>3 DEF RemoveWs, RemovePrj, WritePrj, Fail, members
<1>4. CASE \E w \in Workspaces : AtWorkspace(r, w)
  BY <1>1, <1>4 DEF AtWorkspace, CheckWsCreate, InsertWs, InsertProjects, FindWs, UpdateWs, Done, members
<1> QED
  BY <1>2, <1>3, <1>4, InsertOrgKeepsOwner, UpdateOrgKeepsOwner, RemoveOrgKeepsOwner,
     TransferKeepsOwner DEF Step, Asks

-----------------------------------------------------------------------------
\* A change of somebody else's role that nothing interrupted, and that ends.
Alone(r) ==
  /\ req[r].op = "orgUpdate" /\ req[r].step = "spread" /\ over[r] = {}
  /\ req[r].user # req[r].actor

LEMMA AloneWrites ==
  ASSUME NEW r \in Requests, MembersInv, Alone(r), NEW w \in Workspaces, AtWorkspace(r, w)
  PROVE  \/ \E stage \in {"none", "projects"} :
              Written(r, w, stage, req[r], work[r], gone[r], over[r])
         \/ \E stage \in {"check", "insert", "update"}, ok \in BOOLEAN :
              work[r][w] # "none" /\ Proceed(r, w, stage, ok)
<1>1. ASSUME work[r][w] # "none"
      PROVE  /\ MayManage(req[r].actor, w, req[r].role) /\ org[req[r].user] # "NONE"
             /\ Reached(req[r], work[r]) /\ gone[r] = {}
  BY <1>1, ActorMay DEF Alone
<1>2. CASE CheckWsCreate(r, w)
  <2>1. work[r][w] # "none" /\ Proceed(r, w, "insert", TRUE)
    BY <1>1, <1>2 DEF CheckWsCreate
  <2> QED
    BY <2>1
<1>3. CASE FindWs(r, w)
  <2>1. work[r][w] # "none" /\ (Proceed(r, w, "check", TRUE) \/ Proceed(r, w, "update", TRUE))
    BY <1>1, <1>3 DEF FindWs
  <2> QED
    BY <2>1
<1>4. CASE InsertWs(r, w)
  <2>1. ws[req[r].user][w] = "NONE"
    BY <1>1, <1>4 DEF InsertWs, Reached
  <2> QED
    BY <1>4, <2>1, InsertWsWritten
<1>5. CASE InsertProjects(r, w)
  BY <1>5, InsertProjectsWritten
<1>6. CASE UpdateWs(r, w)
  <2>1. gone[r] = {}
    BY <1>1, <1>6 DEF UpdateWs
  <2> QED
    BY <1>6, <2>1, UpdateWsWritten
<1> QED
  BY <1>2, <1>3, <1>4, <1>5, <1>6 DEF AtWorkspace

LEMMA AloneReaches ==
  ASSUME NEW r \in Requests, MembersInv, Alone(r), NEW w \in Workspaces, AtWorkspace(r, w),
         req'[r].step = "idle", NEW q, q = req[r], NEW v \in Workspaces
  PROVE  HasRole(q, v)'
<1>1. PICK k : q = req[r] /\ k = work[r]
  OBVIOUS
<1>2. q.user \in Users /\ MemberRequestOK(q, k, gone[r], over[r])
  BY <1>1, MemberActing DEF MemberRequestType
<1>3. Reached(q, k)
  BY <1>1, <1>2 DEF Alone, MemberRequestOK, Uninterrupted
<1>4. ASSUME NEW stage \in Stages, NEW ok \in BOOLEAN, Proceed(r, w, stage, ok), k[w] # "none"
      PROVE  stage = "none" /\ \A m \in Workspaces \ {w} : k[m] = "none"
  <2>1. PICK x \in MemberRequestType, y \in [Workspaces -> Stages] : After(r, w, stage, q, k, x, y)
    BY <1>1, <1>4, MemberProceedEffect
  <2>2. req'[r] = x
    BY <2>1 DEF After, MembersInv, MemberTyped
  <2> QED
    BY <2>1, <2>2 DEF After
<1>5. {"none", "projects", "check", "insert", "update"} \subseteq Stages
  BY DEF Stages
<1>6. PICK stage \in {"none", "projects"} : Written(r, w, stage, q, k, gone[r], over[r])
  <2>1. ~ \E stage \in {"check", "insert", "update"}, ok \in BOOLEAN :
            work[r][w] # "none" /\ Proceed(r, w, stage, ok)
    BY <1>1, <1>4, <1>5
  <2> QED
    BY <1>1, <2>1, AloneWrites
<1>7. stage = "none" /\ \A m \in Workspaces \ {w} : k[m] = "none"
  <2>1. PICK ok \in BOOLEAN : Proceed(r, w, stage, ok) /\ k[w] # "none"
    BY <1>6 DEF Written
  <2> QED
    BY <1>4, <1>5, <2>1
<1>8. HasRole(q, w)'
  BY <1>1, <1>6, <1>7 DEF Written, Alone
<1>9. ASSUME v # w PROVE HasRole(q, v)'
  <2>1. HasRole(q, v)
    BY <1>3, <1>7, <1>9 DEF Reached
  <2>2. /\ ws'[q.user][v] = ws[q.user][v]
        /\ \A p \in Projects : prj[q.user][p] # "NONE" => prj'[q.user][p] # "NONE"
    BY <1>2, <1>6, <1>9 DEF Written
  <2> QED
    BY <2>1, <2>2 DEF HasRole, ProjectsOf
<1> QED
  BY <1>8, <1>9

\* Only a step of r itself ends r.
LEMMA OnlyItsSteps ==
  ASSUME NEW r \in Requests, NEW s \in Requests, Step(s), s # r, MembersInv
  PROVE  req'[r] = req[r]
<1>1. \/ req' = req \/ \E x : req' = [req EXCEPT ![s] = x]
  <2>1. CASE Asks(s)
    <3> USE DEF Begin
    <3>1. CASE AskOrgAdd(s) \/ AskOrgUpdate(s) \/ AskOrgRemove(s) \/ AskTransfer(s)
      BY <3>1, ZenonT(30) DEF AskOrgAdd, AskOrgUpdate, AskOrgRemove, AskTransfer
    <3>2. CASE AskWsAdd(s) \/ AskWsUpdate(s) \/ AskWsRemove(s)
      BY <3>2, ZenonT(30) DEF AskWsAdd, AskWsUpdate, AskWsRemove
    <3>3. CASE AskPrjAdd(s) \/ AskPrjUpdate(s) \/ AskPrjRemove(s)
      BY <3>3, ZenonT(30) DEF AskPrjAdd, AskPrjUpdate, AskPrjRemove
    <3> QED
      BY <2>1, <3>1, <3>2, <3>3 DEF Asks
  <2>2. CASE RemoveWs(s) \/ RemoveOrg(s) \/ RemovePrj(s) \/ WritePrj(s) \/ Transfer(s)
    BY <2>2 DEF RemoveWs, RemoveOrg, RemovePrj, WritePrj, Transfer, Fail, Finish
  <2>3. CASE InsertOrg(s) \/ UpdateOrg(s)
    BY <2>3 DEF InsertOrg, UpdateOrg, Fail, Finish
  <2>4. ASSUME NEW w \in Workspaces, AtWorkspace(s, w)
        PROVE  req' = req \/ \E x : req' = [req EXCEPT ![s] = x]
    <3>1. PICK stage, ok : Proceed(s, w, stage, ok)
      BY <2>4 DEF AtWorkspace, CheckWsCreate, InsertWs, InsertProjects, FindWs, UpdateWs, Done
    <3> QED
      BY <3>1 DEF Proceed
  <2> QED
    BY <2>1, <2>2, <2>3, <2>4, Zenon DEF Step, Asks
<1> QED
  BY <1>1 DEF MembersInv, MemberTyped

LEMMA RoleReached ==
  ASSUME NEW r \in Requests, MembersInv, Alone(r), req'[r].step = "idle", [Next]_memberVars,
         NEW q, q = req[r]
  PROVE  /\ \A w \in Workspaces : ws'[q.user][w] = q.role
         /\ q.role \in High => \A p \in Projects : prj'[q.user][p] # "NONE"
<1>1. req[r].step = "spread" /\ req[r].op = "orgUpdate"
  BY DEF Alone
<1>2. PICK s \in Requests : Step(s)
  BY <1>1, Zenon DEF Next, memberVars
<1>3. s = r
  BY <1>1, <1>2, OnlyItsSteps
<1>4. ~Asks(r)
  BY <1>1, AskingLooks
<1>5. PICK w \in Workspaces : AtWorkspace(r, w)
  BY <1>1, <1>2, <1>3, <1>4 DEF Step, Asks, InsertOrg, UpdateOrg, RemoveOrg, Transfer,
     RemoveWs, WritePrj, RemovePrj
<1>6. \A v \in Workspaces : HasRole(q, v)'
  BY <1>5, AloneReaches
<1>7. \A p \in Projects : WorkspaceOf[p] \in Workspaces /\ p \in ProjectsOf(WorkspaceOf[p])
  BY ProjectsAssumption DEF ProjectsOf
<1> QED
  BY <1>6, <1>7 DEF HasRole

-----------------------------------------------------------------------------
LEMMA SpecIInv == Spec => []MembersInv
<1>1. Init => MembersInv
  BY InitMembersInv
<1>2. MembersInv /\ [Next]_memberVars => MembersInv'
  BY NextKeepsMembersInv
<1> QED
  BY <1>1, <1>2, PTL DEF Spec

\* The members' tables and the requests have their types; a request is at its
\* workspaces as long as one of them has not been dealt with.
THEOREM TypeCorrect == Spec => []TypeOK
<1>1. MembersInv => TypeOK
  BY DEF MembersInv, MemberTyped, MembersTyped, MemberRequestType, MemberRequestOK, MemberShape, Stages, TypeOK
<1> QED
  BY <1>1, SpecIInv, PTL

\* Nobody is inside the organization without being a member of it, unless a
\* request goes on with a membership it had checked before its removal.
THEOREM Membership == Spec => InsideIsMember
<1>1. MembersInv /\ [Next]_memberVars =>
        [ \A u \in Users :
            Inside(u)' /\ org'[u] = "NONE" /\ ~(Inside(u) /\ org[u] = "NONE")
            => \E r \in Requests : Moves(r) /\ \E d \in gone[r] : d[1] = u ]_memberVars
  <2> SUFFICES ASSUME MembersInv, [Next]_memberVars, memberVars' # memberVars, NEW u \in Users,
                      Inside(u)', org'[u] = "NONE", ~(Inside(u) /\ org[u] = "NONE")
               PROVE  \E r \in Requests : Moves(r) /\ \E d \in gone[r] : d[1] = u
    OBVIOUS
  <2>1. PICK r \in Requests : Step(r)
    BY DEF Next
  <2> QED
    BY <2>1, StepEnters DEF Entered
<1> QED
  BY <1>1, SpecIInv, PTL DEF Spec, InsideIsMember

\* The organization's owner keeps the role OWNER, unless a request had read the
\* organization before another one wrote it.
THEOREM Ownership == Spec => OwnerKeepsRole
<1>1. MembersInv /\ [Next]_memberVars =>
        [ org[owner] = "OWNER" /\ org'[owner'] # "OWNER"
            => \E r \in Requests : Moves(r) /\ "org" \in over[r] ]_memberVars
  <2> SUFFICES ASSUME MembersInv, [Next]_memberVars, memberVars' # memberVars,
                      org[owner] = "OWNER", org'[owner'] # "OWNER"
               PROVE  \E r \in Requests : Moves(r) /\ "org" \in over[r]
    OBVIOUS
  <2>1. PICK r \in Requests : Step(r)
    BY DEF Next
  <2> QED
    BY <2>1, StepKeepsOwner DEF OwnerKept
<1> QED
  BY <1>1, SpecIInv, PTL DEF Spec, OwnerKeepsRole

\* A change of somebody else's organization role that nothing interrupts ends
\* with the user in every workspace, and a manager in every project.
THEOREM RoleSpreads == Spec => RoleReachesWorkspaces
<1>1. MembersInv /\ [Next]_memberVars =>
        [ \A r \in Requests :
            /\ req[r].op = "orgUpdate" /\ req[r].step = "spread" /\ req'[r].step = "idle"
            /\ over[r] = {} /\ req[r].user # req[r].actor
            => LET u == req[r].user IN
                 /\ \A w \in Workspaces : ws'[u][w] = req[r].role
                 /\ req[r].role \in High => \A p \in Projects : prj'[u][p] # "NONE" ]_memberVars
  <2> SUFFICES ASSUME MembersInv, [Next]_memberVars, NEW r \in Requests,
                      req[r].op = "orgUpdate", req[r].step = "spread", req'[r].step = "idle",
                      over[r] = {}, req[r].user # req[r].actor
               PROVE  /\ \A w \in Workspaces : ws'[req[r].user][w] = req[r].role
                      /\ req[r].role \in High => \A p \in Projects : prj'[req[r].user][p] # "NONE"
    OBVIOUS
  <2>1. PICK q : q = req[r]
    OBVIOUS
  <2>2. /\ \A w \in Workspaces : ws'[q.user][w] = q.role
        /\ q.role \in High => \A p \in Projects : prj'[q.user][p] # "NONE"
    BY <2>1, RoleReached DEF Alone
  <2> QED
    BY <2>1, <2>2
<1> QED
  BY <1>1, SpecIInv, PTL DEF Spec, RoleReachesWorkspaces

-----------------------------------------------------------------------------
\* With the invitations.
Steps == {"idle", "write", "spread", "remove", "acceptOrg", "acceptWs", "related", "nextRelated",
          "project", "insert", "mark", "settle", "invite", "inviteMore", "direct", "directMany",
          "resend", "delete"}
AllOps == Ops \union InviteOps
Actors == Users \union {NoActor}
RequestType ==
  [step : Steps, op : AllOps, actor : Actors, user : Users,
   who : SUBSET Users, role : Row, at : Places, then : Steps, ok : BOOLEAN]
HeldType ==
  [inv : Invites \union {NoInvite}, cur : Invites \union {NoInvite},
   todo : SUBSET (Invites \union Projects), role : Roles, late : BOOLEAN, stray : BOOLEAN]
InviteType ==
  [status : Statuses, invitee : Users, at : Places, role : Roles, live : BOOLEAN]


Typed ==
  /\ MembersTyped
  /\ inv \in [Invites -> InviteType]
  /\ req \in [Requests -> RequestType]
  /\ work \in [Requests -> [Workspaces -> Stages]]
  /\ gone \in [Requests -> SUBSET (Users \X Places)]
  /\ over \in [Requests -> SUBSET {"org", "member"}]
  /\ held \in [Requests -> HeldType]

\* The operations that take a step.
Takes(op, step) ==
  /\ step \in {"acceptOrg", "acceptWs", "related", "nextRelated", "project", "mark"} => op = "accept"
  /\ step = "settle" => op \in {"accept", "expire", "decline"}
  /\ step = "insert" => op \in {"accept", "direct"}
  /\ step \in {"direct", "directMany"} => op = "direct"
  /\ step \in {"invite", "inviteMore"} => op = "invite"
  /\ step \in {"resend", "delete"} => op = step
  /\ step = "write" => op \in {"orgAdd", "orgUpdate", "transfer", "prjAdd", "prjUpdate", "accept"}
  /\ step = "spread" => op \in {"orgAdd", "orgUpdate", "wsAdd", "wsUpdate", "accept", "direct"}
  /\ step = "remove" => op \in Ops

\* What comes after a write to the organization or to workspaces.
Leads(op, then) ==
  /\ op = "accept" => then \in {"settle", "acceptWs", "related", "project"}
  /\ op = "direct" => then \in {"directMany", "insert"}
  /\ op \notin {"accept", "direct"} => then = "idle"

Shape(q, k, h) ==
  /\ Takes(q.op, q.step)
  /\ q.step \in {"write", "spread"} => Leads(q.op, q.then)
  /\ q.op # "transfer" => q.role \in Roles
  /\ (\E w \in Workspaces : k[w] # "none") <=> q.step = "spread"
  /\ q.step = "idle" => h = Nothing
  /\ q.op = "invite" => h.todo \subseteq Projects
  /\ q.op = "direct" => h.cur = NoInvite /\ q.at # "org"
  /\ q.step # "idle" /\ q.op \in {"accept", "expire", "decline", "resend", "delete"} =>
       h.inv \in Invites

\* The row of u at a place is there, or was deleted since it was found.
Seen(row, u, at, g) == row # "NONE" \/ <<u, at>> \in g

\* The workspace that an invitation to it, or to a project of it, leads to.
Around(at) == IF at \in Workspaces THEN at ELSE WorkspaceOf[at]

\* How far an acceptance has got, and what it has passed.
Chain(q, k, g, h) ==
  LET u == q.user IN
  /\ q.who = {u} /\ q.actor = NoActor
  /\ h.inv \in Invites /\ inv[h.inv].status # "none" /\ inv[h.inv].invitee = u /\ inv[h.inv].at = q.at
  /\ \A i \in h.todo : i \in Invites /\ inv[i].status # "none"
  /\ q.step \in {"insert", "mark"} => h.cur \in Invites /\ inv[h.cur].status # "none"
  /\ q.step \notin {"acceptOrg", "write"} => Seen(org[u], u, "org", g)
  /\ q.step = "write" => IF q.at = "org" THEN q.then = "settle"
                         ELSE q.then = "acceptWs" /\ q.role = "MEMBER"
  /\ q.step # "spread" => q.ok
  /\ q.step = "acceptWs" => q.at # "org"
  /\ q.step \in {"related", "nextRelated", "mark"} => q.at \in Workspaces
  /\ q.step = "project" => q.at \in Projects
  /\ q.step = "insert" =>
       \/ q.then = "mark" /\ q.at \in Workspaces
       \/ q.then = "settle" /\ q.at \in Projects /\ h.cur = h.inv
  /\ q.step \in {"related", "nextRelated", "mark", "project", "insert", "settle"} /\ q.at # "org" =>
       Seen(ws[u][Around(q.at)], u, Around(q.at), g)
  /\ q.step = "settle" /\ q.at \in Projects => Seen(prj[u][q.at], u, q.at, g)
  /\ q.step = "spread" =>
       /\ \A w \in Workspaces : k[w] \in {"none", "check", "insert", "projects"}
       /\ \/ q.then = "settle" /\ q.at = "org"
          \/ /\ q.then = IF q.at \in Workspaces THEN "related" ELSE "project"
             /\ q.at # "org"
             /\ \A w \in Workspaces : w # Around(q.at) => k[w] = "none"
             /\ k[Around(q.at)] = "projects" => Seen(ws[u][Around(q.at)], u, Around(q.at), g)

\* Nothing is in the way of an acceptance that nobody interrupted.
Clear(q, k, h) ==
  LET u == q.user IN
  /\ q.step = "acceptOrg" /\ org[u] = "NONE" => ~Inside(u)
  /\ q.step = "write" => org[u] = "NONE" /\ ~Inside(u)
  /\ q.step = "spread" =>
       q.ok /\ \A w \in Workspaces : k[w] \in {"check", "insert"} => ws[u][w] = "NONE"
  /\ q.step = "insert" => prj[u][inv[h.cur].at] = "NONE"

Waiting(i) == i \in Invites /\ inv[i].status = "PENDING" /\ inv[i].at \in Projects

\* What a request knows of the invitations if nobody else wrote one since.
Known(q, h) ==
  /\ q.step = "invite" => PendingFor(q.user, q.at) = {}
  /\ q.op \in {"accept", "expire", "decline"} => inv[h.inv].status = "PENDING"
  /\ q.op = "resend" => inv[h.inv].status # "DECLINED"
  /\ q.op = "accept" => \A i \in h.todo : Waiting(i)
  /\ q.step = "mark" \/ (q.step = "insert" /\ q.then = "mark") => Waiting(h.cur) /\ h.cur \notin h.todo

RequestOK(q, k, g, o, h) ==
  /\ Shape(q, k, h)
  /\ q.step # "idle" =>
       /\ q.op = "accept" => Chain(q, k, g, h)
       /\ o = {} => g = {}
       /\ q.op = "accept" /\ o = {} /\ ~h.stray => Clear(q, k, h)
       /\ ~h.late => Known(q, h)

IInv == Typed /\ \A r \in Requests : RequestOK(req[r], work[r], gone[r], over[r], held[r])

-----------------------------------------------------------------------------
LEMMA IdleType ==
  /\ Idle \in RequestType /\ Idle.step = "idle" /\ Idle.op = "orgAdd" /\ Idle.role = "MEMBER"
  /\ NoWork \in [Workspaces -> Stages] /\ (\A w \in Workspaces : NoWork[w] = "none")
  /\ Nothing \in HeldType
BY FounderAssumption DEF Idle, RequestType, AllOps, Actors, Row, Roles, Ops, OrgOps, Places,
   Steps, NoWork, Stages,
   Nothing, HeldType

LEMMA RestingOK ==
  ASSUME NEW q, q.step = "idle", q.op = "orgAdd", q.role \in Roles,
         NEW k, \A w \in Workspaces : k[w] = "none", NEW g, NEW o
  PROVE  RequestOK(q, k, g, o, Nothing)
BY DEF RequestOK, Shape, Takes, Nothing

LEMMA InitIInv == InvInit => IInv
<1> SUFFICES ASSUME InvInit PROVE IInv
  OBVIOUS
<1>1. Typed
  BY IdleType, FounderAssumption DEF InvInit, Init, Typed, MembersTyped, Row, Roles, NoRow,
     InviteType, Statuses, Places
<1>2. \A r \in Requests : req[r] = Idle /\ work[r] = NoWork /\ held[r] = Nothing
  BY DEF InvInit, Init
<1>3. RequestOK(Idle, NoWork, {}, {}, Nothing)
  BY IdleType, RestingOK DEF Roles
<1>4. \A r \in Requests : gone[r] = {} /\ over[r] = {}
  BY DEF InvInit, Init
<1> QED
  BY <1>1, <1>2, <1>3, <1>4 DEF IInv

-----------------------------------------------------------------------------
\* Rows of these users that are deleted are among the gone.
Recorded(who, g) ==
  /\ \A u \in who : org[u] # "NONE" /\ org'[u] = "NONE" => <<u, "org">> \in g
  /\ \A u \in who, w \in Workspaces : ws[u][w] # "NONE" /\ ws'[u][w] = "NONE" => <<u, w>> \in g
  /\ \A u \in who, p \in Projects : prj[u][p] # "NONE" /\ prj'[u][p] = "NONE" => <<u, p>> \in g

\* An invitation stays what it is, if perhaps not how it stands; or also that.
InvitesKept ==
  \A i \in Invites : inv[i].status # "none" =>
    inv'[i].status # "none" /\ inv'[i].invitee = inv[i].invitee /\ inv'[i].at = inv[i].at
SameAnswers ==
  \A i \in Invites :
    inv'[i].status = inv[i].status /\ inv'[i].invitee = inv[i].invitee /\ inv'[i].at = inv[i].at

LEMMA ChainKept ==
  ASSUME Typed, NEW q \in RequestType, NEW k \in [Workspaces -> Stages], NEW g, NEW g2,
         NEW h, Chain(q, k, g, h), g \subseteq g2, Recorded(q.who, g2), InvitesKept,
         NEW h2, h2.inv = h.inv, h2.cur = h.cur, h2.todo = h.todo
  PROVE  Chain(q, k, g2, h2)'
<1>1. q.at # "org" => Around(q.at) \in Workspaces
  BY ProjectsAssumption DEF Around, RequestType, Places
<1>2. PICK u, a : u = q.user /\ a = Around(q.at)
  OBVIOUS
<1>3. u \in q.who
  BY <1>2 DEF Chain
<1>4. /\ Seen(org[u], u, "org", g) => Seen(org'[u], u, "org", g2)
      /\ q.at # "org" /\ Seen(ws[u][a], u, a, g) => Seen(ws'[u][a], u, a, g2)
      /\ q.at \in Projects /\ Seen(prj[u][q.at], u, q.at, g) => Seen(prj'[u][q.at], u, q.at, g2)
  BY <1>1, <1>2, <1>3 DEF Recorded, Seen
<1>5. /\ h.inv \in Invites
      /\ inv'[h.inv].status # "none" /\ inv'[h.inv].invitee = u /\ inv'[h.inv].at = q.at
      /\ \A i \in h.todo : i \in Invites /\ inv'[i].status # "none"
      /\ q.step \in {"insert", "mark"} => h.cur \in Invites /\ inv'[h.cur].status # "none"
  BY <1>2 DEF Chain, InvitesKept
<1> QED
  BY <1>2, <1>4, <1>5 DEF Chain

LEMMA KnownKept ==
  ASSUME Typed, NEW q \in RequestType, NEW h \in HeldType, Known(q, h), SameAnswers,
         q.op \in {"accept", "expire", "decline", "resend"} => h.inv \in Invites
  PROVE  Known(q, h)'
<1>1. PendingFor(q.user, q.at)' = PendingFor(q.user, q.at)
  BY DEF SameAnswers, PendingFor
<1>2. \A i : Waiting(i) => Waiting(i)'
  BY DEF SameAnswers, Waiting
<1> QED
  BY <1>1, <1>2 DEF Known, SameAnswers

LEMMA ClearKept ==
  ASSUME NEW q, NEW k, NEW h, Clear(q, k, h), UNCHANGED members, InvitesKept,
         q.step = "insert" => h.cur \in Invites /\ inv[h.cur].status # "none",
         NEW h2, h2.cur = h.cur
  PROVE  Clear(q, k, h2)'
BY DEF Clear, members, InvitesKept, Inside

\* A request that another one overtakes: what it holds, and what it is told.
Overtaken(q, g, o, h, g2, o2, h2) ==
  /\ g \subseteq g2 /\ Recorded(q.who, g2)
  /\ o2 = {} => o = {} /\ g2 = g /\ UNCHANGED members
  /\ (h2 = h /\ SameAnswers) \/ h2 = [h EXCEPT !.late = TRUE]

LEMMA OvertakenOK ==
  ASSUME Typed, NEW q \in RequestType, NEW k \in [Workspaces -> Stages], NEW g, NEW o,
         NEW h \in HeldType, RequestOK(q, k, g, o, h), q.step # "idle", InvitesKept,
         NEW g2, NEW o2, NEW h2, Overtaken(q, g, o, h, g2, o2, h2)
  PROVE  RequestOK(q, k, g2, o2, h2)'
<1> USE DEF Overtaken
<1>1. h2.inv = h.inv /\ h2.cur = h.cur /\ h2.todo = h.todo /\ h2.stray = h.stray
  BY DEF HeldType
<1>2. Shape(q, k, h2)'
  BY <1>1 DEF RequestOK, Shape
<1>3. q.op = "accept" => Chain(q, k, g2, h2)'
  BY <1>1, ChainKept DEF RequestOK
<1>4. o2 = {} => g2 = {}
  BY DEF RequestOK
<1>5. q.op = "accept" /\ o2 = {} /\ ~h2.stray => Clear(q, k, h2)'
  <2> SUFFICES ASSUME q.op = "accept", o2 = {}, ~h2.stray PROVE Clear(q, k, h2)'
    OBVIOUS
  <2>1. Clear(q, k, h) /\ Chain(q, k, g, h)
    BY <1>1 DEF RequestOK
  <2>2. q.step = "insert" => h.cur \in Invites /\ inv[h.cur].status # "none"
    BY <2>1 DEF Chain
  <2> QED
    BY <1>1, <2>1, <2>2, ClearKept
<1>6. ~h2.late => Known(q, h2)'
  <2> SUFFICES ASSUME ~h2.late PROVE Known(q, h2)'
    OBVIOUS
  <2>1. h2 = h /\ SameAnswers /\ Known(q, h)
    BY DEF RequestOK, HeldType
  <2>2. q.op \in {"accept", "expire", "decline", "resend"} => h.inv \in Invites
    BY DEF RequestOK, Shape
  <2> QED
    BY <2>1, <2>2, KnownKept
<1> QED
  BY <1>2, <1>3, <1>4, <1>5, <1>6 DEF RequestOK

\* A step of r to x, y and z, for all requests.
Goes(r, x, y, z) ==
  /\ req' = [req EXCEPT ![r] = x] /\ work' = [work EXCEPT ![r] = y]
  /\ held'[r] = z /\ RequestOK(x, y, gone[r], over[r], z)'

LEMMA StepKeepsIInv ==
  ASSUME IInv, NEW r \in Requests, MembersTyped', inv' \in [Invites -> InviteType], InvitesKept,
         NEW x \in RequestType, NEW y \in [Workspaces -> Stages], NEW z, Goes(r, x, y, z),
         gone' \in [Requests -> SUBSET (Users \X Places)],
         over' \in [Requests -> SUBSET {"org", "member"}],
         held' \in [Requests -> HeldType],
         \A s \in Requests \ {r} :
           IF req[s].step = "idle" THEN held'[s] = held[s]
           ELSE Overtaken(req[s], gone[s], over[s], held[s], gone'[s], over'[s], held'[s])
  PROVE  IInv'
<1> USE DEF Goes
<1>1. Typed'
  BY DEF IInv, Typed
<1>2. ASSUME NEW s \in Requests PROVE RequestOK(req[s], work[s], gone[s], over[s], held[s])'
  <2>1. CASE s = r
    <3>1. req'[s] = x /\ work'[s] = y /\ held'[s] = z
      BY <2>1 DEF IInv, Typed
    <3> QED
      BY <2>1, <3>1
  <2>2. CASE s # r
    <3>1. PICK q \in RequestType, k \in [Workspaces -> Stages], h \in HeldType :
            q = req[s] /\ k = work[s] /\ h = held[s]
      BY DEF IInv, Typed
    <3>2. PICK g, o, g2, o2, h2 : /\ g = gone[s] /\ o = over[s]
                                  /\ g2 = gone'[s] /\ o2 = over'[s] /\ h2 = held'[s]
      OBVIOUS
    <3>3. q = req'[s] /\ k = work'[s] /\ RequestOK(q, k, g, o, h)
      BY <2>2, <3>1, <3>2 DEF IInv, Typed
    <3>4. RequestOK(q, k, g2, o2, h2)'
      <4>1. CASE q.step = "idle"
        <5>1. h2 = h
          BY <2>2, <3>1, <3>2, <4>1
        <5> QED
          BY <3>3, <4>1, <5>1 DEF RequestOK, Shape
      <4>2. CASE q.step # "idle"
        <5>1. Overtaken(q, g, o, h, g2, o2, h2)
          BY <2>2, <3>1, <3>2, <4>2
        <5> QED
          BY <3>3, <4>2, <5>1, OvertakenOK DEF IInv
      <4> QED
        BY <4>1, <4>2
    <3> QED
      BY <3>2, <3>3, <3>4
  <2> QED
    BY <2>1, <2>2
<1> QED
  BY <1>1, <1>2 DEF IInv

LEMMA IdleAny ==
  ASSUME NEW x, NEW y, NEW g, NEW o, NEW z, RequestOK(x, y, g, o, z)', x.step = "idle", NEW g2, NEW o2
  PROVE  RequestOK(x, y, g2, o2, z)'
BY DEF RequestOK

\* The step of r only reads, or fails.
Looks(r, x, y, g, o, z) ==
  /\ req' = [req EXCEPT ![r] = x] /\ work' = [work EXCEPT ![r] = y]
  /\ gone' = [gone EXCEPT ![r] = g] /\ over' = [over EXCEPT ![r] = o]
  /\ held' = [held EXCEPT ![r] = z]
  /\ UNCHANGED <<members, inv>>

LEMMA LookingKeepsIInv ==
  ASSUME IInv, NEW r \in Requests, NEW x \in RequestType, NEW y \in [Workspaces -> Stages],
         NEW g \in SUBSET (Users \X Places), NEW o \in SUBSET {"org", "member"},
         NEW z \in HeldType, Looks(r, x, y, g, o, z), RequestOK(x, y, g, o, z)
  PROVE  IInv'
<1> USE DEF Looks
<1>1. MembersTyped' /\ inv' \in [Invites -> InviteType] /\ InvitesKept /\ SameAnswers
  BY DEF IInv, Typed, MembersTyped, members, InvitesKept, SameAnswers
<1>2. /\ gone' \in [Requests -> SUBSET (Users \X Places)] /\ held' \in [Requests -> HeldType]
      /\ over' \in [Requests -> SUBSET {"org", "member"}]
  BY DEF IInv, Typed
<1>3. RequestOK(x, y, g, o, z)'
  BY DEF members, RequestOK, Shape, Chain, Clear, Known, Waiting, PendingFor, Inside
<1>4. /\ gone'[r] = g /\ over'[r] = o /\ held'[r] = z
      /\ \A s \in Requests \ {r} : gone'[s] = gone[s] /\ over'[s] = over[s] /\ held'[s] = held[s]
  BY DEF IInv, Typed
<1>5. Goes(r, x, y, z)
  BY <1>3, <1>4 DEF Goes
<1>6. \A s \in Requests \ {r} :
        Overtaken(req[s], gone[s], over[s], held[s], gone'[s], over'[s], held'[s])
  BY <1>1, <1>4 DEF Overtaken, Recorded, members
<1> QED
  BY <1>1, <1>2, <1>5, <1>6, StepKeepsIInv

\* The step of r writes the tables of members, and deletes the rows del.
Deletes(del) ==
  /\ \A u \in Users : org[u] # "NONE" /\ org'[u] = "NONE" => <<u, "org">> \in del
  /\ \A u \in Users, w \in Workspaces : ws[u][w] # "NONE" /\ ws'[u][w] = "NONE" => <<u, w>> \in del
  /\ \A u \in Users, p \in Projects : prj[u][p] # "NONE" /\ prj'[u][p] = "NONE" => <<u, p>> \in del
Writes(r, x, y, g, o, z, kind, del) ==
  /\ req' = [req EXCEPT ![r] = x] /\ work' = [work EXCEPT ![r] = y]
  /\ g = gone[r] /\ o = over[r] /\ Wrote(r, kind, del) /\ Deletes(del) /\ MembersTyped'
  /\ held' = [held EXCEPT ![r] = z]
  /\ UNCHANGED inv

LEMMA WritingKeepsIInv ==
  ASSUME IInv, NEW r \in Requests, NEW x \in RequestType, NEW y \in [Workspaces -> Stages],
         NEW g, NEW o, NEW z \in HeldType, NEW kind \in {"org", "member"},
         NEW del \in SUBSET (Users \X Places), Writes(r, x, y, g, o, z, kind, del),
         RequestOK(x, y, g, o, z)'
  PROVE  IInv'
<1> USE DEF Writes
<1>1. /\ req \in [Requests -> RequestType] /\ held \in [Requests -> HeldType]
      /\ gone \in [Requests -> SUBSET (Users \X Places)]
      /\ over \in [Requests -> SUBSET {"org", "member"}]
      /\ inv \in [Invites -> InviteType]
  BY DEF IInv, Typed
<1>2. /\ inv' \in [Invites -> InviteType] /\ InvitesKept /\ SameAnswers
      /\ held'[r] = z /\ held' \in [Requests -> HeldType] /\ req'[r] = x
      /\ \A s \in Requests \ {r} : held'[s] = held[s] /\ req'[s] = req[s]
  BY <1>1 DEF InvitesKept, SameAnswers
<1>3. /\ over' = [s \in Requests |-> over'[s]] /\ gone' = [s \in Requests |-> gone'[s]]
      /\ \A s \in Requests : req'[s].step = "idle" => over'[s] = {} /\ gone'[s] = {}
      /\ x.step # "idle" => over'[r] = o /\ gone'[r] = g
      /\ \A s \in Requests \ {r} : req[s].step # "idle" =>
           /\ over'[s] = over[s] \union {kind}
           /\ gone'[s] = gone[s] \union {d \in del : d[1] \in req[s].who}
  BY <1>2 DEF Wrote, Active
<1>4. /\ \A s \in Requests : over'[s] \in SUBSET {"org", "member"} /\ gone'[s] \in SUBSET (Users \X Places)
      /\ \A s \in Requests : req[s].who \subseteq Users
  BY <1>1, <1>2, <1>3 DEF RequestType
<1>5. over' \in [Requests -> SUBSET {"org", "member"}] /\ gone' \in [Requests -> SUBSET (Users \X Places)]
  BY <1>3, <1>4
<1>6. Goes(r, x, y, z)
  <2>1. PICK g2, o2 : g2 = gone'[r] /\ o2 = over'[r]
    OBVIOUS
  <2>2. RequestOK(x, y, g2, o2, z)'
    BY <1>3, <2>1, IdleAny
  <2> QED
    BY <1>2, <2>1, <2>2 DEF Goes
<1>7. ASSUME NEW s \in Requests \ {r}
      PROVE  IF req[s].step = "idle" THEN held'[s] = held[s]
             ELSE Overtaken(req[s], gone[s], over[s], held[s], gone'[s], over'[s], held'[s])
  <2>1. CASE req[s].step = "idle"
    BY <1>2, <2>1
  <2>2. CASE req[s].step # "idle"
    <3>1. PICK who, g2 : who = req[s].who /\ g2 = gone'[s]
      OBVIOUS
    <3>2. \A u, v : <<u, v>>[1] = u
      OBVIOUS
    <3>3. \A u \in who : \A v : <<u, v>> \in del => <<u, v>> \in g2
      BY <1>3, <2>2, <3>1, <3>2
    <3>4. Recorded(who, g2)
      BY <1>4, <3>1, <3>3 DEF Recorded, Deletes
    <3>5. over'[s] # {} /\ gone[s] \subseteq gone'[s]
      BY <1>3, <2>2
    <3> QED
      BY <1>2, <2>2, <3>1, <3>4, <3>5 DEF Overtaken
  <2> QED
    BY <2>1, <2>2
<1> QED
  BY <1>2, <1>5, <1>6, <1>7, StepKeepsIInv

\* The step of r writes an invitation.
Answers(r, x, y, g, o, z) ==
  /\ req' = [req EXCEPT ![r] = x] /\ work' = [work EXCEPT ![r] = y]
  /\ gone' = [gone EXCEPT ![r] = g] /\ over' = [over EXCEPT ![r] = o]
  /\ held' = [s \in Requests |-> IF s = r THEN z ELSE IF req[s].step = "idle" THEN Nothing
                                 ELSE [held[s] EXCEPT !.late = TRUE]]
  /\ InvitesKept /\ inv' \in [Invites -> InviteType]
  /\ UNCHANGED members

LEMMA AnsweringKeepsIInv ==
  ASSUME IInv, NEW r \in Requests, NEW x \in RequestType, NEW y \in [Workspaces -> Stages],
         NEW g \in SUBSET (Users \X Places), NEW o \in SUBSET {"org", "member"},
         NEW z \in HeldType, Answers(r, x, y, g, o, z), RequestOK(x, y, g, o, z)'
  PROVE  IInv'
<1> USE DEF Answers
<1>1. MembersTyped'
  BY DEF IInv, Typed, MembersTyped, members
<1>2. /\ gone' \in [Requests -> SUBSET (Users \X Places)]
      /\ over' \in [Requests -> SUBSET {"org", "member"}]
  BY DEF IInv, Typed
<1>3. held' \in [Requests -> HeldType]
  <2>1. \A s \in Requests : [held[s] EXCEPT !.late = TRUE] \in HeldType
    BY DEF IInv, Typed, HeldType
  <2> QED
    BY <2>1, IdleType
<1>4. /\ gone'[r] = g /\ over'[r] = o /\ held'[r] = z
      /\ \A s \in Requests \ {r} : gone'[s] = gone[s] /\ over'[s] = over[s]
  BY DEF IInv, Typed
<1>5. Goes(r, x, y, z)
  BY <1>4 DEF Goes
<1>6. ASSUME NEW s \in Requests \ {r}
      PROVE  IF req[s].step = "idle" THEN held'[s] = held[s]
             ELSE Overtaken(req[s], gone[s], over[s], held[s], gone'[s], over'[s], held'[s])
  <2>1. req[s].step = "idle" => held[s] = Nothing
    BY DEF IInv, RequestOK, Shape
  <2> QED
    BY <1>4, <2>1 DEF Overtaken, Recorded, members
<1> QED
  BY <1>1, <1>2, <1>3, <1>5, <1>6, StepKeepsIInv

LEMMA Acting ==
  ASSUME IInv, NEW r \in Requests
  PROVE  /\ req[r] \in RequestType /\ work[r] \in [Workspaces -> Stages]
         /\ gone[r] \in SUBSET (Users \X Places) /\ over[r] \in SUBSET {"org", "member"}
         /\ held[r] \in HeldType
         /\ RequestOK(req[r], work[r], gone[r], over[r], held[r])
BY DEF IInv, Typed

LEMMA RestingWork ==
  ASSUME IInv, NEW r \in Requests, req[r].step # "spread"
  PROVE  /\ work[r] \in [Workspaces -> Stages] /\ (\A w \in Workspaces : work[r][w] = "none")
         /\ work = [work EXCEPT ![r] = work[r]]
BY DEF IInv, Typed, RequestOK, Shape

LEMMA Placement ==
  /\ "org" \in Places /\ Workspaces \subseteq Places /\ Projects \subseteq Places
  /\ Roles \subseteq Row /\ High \subseteq Roles /\ "OWNER" \in Roles /\ "MEMBER" \in Roles
  /\ "NONE" \notin Roles /\ \A r : Assignable(r) \subseteq Roles
BY DEF Places, Row, Roles, High, Assignable

-----------------------------------------------------------------------------
\* Requests of the member services that begin.
Fresh(x, op, actor, who, u, role, at, step) ==
  /\ x = [Idle EXCEPT !.step = step, !.op = op, !.actor = actor, !.user = u, !.who = who,
                      !.role = role, !.at = at]
  /\ op \in AllOps /\ actor \in Actors /\ who \in SUBSET Users /\ u \in Users
  /\ role \in Row /\ at \in Places /\ step \in Steps

LEMMA FreshType ==
  ASSUME NEW x, NEW op, NEW actor, NEW who, NEW u, NEW role, NEW at, NEW step,
         Fresh(x, op, actor, who, u, role, at, step)
  PROVE  /\ x \in RequestType /\ x.step = step /\ x.op = op /\ x.actor = actor /\ x.who = who
         /\ x.user = u /\ x.role = role /\ x.at = at /\ x.then = "idle" /\ x.ok = TRUE
BY IdleType DEF Fresh, RequestType, Idle

Asked(r, op, actor, who, u, role, at, step, y) ==
  /\ Begin(r, op, actor, who, u, role, at, step) /\ work' = [work EXCEPT ![r] = y]
  /\ op \in Ops /\ actor \in Users /\ who \in SUBSET Users /\ u \in Users /\ role \in Row /\ at \in Places
  /\ step \in {"write", "spread", "remove"} /\ y \in [Workspaces -> Stages]
  /\ Takes(op, step) /\ (op # "transfer" => role \in Roles)
  /\ (\E w \in Workspaces : y[w] # "none") <=> step = "spread"

LEMMA OpsApart == Ops \intersect InviteOps = {}
BY DEF Ops, OrgOps, WsOps, PrjOps, InviteOps

LEMMA AskedKeepsIInv ==
  ASSUME IInv, NEW r \in Requests, NEW op, NEW actor, NEW who, NEW u, NEW role, NEW at, NEW step,
         NEW y, Asked(r, op, actor, who, u, role, at, step, y),
         held' = [held EXCEPT ![r] = IF Active(r) THEN @ ELSE Nothing], UNCHANGED inv
  PROVE  IInv'
<1>1. PICK x : x = [Idle EXCEPT !.step = step, !.op = op, !.actor = actor, !.user = u,
                                !.who = who, !.role = role, !.at = at]
  OBVIOUS
<1>2. step # "idle" /\ Fresh(x, op, actor, who, u, role, at, step)
  BY <1>1 DEF Steps, Asked, AllOps, Actors, Fresh
<1>3. /\ x \in RequestType /\ x.step = step /\ x.op = op /\ x.role = role /\ x.then = "idle"
  BY <1>2, FreshType
<1> USE DEF Asked
<1>4. held[r] = Nothing
  BY Acting DEF Begin, RequestOK, Shape
<1>5. req' = [req EXCEPT ![r] = x] /\ req'[r] = x
  BY <1>1 DEF Begin, Fresh, IInv, Typed
<1>6. Looks(r, x, y, {}, {}, Nothing)
  BY <1>2, <1>3, <1>4, <1>5 DEF Looks, Begin, Active, IInv, Typed
<1>7. op \notin InviteOps
  BY OpsApart
<1>8. RequestOK(x, y, {}, {}, Nothing)
  <2>1. Shape(x, y, Nothing)
    BY <1>2, <1>3, <1>7 DEF Shape, Leads, InviteOps, Nothing, Takes
  <2>2. Known(x, Nothing)
    BY <1>2, <1>3, <1>7 DEF Known, InviteOps
  <2> QED
    BY <1>3, <1>7, <2>1, <2>2 DEF RequestOK, InviteOps
<1> QED
  BY <1>3, <1>6, <1>8, IdleType, LookingKeepsIInv


\* A request that begins without work, or with work at one workspace.
BeginsResting(r, op, actor, who, u, role, at, step) ==
  /\ Begin(r, op, actor, who, u, role, at, step) /\ UNCHANGED work
  /\ op \in Ops /\ actor \in Users /\ who \in SUBSET Users /\ u \in Users /\ role \in Row /\ at \in Places
  /\ step \in {"write", "remove"} /\ Takes(op, step) /\ (op # "transfer" => role \in Roles)
BeginsAt(r, op, actor, u, role, w, stage) ==
  /\ Begin(r, op, actor, {u}, u, role, w, "spread") /\ work' = [work EXCEPT ![r][w] = stage]
  /\ op \in {"wsAdd", "wsUpdate"} /\ stage \in {"check", "update"}
  /\ actor \in Users /\ u \in Users /\ role \in Roles

AnyAsked(r) ==
  \E op, actor, who, u, role, at, step, y : Asked(r, op, actor, who, u, role, at, step, y)

LEMMA RestingAsked ==
  ASSUME IInv, NEW r \in Requests, NEW op, NEW actor, NEW who, NEW u, NEW role, NEW at, NEW step,
         BeginsResting(r, op, actor, who, u, role, at, step)
  PROVE  AnyAsked(r)
<1>1. PICK y : y = work[r]
  OBVIOUS
<1>2. /\ y \in [Workspaces -> Stages] /\ (\A w \in Workspaces : y[w] = "none")
      /\ work' = [work EXCEPT ![r] = y]
  BY <1>1, RestingWork DEF BeginsResting, Begin
<1>3. Asked(r, op, actor, who, u, role, at, step, y)
  BY <1>2 DEF BeginsResting, Asked
<1> QED
  BY <1>3 DEF AnyAsked

LEMMA AtAsked ==
  ASSUME IInv, NEW r \in Requests, NEW op, NEW actor, NEW u, NEW role, NEW w \in Workspaces,
         NEW stage, BeginsAt(r, op, actor, u, role, w, stage)
  PROVE  AnyAsked(r)
<1>1. PICK y : y = [work[r] EXCEPT ![w] = stage]
  OBVIOUS
<1>2. y \in [Workspaces -> Stages] /\ y[w] # "none" /\ work' = [work EXCEPT ![r] = y]
  BY <1>1, RestingWork DEF BeginsAt, Begin, Stages
<1>3. op \in Ops /\ Takes(op, "spread") /\ role \in Row /\ w \in Places
  BY Placement DEF BeginsAt, Ops, WsOps, Takes
<1>4. Asked(r, op, actor, {u}, u, role, w, "spread", y)
  BY <1>2, <1>3 DEF BeginsAt, Asked
<1> QED
  BY <1>4 DEF AnyAsked

LEMMA AsksAsked == ASSUME IInv, NEW r \in Requests, Asks(r) PROVE AnyAsked(r)
<1>1. CASE AskOrgAdd(r) \/ AskOrgUpdate(r)
  <2>1. PICK op \in {"orgAdd", "orgUpdate"}, a \in Users, u \in Users, role \in Assignable(r) :
          Begin(r, op, a, {u}, u, role, "org", "write") /\ UNCHANGED work
    BY <1>1 DEF AskOrgAdd, AskOrgUpdate
  <2>2. op \in Ops /\ Takes(op, "write") /\ role \in Roles /\ role \in Row /\ "org" \in Places
    BY Placement DEF Ops, OrgOps, Takes
  <2>3. BeginsResting(r, op, a, {u}, u, role, "org", "write")
    BY <2>1, <2>2 DEF BeginsResting
  <2> QED
    BY <2>3, RestingAsked
<1>2. CASE AskTransfer(r)
  <2>1. PICK u \in Users :
          Begin(r, "transfer", owner, {u}, u, org[u], "org", "write") /\ UNCHANGED work
    BY <1>2 DEF AskTransfer
  <2>2. PICK a, role : a = owner /\ role = org[u]
    OBVIOUS
  <2>3. /\ "transfer" \in Ops /\ Takes("transfer", "write") /\ role \in Row /\ "org" \in Places
        /\ a \in Users
    BY <2>2, Placement DEF Ops, Takes, IInv, Typed, MembersTyped
  <2>4. BeginsResting(r, "transfer", a, {u}, u, role, "org", "write")
    BY <2>1, <2>2, <2>3 DEF BeginsResting
  <2> QED
    BY <2>4, RestingAsked
<1>3. CASE AskOrgRemove(r) \/ AskWsRemove(r) \/ AskPrjRemove(r)
  <2>1. PICK a \in Users, who \in SUBSET Users, at \in Places,
             op \in {"orgRemove", "orgBulkRemove", "wsRemove", "wsBulkRemove", "prjRemove", "prjBulkRemove"} :
          Begin(r, op, a, who, a, "MEMBER", at, "remove") /\ UNCHANGED work
    <3>1. CASE AskOrgRemove(r)
      BY <3>1, Placement DEF AskOrgRemove
    <3>2. CASE AskWsRemove(r)
      BY <3>2, Placement DEF AskWsRemove
    <3>3. CASE AskPrjRemove(r)
      BY <3>3, Placement DEF AskPrjRemove
    <3> QED
      BY <1>3, <3>1, <3>2, <3>3
  <2>2. op \in Ops /\ Takes(op, "remove") /\ "MEMBER" \in Roles /\ "MEMBER" \in Row
    BY Placement DEF Ops, OrgOps, WsOps, PrjOps, Takes
  <2>3. BeginsResting(r, op, a, who, a, "MEMBER", at, "remove")
    BY <2>1, <2>2 DEF BeginsResting
  <2> QED
    BY <2>3, RestingAsked
<1>4. CASE AskWsAdd(r) \/ AskWsUpdate(r)
  <2>1. PICK a \in Users, u \in Users, w \in Workspaces, role \in Assignable(r),
             op \in {"wsAdd", "wsUpdate"}, stage \in {"check", "update"} :
          /\ Begin(r, op, a, {u}, u, role, w, "spread")
          /\ work' = [work EXCEPT ![r][w] = stage]
    BY <1>4 DEF AskWsAdd, AskWsUpdate
  <2>2. BeginsAt(r, op, a, u, role, w, stage)
    BY <2>1, Placement DEF BeginsAt
  <2> QED
    BY <2>2, AtAsked
<1>5. CASE AskPrjAdd(r) \/ AskPrjUpdate(r)
  <2>1. PICK op \in {"prjAdd", "prjUpdate"}, a \in Users, u \in Users, p \in Projects, role \in Assignable(r) :
          Begin(r, op, a, {u}, u, role, p, "write") /\ UNCHANGED work
    BY <1>5 DEF AskPrjAdd, AskPrjUpdate
  <2>2. op \in Ops /\ Takes(op, "write") /\ role \in Roles /\ role \in Row /\ p \in Places
    BY Placement DEF Ops, PrjOps, Takes
  <2>3. BeginsResting(r, op, a, {u}, u, role, p, "write")
    BY <2>1, <2>2 DEF BeginsResting
  <2> QED
    BY <2>3, RestingAsked
<1> QED
  BY <1>1, <1>2, <1>3, <1>4, <1>5 DEF Asks

LEMMA AsksKeepIInv ==
  ASSUME IInv, NEW r \in Requests, Asks(r),
         held' = [held EXCEPT ![r] = IF Active(r) THEN @ ELSE Nothing], UNCHANGED inv
  PROVE  IInv'
BY AsksAsked, AskedKeepsIInv DEF AnyAsked

-----------------------------------------------------------------------------
\* Steps of the member services that end a request.
Drops(r) == held' = [held EXCEPT ![r] = Nothing] /\ UNCHANGED inv
Keeps(r) == held' = [held EXCEPT ![r] = IF Active(r) THEN @ ELSE Nothing] /\ UNCHANGED inv

LEMMA FinishDrops == ASSUME IInv, NEW r \in Requests, Finish(r), Keeps(r) PROVE Drops(r)
BY IdleType DEF Finish, Keeps, Drops, Active, IInv, Typed

LEMMA FailKeepsIInv ==
  ASSUME IInv, NEW r \in Requests, req[r].step # "spread", Fail(r), Drops(r) PROVE IInv'
<1>1. PICK x, y : x = Idle /\ y = work[r]
  OBVIOUS
<1>2. /\ x \in RequestType /\ x.step = "idle" /\ y \in [Workspaces -> Stages]
      /\ (\A w \in Workspaces : y[w] = "none") /\ work' = [work EXCEPT ![r] = y]
      /\ RequestOK(x, y, {}, {}, Nothing)
  BY <1>1, IdleType, RestingWork, RestingOK DEF Fail, Roles
<1>3. Looks(r, x, y, {}, {}, Nothing)
  BY <1>1, <1>2 DEF Fail, Finish, Drops, Looks
<1> QED
  BY <1>2, <1>3, IdleType, LookingKeepsIInv

Ends(r, kind, del) ==
  /\ req[r].step # "spread" /\ Finish(r) /\ Drops(r) /\ UNCHANGED work
  /\ kind \in {"org", "member"} /\ del \in SUBSET (Users \X Places)
  /\ Wrote(r, kind, del) /\ Deletes(del) /\ MembersTyped'

LEMMA EndsKeepsIInv ==
  ASSUME IInv, NEW r \in Requests, NEW kind, NEW del, Ends(r, kind, del) PROVE IInv'
<1>1. PICK x, y, g, o : x = Idle /\ y = work[r] /\ g = gone[r] /\ o = over[r]
  OBVIOUS
<1>2. /\ x \in RequestType /\ x.step = "idle" /\ y \in [Workspaces -> Stages]
      /\ (\A w \in Workspaces : y[w] = "none") /\ work' = [work EXCEPT ![r] = y]
  BY <1>1, IdleType, RestingWork DEF Ends
<1>3. RequestOK(x, y, g, o, Nothing)'
  BY <1>1, <1>2, IdleType DEF RequestOK, Shape, Takes, Roles
<1>4. Writes(r, x, y, g, o, Nothing, kind, del)
  BY <1>1, <1>2 DEF Ends, Finish, Drops, Writes
<1>5. kind \in {"org", "member"} /\ del \in SUBSET (Users \X Places)
  BY DEF Ends
<1> QED
  BY <1>2, <1>3, <1>4, <1>5, IdleType, WritingKeepsIInv

LEMMA RemoveWsKeepsIInv == ASSUME IInv, NEW r \in Requests, RemoveWs(r), Keeps(r) PROVE IInv'
<1>1. PICK w, who, rows : w = req[r].at /\ who = req[r].who /\ rows = {u \in who : <<u, w>> \notin gone[r]}
  OBVIOUS
<1>2. req[r].step = "remove" /\ who \subseteq Users /\ rows \subseteq who /\ w \in Places
  BY <1>1, Acting DEF RemoveWs, RequestType
<1>3. CASE Fail(r)
  BY <1>2, <1>3, FailKeepsIInv, FinishDrops DEF Fail
<1>4. ASSUME prj' = [u \in Users |-> [p \in Projects |->
                        IF u \in who /\ p \in ProjectsOf(w) THEN "NONE" ELSE prj[u][p]]],
             ws' = [u \in Users |-> [ws[u] EXCEPT ![w] = IF u \in rows THEN "NONE" ELSE @]],
             Finish(r), Wrote(r, "member", (rows \X {w}) \union (who \X ProjectsOf(w))),
             UNCHANGED <<owner, org, work>>
      PROVE  IInv'
  <2>1. PICK del : del = (rows \X {w}) \union (who \X ProjectsOf(w))
    OBVIOUS
  <2>2. del \in SUBSET (Users \X Places)
    BY <1>2, <2>1 DEF ProjectsOf, Places
  <2>3. ws \in [Users -> [Workspaces -> Row]] /\ prj \in [Users -> [Projects -> Row]] /\ "NONE" \in Row
    BY DEF IInv, Typed, MembersTyped, Row
  <2>4. /\ prj' \in [Users -> [Projects -> Row]]
        /\ \A u \in Users, p \in Projects : prj[u][p] # "NONE" /\ prj'[u][p] = "NONE" => <<u, p>> \in del
    BY <1>4, <2>1, <2>3
  <2>5. /\ ws' \in [Users -> [Workspaces -> Row]]
        /\ \A u \in Users, v \in Workspaces : ws[u][v] # "NONE" /\ ws'[u][v] = "NONE" => <<u, v>> \in del
    BY <1>4, <2>1, <2>3
  <2>6. MembersTyped'
    BY <1>4, <2>4, <2>5 DEF IInv, Typed, MembersTyped
  <2>7. Deletes(del)
    BY <1>4, <2>4, <2>5 DEF Deletes
  <2>8. Ends(r, "member", del)
    BY <1>2, <1>4, <2>1, <2>2, <2>6, <2>7, FinishDrops DEF Ends
  <2> QED
    BY <2>8, EndsKeepsIInv
<1> QED
  BY <1>1, <1>3, <1>4 DEF RemoveWs

LEMMA RemoveOrgKeepsIInv == ASSUME IInv, NEW r \in Requests, RemoveOrg(r), Keeps(r) PROVE IInv'
<1>1. PICK who, rows : who = req[r].who /\ rows = {u \in who : <<u, "org">> \notin gone[r]}
  OBVIOUS
<1>2. req[r].step = "remove" /\ who \subseteq Users /\ rows \subseteq who
  BY <1>1, Acting DEF RemoveOrg, RequestType
<1>3. CASE Fail(r)
  BY <1>2, <1>3, FailKeepsIInv, FinishDrops DEF Fail
<1>4. ASSUME ws' = [u \in Users |-> IF u \in who THEN [w \in Workspaces |-> "NONE"] ELSE ws[u]],
             prj' = [u \in Users |-> IF u \in who THEN [p \in Projects |-> "NONE"] ELSE prj[u]],
             org' = [u \in Users |-> IF u \in rows THEN "NONE" ELSE org[u]],
             Finish(r), UNCHANGED <<owner, work>>,
             Wrote(r, "org", (rows \X {"org"}) \union (who \X (Workspaces \union Projects)))
      PROVE  IInv'
  <2>1. PICK del : del = (rows \X {"org"}) \union (who \X (Workspaces \union Projects))
    OBVIOUS
  <2>2. del \in SUBSET (Users \X Places)
    BY <1>2, <2>1 DEF Places
  <2>3. /\ ws \in [Users -> [Workspaces -> Row]] /\ prj \in [Users -> [Projects -> Row]]
        /\ org \in [Users -> Row] /\ owner \in Users /\ "NONE" \in Row
    BY DEF IInv, Typed, MembersTyped, Row
  <2>4. MembersTyped'
    BY <1>4, <2>3 DEF MembersTyped
  <2>5. Deletes(del)
    BY <1>4, <2>1 DEF Deletes
  <2>6. Ends(r, "org", del)
    BY <1>2, <1>4, <2>1, <2>2, <2>4, <2>5, FinishDrops DEF Ends
  <2> QED
    BY <2>6, EndsKeepsIInv
<1> QED
  BY <1>1, <1>3, <1>4 DEF RemoveOrg

LEMMA RemovePrjKeepsIInv == ASSUME IInv, NEW r \in Requests, RemovePrj(r), Keeps(r) PROVE IInv'
<1>1. PICK p, rows : p = req[r].at /\ rows = {u \in req[r].who : <<u, p>> \notin gone[r]}
  OBVIOUS
<1>2. req[r].step = "remove" /\ rows \subseteq Users /\ p \in Places
  BY <1>1, Acting DEF RemovePrj, RequestType
<1>3. CASE Fail(r)
  BY <1>2, <1>3, FailKeepsIInv, FinishDrops DEF Fail
<1>4. ASSUME prj' = [u \in Users |-> [prj[u] EXCEPT ![p] = IF u \in rows THEN "NONE" ELSE @]],
             Finish(r), Wrote(r, "member", rows \X {p}), UNCHANGED <<owner, org, ws, work>>
      PROVE  IInv'
  <2>1. PICK del : del = rows \X {p}
    OBVIOUS
  <2>2. del \in SUBSET (Users \X Places)
    BY <1>2, <2>1
  <2>3. prj \in [Users -> [Projects -> Row]] /\ "NONE" \in Row
    BY DEF IInv, Typed, MembersTyped, Row
  <2>4. /\ prj' \in [Users -> [Projects -> Row]]
        /\ \A u \in Users, m \in Projects : prj[u][m] # "NONE" /\ prj'[u][m] = "NONE" => <<u, m>> \in del
    BY <1>4, <2>1, <2>3
  <2>5. MembersTyped' /\ Deletes(del)
    BY <1>4, <2>4 DEF IInv, Typed, MembersTyped, Deletes
  <2>6. Ends(r, "member", del)
    BY <1>2, <1>4, <2>1, <2>2, <2>5, FinishDrops DEF Ends
  <2> QED
    BY <2>6, EndsKeepsIInv
<1> QED
  BY <1>1, <1>3, <1>4 DEF RemovePrj

LEMMA WritePrjKeepsIInv == ASSUME IInv, NEW r \in Requests, WritePrj(r), Keeps(r) PROVE IInv'
<1>1. PICK u, p, role : u = req[r].user /\ p = req[r].at /\ role = req[r].role
  OBVIOUS
<1>2. /\ req[r].step = "write" /\ u \in Users /\ role \in Roles
      /\ req[r].op # "transfer"
  BY <1>1, Acting DEF WritePrj, RequestType, RequestOK, Shape, PrjOps
<1>3. CASE Fail(r)
  BY <1>2, <1>3, FailKeepsIInv, FinishDrops DEF Fail
<1>4. ASSUME prj' = [prj EXCEPT ![u][p] = role], Finish(r), Wrote(r, "member", {}),
             UNCHANGED <<owner, org, ws, work>>
      PROVE  IInv'
  <2>1. prj \in [Users -> [Projects -> Row]] /\ role \in Row /\ role # "NONE"
    BY <1>2, Placement DEF IInv, Typed, MembersTyped
  <2>2. /\ prj' \in [Users -> [Projects -> Row]]
        /\ \A v \in Users, m \in Projects : prj[v][m] # "NONE" => prj'[v][m] # "NONE"
    BY <1>2, <1>4, <2>1
  <2>3. MembersTyped' /\ Deletes({})
    BY <1>4, <2>2 DEF IInv, Typed, MembersTyped, Deletes
  <2>4. Ends(r, "member", {})
    BY <1>2, <1>4, <2>3, FinishDrops DEF Ends
  <2> QED
    BY <2>4, EndsKeepsIInv
<1> QED
  BY <1>1, <1>3, <1>4 DEF WritePrj

LEMMA TransferKeepsIInv == ASSUME IInv, NEW r \in Requests, Transfer(r), Keeps(r) PROVE IInv'
<1>1. PICK u, prev : u = req[r].user /\ prev = req[r].actor
  OBVIOUS
<1>2. req[r].step = "write" /\ u \in Users
  BY <1>1, Acting DEF Transfer, RequestType
<1>3. CASE Fail(r)
  BY <1>2, <1>3, FailKeepsIInv, FinishDrops DEF Fail
<1>4. CASE ~Fail(r)
  <2>1. PICK promoted :
          /\ promoted = IF req[r].role = "OWNER" THEN org ELSE [org EXCEPT ![u] = "OWNER"]
          /\ org' = [promoted EXCEPT ![prev] = IF @ = "OWNER" THEN "MANAGER" ELSE @]
          /\ owner' = u /\ Finish(r) /\ Wrote(r, "org", {}) /\ UNCHANGED <<ws, prj, work>>
    BY <1>1, <1>4 DEF Transfer
  <2>2. org \in [Users -> Row] /\ "OWNER" \in Row /\ "MANAGER" \in Row
    BY DEF IInv, Typed, MembersTyped, Row, Roles
  <2>3. promoted \in [Users -> Row] /\ \A v \in Users : org[v] # "NONE" => promoted[v] # "NONE"
    BY <1>2, <2>1, <2>2
  <2>4. org' \in [Users -> Row] /\ \A v \in Users : promoted[v] # "NONE" => org'[v] # "NONE"
    BY <2>1, <2>2, <2>3
  <2>5. MembersTyped' /\ Deletes({})
    BY <1>2, <2>1, <2>3, <2>4 DEF IInv, Typed, MembersTyped, Deletes
  <2>6. Ends(r, "org", {})
    BY <1>2, <2>1, <2>5, FinishDrops DEF Ends
  <2> QED
    BY <2>6, EndsKeepsIInv
<1> QED
  BY <1>3, <1>4

-----------------------------------------------------------------------------
\* Writes of an organization's row, which may go on to every workspace.
LEMMA InsertOrgKeepsIInv == ASSUME IInv, NEW r \in Requests, InsertOrg(r), Keeps(r) PROVE IInv'
<1>1. PICK q, k, g, o, h, u :
        /\ q = req[r] /\ k = work[r] /\ g = gone[r] /\ o = over[r] /\ h = held[r] /\ u = q.user
  OBVIOUS
<1>2. /\ q \in RequestType /\ k \in [Workspaces -> Stages] /\ h \in HeldType
      /\ RequestOK(q, k, g, o, h) /\ u \in Users
  BY <1>1, Acting DEF RequestType
<1>3. /\ q.step = "write" /\ q.op \in {"orgAdd", "accept"} /\ q.role \in Roles
      /\ (\A w \in Workspaces : k[w] = "none") /\ Leads(q.op, q.then)
      /\ h.inv # NoInvite \/ q.op # "accept"
  BY <1>1, <1>2, NoInviteAssumption DEF InsertOrg, RequestOK, Shape
<1>4. CASE Fail(r)
  BY <1>1, <1>3, <1>4, FailKeepsIInv, FinishDrops DEF Fail
<1>5. ASSUME ~Fail(r) PROVE IInv'
  <2>1. /\ org[u] = "NONE" /\ org' = [org EXCEPT ![u] = q.role]
        /\ Wrote(r, "org", {}) /\ UNCHANGED <<owner, ws, prj>>
    BY <1>1, <1>5 DEF InsertOrg
  <2>2. PICK x, y : /\ IF q.role \in High /\ Workspaces # {}
                         THEN y = [w \in Workspaces |-> "check"] /\ x = [q EXCEPT !.step = "spread"]
                         ELSE y = k /\ x = [q EXCEPT !.step = q.then]
                    /\ req' = [req EXCEPT ![r] = x] /\ work' = [work EXCEPT ![r] = y]
    <3>1. req[r] \in RequestType /\ work = [work EXCEPT ![r] = k]
      BY <1>1, <1>3, RestingWork, Acting
    <3> QED
      BY ZenonT(120), <1>1, <1>5, <3>1 DEF InsertOrg
  <2>3. PICK z : z = IF x.step = "idle" THEN Nothing ELSE h
    OBVIOUS
  <2>4. /\ x \in RequestType /\ y \in [Workspaces -> Stages] /\ z \in HeldType
        /\ x.op = q.op /\ x.role = q.role /\ x.user = u /\ x.at = q.at /\ x.then = q.then
        /\ x.who = q.who /\ x.actor = q.actor /\ x.ok = q.ok
        /\ x.step \in {"spread", q.then}
        /\ (\E w \in Workspaces : y[w] # "none") <=> x.step = "spread"
        /\ \A w \in Workspaces : y[w] \in {"none", "check"}
        /\ x.step = "spread" => q.role \in High
    <3>1. q.then \in Steps /\ q.then # "spread" /\ "spread" \in Steps /\ "check" \in Stages
      BY <1>2, <1>3 DEF Leads, RequestType, Steps, Stages
    <3> QED
      BY <1>1, <1>2, <1>3, <2>2, <2>3, <3>1, IdleType DEF RequestType
  <2>5. held' = [held EXCEPT ![r] = z]
    <3>1. req'[r] = x
      BY <2>2 DEF IInv, Typed
    <3> QED
      BY <1>1, <2>3, <3>1 DEF Keeps, Active
  <2>6. /\ MembersTyped' /\ Deletes({}) /\ org'[u] # "NONE"
    <3>1. q.role \in Row /\ q.role # "NONE"
      BY <1>3, Placement
    <3>2. org \in [Users -> Row]
      BY DEF IInv, Typed, MembersTyped
    <3>3. org' \in [Users -> Row] /\ org'[u] # "NONE" /\ \A v \in Users : org[v] # "NONE" => org'[v] # "NONE"
      BY <1>2, <2>1, <3>1, <3>2
    <3> QED
      BY <2>1, <3>3 DEF IInv, Typed, MembersTyped, Deletes
  <2>7. Writes(r, x, y, g, o, z, "org", {})
    BY <1>1, <2>1, <2>2, <2>5, <2>6 DEF Writes, Keeps
  <2>8. RequestOK(x, y, g, o, z)'
    <3>1. CASE q.op = "orgAdd"
      <4>1. Shape(x, y, z) /\ Known(x, z)'
        BY <1>2, <1>3, <2>3, <2>4, <3>1 DEF Shape, Takes, Leads, Known, RequestOK
      <4> QED
        BY <1>2, <2>4, <3>1, <4>1, <1>3 DEF RequestOK, Shape
    <3>2. CASE q.op = "accept"
      <4>1. /\ x.step \in {"spread", "settle", "acceptWs"} /\ z = h /\ Chain(q, k, g, h)
            /\ x.step = "spread" => q.at = "org" /\ q.then = "settle"
            /\ x.step = "settle" => q.at = "org"
            /\ x.step = "acceptWs" => q.at # "org"
        <5>1. Chain(q, k, g, h)
          BY <1>2, <1>3, <3>2 DEF RequestOK
        <5>2. IF q.at = "org" THEN q.then = "settle" ELSE q.then = "acceptWs" /\ q.role = "MEMBER"
          BY <1>3, <5>1 DEF Chain
        <5> QED
          BY <1>3, <2>3, <2>4, <5>1, <5>2 DEF High
      <4>2. Shape(x, y, z)
        BY <1>2, <1>3, <2>4, <3>2, <4>1 DEF Shape, Takes, RequestOK
      <4>3. Chain(x, y, g, z)'
        BY <1>1, <2>4, <2>6, <4>1, PlacesAssumption, <1>3 DEF Chain, Seen, Keeps, Places
      <4>4. o = {} /\ ~z.stray => Clear(x, y, z)'
        <5>1. SUFFICES ASSUME o = {}, ~z.stray PROVE Clear(x, y, z)'
          OBVIOUS
        <5>2. Clear(q, k, h) /\ q.ok
          BY <1>2, <1>3, <3>2, <4>1, <5>1 DEF RequestOK, Chain
        <5>3. \A w \in Workspaces : ws'[u][w] = "NONE"
          BY <1>1, <1>3, <2>1, <5>2 DEF Clear, Inside
        <5> QED
          BY <2>4, <4>1, <5>2, <5>3 DEF Clear
      <4>5. ~z.late => Known(x, z)'
        BY <1>2, <1>3, <2>4, <3>2, <4>1 DEF RequestOK, Known, Waiting, Keeps
      <4> QED
        BY <1>2, <1>3, <2>4, <4>1, <4>2, <4>3, <4>4, <4>5 DEF RequestOK, Shape
    <3> QED
      BY <1>3, <3>1, <3>2
  <2> QED
    BY <2>4, <2>7, <2>8, WritingKeepsIInv
<1> QED
  BY <1>4, <1>5

LEMMA UpdateOrgKeepsIInv == ASSUME IInv, NEW r \in Requests, UpdateOrg(r), Keeps(r) PROVE IInv'
<1>1. PICK q, k, g, o, h, u :
        /\ q = req[r] /\ k = work[r] /\ g = gone[r] /\ o = over[r] /\ h = held[r] /\ u = q.user
  OBVIOUS
<1>2. /\ q \in RequestType /\ k \in [Workspaces -> Stages] /\ h \in HeldType
      /\ RequestOK(q, k, g, o, h) /\ u \in Users
  BY <1>1, Acting DEF RequestType
<1>3. /\ q.step = "write" /\ q.op = "orgUpdate" /\ q.role \in Roles
      /\ (\A w \in Workspaces : k[w] = "none") /\ Leads(q.op, q.then)
  BY <1>1, <1>2 DEF UpdateOrg, RequestOK, Shape
<1>4. CASE Fail(r)
  BY <1>1, <1>3, <1>4, FailKeepsIInv, FinishDrops DEF Fail
<1>5. ASSUME ~Fail(r) PROVE IInv'
  <2>1. /\ org' = [org EXCEPT ![u] = q.role]
        /\ Wrote(r, "org", {}) /\ UNCHANGED <<owner, ws, prj>>
    BY <1>1, <1>5 DEF UpdateOrg
  <2>2. MembersTyped' /\ Deletes({})
    <3>1. q.role \in Row /\ q.role # "NONE"
      BY <1>3, Placement
    <3>2. org \in [Users -> Row]
      BY DEF IInv, Typed, MembersTyped
    <3>3. org' \in [Users -> Row] /\ \A v \in Users : org[v] # "NONE" => org'[v] # "NONE"
      BY <1>2, <2>1, <3>1, <3>2
    <3> QED
      BY <2>1, <3>3 DEF IInv, Typed, MembersTyped, Deletes
  <2>3. CASE Workspaces = {}
    <3>1. Finish(r) /\ UNCHANGED work
      BY <1>1, <1>5, <2>3 DEF UpdateOrg
    <3>2. Ends(r, "org", {})
      BY <1>1, <1>3, <2>1, <2>2, <3>1, FinishDrops DEF Ends
    <3> QED
      BY <3>2, EndsKeepsIInv
  <2>4. CASE Workspaces # {}
    <3>1. PICK x, y : /\ y = [w \in Workspaces |-> "find"] /\ x = [q EXCEPT !.step = "spread"]
                      /\ req' = [req EXCEPT ![r] = x] /\ work' = [work EXCEPT ![r] = y]
      <4>1. req[r] \in RequestType
        BY Acting
      <4> QED
        BY <1>1, <1>5, <2>4, <4>1 DEF UpdateOrg
    <3>2. /\ x \in RequestType /\ y \in [Workspaces -> Stages]
          /\ x.op = q.op /\ x.role = q.role /\ x.then = q.then /\ x.step = "spread"
          /\ \E w \in Workspaces : y[w] # "none"
      BY <1>2, <2>4, <3>1 DEF RequestType, Steps, Stages
    <3>3. held' = [held EXCEPT ![r] = h]
      <4>1. req'[r] = x
        BY <3>1 DEF IInv, Typed
      <4> QED
        BY <1>1, <3>2, <4>1 DEF Keeps, Active
    <3>4. Writes(r, x, y, g, o, h, "org", {})
      BY <1>1, <2>1, <2>2, <3>1, <3>3 DEF Writes, Keeps
    <3>5. Shape(x, y, h)' /\ Known(x, h)'
      BY <1>2, <1>3, <3>2 DEF Shape, Takes, Leads, Known, RequestOK
    <3>6. RequestOK(x, y, g, o, h)'
      BY <1>2, <1>3, <3>2, <3>5 DEF RequestOK
    <3> QED
      BY <1>2, <3>2, <3>4, <3>6, WritingKeepsIInv
  <2> QED
    BY <2>3, <2>4
<1> QED
  BY <1>4, <1>5

-----------------------------------------------------------------------------
\* Steps at one workspace.
Proceeded(r, q, k, h, w, stage, ok, x, y, z) ==
  /\ q = req[r] /\ k = work[r] /\ h = held[r] /\ k[w] # "none"
  /\ y = [k EXCEPT ![w] = stage] /\ y \in [Workspaces -> Stages]
  /\ x = IF \A v \in Workspaces : y[v] = "none"
           THEN IF q.ok /\ ok THEN [q EXCEPT !.step = q.then] ELSE Idle
           ELSE [q EXCEPT !.ok = q.ok /\ ok]
  /\ z = IF x.step = "idle" THEN Nothing ELSE h
  /\ req' = [req EXCEPT ![r] = x] /\ work' = [work EXCEPT ![r] = y]
  /\ held' = [held EXCEPT ![r] = z] /\ UNCHANGED inv
  /\ ok \in BOOLEAN /\ w \in Workspaces

LEMMA ProceedEffect ==
  ASSUME IInv, NEW r \in Requests, NEW w \in Workspaces, NEW stage \in Stages, NEW ok \in BOOLEAN,
         Proceed(r, w, stage, ok), Keeps(r), work[r][w] # "none"
  PROVE  \E q, k, h, x, y, z : Proceeded(r, q, k, h, w, stage, ok, x, y, z)
<1>1. PICK q, k, h : q = req[r] /\ k = work[r] /\ h = held[r]
  OBVIOUS
<1>2. q \in RequestType /\ k \in [Workspaces -> Stages] /\ h \in HeldType
  BY <1>1, Acting
<1>3. PICK y : y = [k EXCEPT ![w] = stage]
  OBVIOUS
<1>4. /\ y \in [Workspaces -> Stages] /\ work' = [work EXCEPT ![r] = y] /\ work'[r] = y
  BY <1>1, <1>2, <1>3 DEF Proceed, IInv, Typed
<1>5. PICK x : x = IF \A v \in Workspaces : y[v] = "none"
                     THEN IF q.ok /\ ok THEN [q EXCEPT !.step = q.then] ELSE Idle
                     ELSE [q EXCEPT !.ok = q.ok /\ ok]
  OBVIOUS
<1>6. req' = [req EXCEPT ![r] = x] /\ req'[r] = x
  BY <1>1, <1>4, <1>5 DEF Proceed, IInv, Typed
<1>7. PICK z : z = IF x.step = "idle" THEN Nothing ELSE h
  OBVIOUS
<1>8. held' = [held EXCEPT ![r] = z] /\ UNCHANGED inv
  BY <1>1, <1>6, <1>7 DEF Keeps, Active
<1>9. k[w] # "none"
  BY <1>1
<1>10. Proceeded(r, q, k, h, w, stage, ok, x, y, z)
  BY <1>1, <1>3, <1>4, <1>5, <1>6, <1>7, <1>8, <1>9 DEF Proceeded
<1> QED
  BY <1>10

\* What the step at a workspace leaves of an acceptance.
Carries(q, y, g, o, h, w, stage, ok, g2) ==
  q.op = "accept" =>
    /\ Seen(org'[q.user], q.user, "org", g2)
    /\ \A v \in Workspaces : Seen(ws[q.user][v], q.user, v, g) => Seen(ws'[q.user][v], q.user, v, g2)
    /\ stage = "projects" \/ (stage = "none" /\ ok) =>
         Seen(ws'[q.user][w], q.user, w, g2) \/ q.at = "org"
    /\ stage \in {"none", "check", "insert", "projects"}
    /\ o = {} /\ ~h.stray =>
         ok /\ \A v \in Workspaces : y[v] \in {"check", "insert"} => ws'[q.user][v] = "NONE"

LEMMA ProceededTypes ==
  ASSUME IInv, NEW r \in Requests, NEW q, NEW k, NEW h, NEW w, NEW stage, NEW ok, NEW x, NEW y, NEW z,
         Proceeded(r, q, k, h, w, stage, ok, x, y, z)
  PROVE  x \in RequestType /\ y \in [Workspaces -> Stages] /\ z \in HeldType
<1>1. q \in RequestType /\ h \in HeldType
  BY Acting DEF Proceeded
<1>2. [q EXCEPT !.step = q.then] \in RequestType /\ [q EXCEPT !.ok = q.ok /\ ok] \in RequestType
  BY <1>1 DEF RequestType, Proceeded
<1> QED
  BY <1>1, <1>2, IdleType DEF Proceeded

LEMMA ProceededOK ==
  ASSUME IInv, NEW r \in Requests, NEW q, NEW k, NEW h, NEW w, NEW stage, NEW ok, NEW x, NEW y, NEW z,
         Proceeded(r, q, k, h, w, stage, ok, x, y, z),
         NEW g, NEW o, g = gone[r], o = over[r], NEW g2, g2 \subseteq g,
         Carries(q, y, g, o, h, w, stage, ok, g2)
  PROVE  RequestOK(x, y, g2, o, z)'
<1> USE DEF Proceeded
<1>1. /\ q \in RequestType /\ k \in [Workspaces -> Stages] /\ h \in HeldType
      /\ RequestOK(q, k, g, o, h)
  BY Acting
<1>2. /\ Shape(q, k, h) /\ q.step = "spread" /\ Leads(q.op, q.then) /\ Takes(q.op, q.step)
      /\ q.role \in Roles
      /\ q.op \in {"orgAdd", "orgUpdate", "wsAdd", "wsUpdate", "accept", "direct"}
  BY <1>1 DEF RequestOK, Shape, Takes
<1>3. o = {} => g2 = {}
  BY <1>1, <1>2 DEF RequestOK
<1>4. CASE x = Idle
  <2>1. \A v \in Workspaces : y[v] = "none"
    BY <1>1, <1>2, <1>4, IdleType DEF RequestType
  <2> QED
    BY <1>4, <2>1, IdleType DEF RequestOK, Shape, Takes, Roles, Nothing
<1>5. CASE x # Idle
  <2>1. /\ x.op = q.op /\ x.role = q.role /\ x.user = q.user /\ x.at = q.at /\ x.then = q.then
        /\ x.who = q.who /\ x.actor = q.actor
        /\ \/ /\ x.step = q.then /\ x.ok /\ q.ok /\ ok /\ \A v \in Workspaces : y[v] = "none"
           \/ /\ x.step = "spread" /\ (x.ok <=> q.ok /\ ok) /\ \E v \in Workspaces : y[v] # "none"
    BY <1>1, <1>2, <1>5 DEF RequestType
  <2>2. /\ q.then \in {"idle", "settle", "acceptWs", "related", "project", "directMany", "insert"}
        /\ q.then # "spread"
    BY <1>2 DEF Leads
  <2>3. Shape(x, y, z)'
    BY <1>2, <2>1, <2>2 DEF Shape, Takes, Leads, Nothing
  <2>4. CASE q.op # "accept"
    <3>1. Known(x, z)'
      BY <1>2, <2>1, <2>2, <2>4 DEF Known, Leads
    <3> QED
      BY <1>3, <2>1, <2>3, <2>4, <3>1 DEF RequestOK
  <2>5. CASE q.op = "accept"
    <3>1. z = h /\ Chain(q, k, g, h)
      BY <1>1, <1>2, <2>1, <2>2, <2>5 DEF RequestOK, Leads
    <3>2. Chain(x, y, g2, z)'
      <4>1. PICK u, a, at : u = q.user /\ a = Around(q.at) /\ at = q.at
        OBVIOUS
      <4>2. /\ at \in Places /\ "org" \notin Projects /\ "org" \notin Workspaces
            /\ at # "org" => a \in Workspaces
        BY <1>1, <4>1, ProjectsAssumption, PlacesAssumption DEF Around, RequestType, Places
      <4>3. /\ Seen(org'[u], u, "org", g2)
            /\ \A v \in Workspaces : Seen(ws[u][v], u, v, g) => Seen(ws'[u][v], u, v, g2)
            /\ stage = "projects" \/ (stage = "none" /\ ok) =>
                 Seen(ws'[u][w], u, w, g2) \/ at = "org"
            /\ stage \in {"none", "check", "insert", "projects"}
        BY <2>5, <4>1 DEF Carries
      <4>4. /\ \A v \in Workspaces : k[v] \in {"none", "check", "insert", "projects"}
            /\ \/ q.then = "settle" /\ at = "org"
               \/ /\ q.then = IF at \in Workspaces THEN "related" ELSE "project"
                  /\ at # "org"
                  /\ \A v \in Workspaces : v # a => k[v] = "none"
                  /\ k[a] = "projects" => Seen(ws[u][a], u, a, g)
        BY <1>2, <3>1, <4>1 DEF Chain
      <4>5. at # "org" => w = a
        BY <4>4
      <4>6. /\ \A v \in Workspaces : y[v] \in {"none", "check", "insert", "projects"}
            /\ \A v \in Workspaces : v # w => y[v] = k[v]
            /\ y[w] = stage
        BY <1>1, <4>3, <4>4
      <4>7. x.step = "spread" =>
              /\ \A v \in Workspaces : y[v] \in {"none", "check", "insert", "projects"}
              /\ \/ x.then = "settle" /\ at = "org"
                 \/ /\ x.then = IF at \in Workspaces THEN "related" ELSE "project"
                    /\ at # "org"
                    /\ \A v \in Workspaces : v # a => y[v] = "none"
                    /\ y[a] = "projects" => Seen(ws'[u][a], u, a, g2)
        BY <2>1, <4>2, <4>3, <4>4, <4>5, <4>6
      <4>8. x.step # "spread" =>
              /\ x.ok /\ x.step \in {"settle", "related", "project"}
              /\ x.step = "settle" => at = "org"
              /\ x.step = "related" => at \in Workspaces
              /\ x.step = "project" => at \in Projects
              /\ at # "org" => Seen(ws'[u][a], u, a, g2)
        BY <2>1, <4>2, <4>3, <4>4, <4>5, <4>6 DEF Places
      <4>9. x.user = u /\ x.at = at /\ x.who = {u} /\ x.actor = NoActor /\ x.step \notin {"insert", "mark", "write"}
        BY <2>1, <3>1, <4>1, <4>7, <4>8 DEF Chain
      <4>10. CASE x.step = "spread"
        BY SMTT(40), <2>1, <3>1, <4>1, <4>2, <4>3, <4>7, <4>9, <4>10 DEF Chain
      <4>11. CASE x.step # "spread"
        BY SMTT(40), <2>1, <3>1, <4>1, <4>2, <4>3, <4>8, <4>9, <4>11 DEF Chain
      <4> QED
        BY <4>10, <4>11
    <3>3. o = {} /\ ~z.stray => Clear(x, y, z)'
      <4>1. SUFFICES ASSUME o = {}, ~z.stray PROVE Clear(x, y, z)'
        OBVIOUS
      <4>2. Clear(q, k, h)
        BY <1>1, <1>2, <2>5, <3>1, <4>1 DEF RequestOK
      <4> QED
        BY ZenonT(120), <1>2, <2>1, <2>2, <2>5, <3>1, <4>1, <4>2 DEF Clear, Carries, Leads
    <3>4. ~z.late => Known(x, z)'
      BY <1>1, <1>2, <2>1, <2>2, <2>5, <3>1 DEF RequestOK, Known, Waiting, Leads
    <3> QED
      BY <1>3, <2>3, <3>2, <3>3, <3>4 DEF RequestOK
  <2> QED
    BY <2>4, <2>5
<1> QED
  BY <1>4, <1>5

LEMMA SameOK ==
  ASSUME UNCHANGED <<members, inv>>, NEW x, NEW y, NEW g, NEW o, NEW z, RequestOK(x, y, g, o, z)'
  PROVE  RequestOK(x, y, g, o, z)
BY DEF members, RequestOK, Shape, Chain, Clear, Known, Waiting, PendingFor, Inside

AtOf(r, w, stage, ok, o, g2) ==
  /\ o = over[r] /\ w \in Workspaces /\ stage \in Stages /\ ok \in BOOLEAN /\ work[r][w] # "none"
  /\ Proceed(r, w, stage, ok) /\ Keeps(r) /\ g2 \subseteq gone[r]
  /\ Carries(req[r], [work[r] EXCEPT ![w] = stage], gone[r], o, held[r], w, stage, ok, g2)

ReadsAt(r, w, stage, ok, g2, g3, o3) ==
  /\ AtOf(r, w, stage, ok, over[r], g2) /\ UNCHANGED members
  /\ gone' = [gone EXCEPT ![r] = g3] /\ over' = [over EXCEPT ![r] = o3]
  /\ g3 \in {g2, {}} /\ o3 \in {over[r], {}} /\ (Active(r) => g3 = g2 /\ o3 = over[r])

WritesAt(r, w, stage) ==
  /\ AtOf(r, w, stage, TRUE, over[r], gone[r])
  /\ Wrote(r, "member", {}) /\ MembersTyped' /\ Deletes({})

Reaches(r, w, stage, ok, o, g2) ==
  \E q, k, h, x, y, z :
    Proceeded(r, q, k, h, w, stage, ok, x, y, z) /\ RequestOK(x, y, g2, o, z)'

LEMMA AtEffect ==
  ASSUME IInv, NEW r \in Requests, NEW w, NEW stage, NEW ok, NEW o, NEW g2,
         AtOf(r, w, stage, ok, o, g2)
  PROVE  Reaches(r, w, stage, ok, o, g2)
<1> USE DEF AtOf
<1>1. \E q, k, h, x, y, z : Proceeded(r, q, k, h, w, stage, ok, x, y, z)
  BY ProceedEffect
<1>2. PICK q, k, h, x, y, z : Proceeded(r, q, k, h, w, stage, ok, x, y, z)
  BY <1>1
<1>3. PICK g : g = gone[r]
  OBVIOUS
<1>4. Carries(q, y, g, o, h, w, stage, ok, g2)
  BY <1>2, <1>3 DEF Proceeded
<1>5. RequestOK(x, y, g2, o, z)'
  BY <1>2, <1>3, <1>4, ProceededOK
<1> QED
  BY <1>2, <1>5 DEF Reaches

LEMMA ReadingKeepsIInv ==
  ASSUME IInv, NEW r \in Requests, NEW w, NEW stage, NEW ok, NEW g2, NEW g3, NEW o3,
         ReadsAt(r, w, stage, ok, g2, g3, o3)
  PROVE  IInv'
<1>1. PICK o : o = over[r]
  OBVIOUS
<1>2. AtOf(r, w, stage, ok, o, g2)
  BY <1>1 DEF ReadsAt
<1>3. PICK q, k, h, x, y, z : /\ Proceeded(r, q, k, h, w, stage, ok, x, y, z)
                              /\ RequestOK(x, y, g2, o, z)'
  BY <1>1, <1>2, AtEffect DEF Reaches
<1>4. x \in RequestType /\ y \in [Workspaces -> Stages] /\ z \in HeldType
  BY <1>3, ProceededTypes
<1>5. req'[r] = x
  BY <1>3 DEF Proceeded, IInv, Typed
<1>6. RequestOK(x, y, g3, o3, z)'
  BY <1>1, <1>3, <1>5, IdleAny DEF ReadsAt, Active
<1>7. UNCHANGED <<members, inv>>
  BY <1>3 DEF ReadsAt, Proceeded
<1>8. RequestOK(x, y, g3, o3, z)
  BY <1>6, <1>7, SameOK
<1>9. g3 \in SUBSET (Users \X Places) /\ o3 \in SUBSET {"org", "member"}
  BY <1>2, Acting DEF ReadsAt, AtOf
<1>10. Looks(r, x, y, g3, o3, z)
  BY <1>3, <1>7 DEF Looks, Proceeded, ReadsAt
<1> QED
  BY <1>4, <1>8, <1>9, <1>10, LookingKeepsIInv

LEMMA WritingAtKeepsIInv ==
  ASSUME IInv, NEW r \in Requests, NEW w, NEW stage, WritesAt(r, w, stage) PROVE IInv'
<1>1. PICK g, o : g = gone[r] /\ o = over[r]
  OBVIOUS
<1>2. AtOf(r, w, stage, TRUE, o, g)
  BY <1>1 DEF WritesAt
<1>3. PICK q, k, h, x, y, z : /\ Proceeded(r, q, k, h, w, stage, TRUE, x, y, z)
                              /\ RequestOK(x, y, g, o, z)'
  BY <1>1, <1>2, AtEffect DEF Reaches
<1>4. x \in RequestType /\ y \in [Workspaces -> Stages] /\ z \in HeldType
  BY <1>3, ProceededTypes
<1>5. Writes(r, x, y, g, o, z, "member", {})
  BY <1>1, <1>3 DEF Writes, Proceeded, WritesAt
<1> QED
  BY <1>3, <1>4, <1>5, WritingKeepsIInv

\* What an acceptance that is at the workspaces has passed, and what it has not.
Midway(q, k, g, o, h) ==
  q.op = "accept" =>
    /\ q.actor = NoActor /\ Seen(org[q.user], q.user, "org", g) /\ (o = {} => g = {})
    /\ \A w \in Workspaces : k[w] \in {"none", "check", "insert", "projects"}
    /\ \A w \in Workspaces : k[w] = "projects" => Seen(ws[q.user][w], q.user, w, g) \/ q.at = "org"
    /\ o = {} /\ ~h.stray =>
         \A w \in Workspaces : k[w] \in {"check", "insert"} => ws[q.user][w] = "NONE"

LEMMA MidwayAt ==
  ASSUME IInv, NEW r \in Requests, NEW w \in Workspaces, work[r][w] # "none"
  PROVE  /\ Midway(req[r], work[r], gone[r], over[r], held[r])
         /\ req[r].step = "spread" /\ req[r].role \in Roles
<1>1. PICK q, k, g, o, h :
        q = req[r] /\ k = work[r] /\ g = gone[r] /\ o = over[r] /\ h = held[r]
  OBVIOUS
<1>2. RequestOK(q, k, g, o, h) /\ k[w] # "none" /\ k \in [Workspaces -> Stages]
  BY <1>1, Acting
<1>3. q.step = "spread" /\ q.role \in Roles
  BY <1>2 DEF RequestOK, Shape, Takes
<1>4. Midway(q, k, g, o, h)
  <2>1. SUFFICES ASSUME q.op = "accept" PROVE Midway(q, k, g, o, h)
    BY DEF Midway
  <2>2. Chain(q, k, g, h) /\ (o = {} => g = {}) /\ (o = {} /\ ~h.stray => Clear(q, k, h))
    BY <1>2, <1>3, <2>1 DEF RequestOK
  <2>3. PICK a, u : a = Around(q.at) /\ u = q.user
    OBVIOUS
  <2>4. /\ q.actor = NoActor /\ Seen(org[u], u, "org", g)
        /\ \A v \in Workspaces : k[v] \in {"none", "check", "insert", "projects"}
        /\ \A v \in Workspaces : k[v] = "projects" => Seen(ws[u][v], u, v, g) \/ q.at = "org"
    BY <1>2, <1>3, <2>2, <2>3 DEF Chain
  <2>5. o = {} /\ ~h.stray =>
          \A v \in Workspaces : k[v] \in {"check", "insert"} => ws[u][v] = "NONE"
    BY <1>3, <2>2, <2>3 DEF Clear
  <2> QED
    BY <2>2, <2>3, <2>4, <2>5 DEF Midway
<1> QED
  BY <1>1, <1>3, <1>4

LEMMA FailsAtKeepsIInv ==
  ASSUME IInv, NEW r \in Requests, NEW w \in Workspaces, Done(r, w, FALSE), Keeps(r),
         work[r][w] # "none", req[r].op = "accept" => over[r] # {} \/ held[r].stray
  PROVE  IInv'
<1>1. PICK q, k, g, o, h :
        q = req[r] /\ k = work[r] /\ g = gone[r] /\ o = over[r] /\ h = held[r]
  OBVIOUS
<1>2. PICK y : y = [k EXCEPT ![w] = "none"]
  OBVIOUS
<1>3. Carries(q, y, g, o, h, w, "none", FALSE, g)
  <2>1. Midway(q, k, g, o, h)
    BY <1>1, MidwayAt
  <2> QED
    BY <1>1, <2>1 DEF Carries, Midway, Done, members
<1>4. AtOf(r, w, "none", FALSE, o, g)
  BY <1>1, <1>2, <1>3 DEF AtOf, Done, Stages
<1>5. PICK g3, o3 : g3 = (IF Active(r) THEN g ELSE {}) /\ o3 = (IF Active(r) THEN o ELSE {})
  OBVIOUS
<1>6. ReadsAt(r, w, "none", FALSE, g, g3, o3)
  BY <1>1, <1>4, <1>5 DEF ReadsAt, Done
<1> QED
  BY <1>6, ReadingKeepsIInv

LEMMA CheckWsCreateKeepsIInv ==
  ASSUME IInv, NEW r \in Requests, NEW w \in Workspaces, CheckWsCreate(r, w), Keeps(r) PROVE IInv'
<1>1. PICK q, k, g, o, h, u :
        /\ q = req[r] /\ k = work[r] /\ g = gone[r] /\ o = over[r] /\ h = held[r] /\ u = q.user
  OBVIOUS
<1>2. /\ k[w] = "check" /\ k \in [Workspaces -> Stages] /\ Midway(q, k, g, o, h)
      /\ gone = [gone EXCEPT ![r] = g] /\ over = [over EXCEPT ![r] = o]
      /\ {"none", "insert"} \subseteq Stages
  BY <1>1, Acting, MidwayAt DEF CheckWsCreate, Stages, IInv, Typed
<1>3. CASE ~(MayManage(q.actor, w, q.role) /\ org[u] # "NONE")
  <2>1. q.op = "accept" => o # {}
    BY <1>1, <1>2, <1>3 DEF Midway, MayManage, Seen
  <2>2. Done(r, w, FALSE)
    BY <1>1, <1>3 DEF CheckWsCreate
  <2> QED
    BY <1>1, <1>2, <2>1, <2>2, FailsAtKeepsIInv
<1>4. CASE MayManage(q.actor, w, q.role) /\ org[u] # "NONE"
  <2>1. PICK y, g2 : y = [k EXCEPT ![w] = "insert"] /\ g2 = g \ {<<u, "org">>}
    OBVIOUS
  <2>2. /\ Proceed(r, w, "insert", TRUE) /\ gone' = [gone EXCEPT ![r] = g2]
        /\ UNCHANGED <<members, over>>
    BY <1>1, <1>4, <2>1 DEF CheckWsCreate
  <2>3. Carries(q, y, g, o, h, w, "insert", TRUE, g2)
    <3>1. \A v \in Workspaces : v # "org"
      BY PlacesAssumption
    <3>2. \A v \in Workspaces : Seen(ws[u][v], u, v, g) => Seen(ws[u][v], u, v, g2)
      BY <2>1, <3>1 DEF Seen
    <3>3. \A v \in Workspaces : y[v] \in {"check", "insert"} => k[v] \in {"check", "insert"}
      BY <1>2, <2>1
    <3> QED
      BY <1>1, <1>2, <1>4, <2>2, <3>2, <3>3 DEF Carries, Midway, Seen, members
  <2>4. AtOf(r, w, "insert", TRUE, o, g2)
    BY <1>1, <1>2, <2>1, <2>2, <2>3 DEF AtOf
  <2>5. ReadsAt(r, w, "insert", TRUE, g2, g2, o)
    BY <1>1, <1>2, <2>2, <2>4 DEF ReadsAt
  <2> QED
    BY <2>5, ReadingKeepsIInv
<1> QED
  BY <1>3, <1>4

LEMMA InsertWsKeepsIInv ==
  ASSUME IInv, NEW r \in Requests, NEW w \in Workspaces, InsertWs(r, w), Keeps(r) PROVE IInv'
<1>1. PICK q, k, g, o, h, u :
        /\ q = req[r] /\ k = work[r] /\ g = gone[r] /\ o = over[r] /\ h = held[r] /\ u = q.user
  OBVIOUS
<1>2. /\ k[w] = "insert" /\ k \in [Workspaces -> Stages] /\ Midway(q, k, g, o, h)
      /\ q.role \in Row /\ q.role # "NONE" /\ u \in Users /\ {"none", "projects"} \subseteq Stages
  BY <1>1, Acting, MidwayAt, Placement DEF InsertWs, Stages, RequestType
<1>3. CASE ws[u][w] # "NONE"
  <2>1. q.op = "accept" => o # {} \/ h.stray
    BY <1>1, <1>2, <1>3 DEF Midway
  <2>2. Done(r, w, FALSE)
    BY <1>1, <1>3 DEF InsertWs
  <2> QED
    BY <1>1, <1>2, <2>1, <2>2, FailsAtKeepsIInv
<1>4. CASE ws[u][w] = "NONE"
  <2>1. PICK stage, y : /\ stage = (IF q.role \in High THEN "projects" ELSE "none")
                        /\ y = [k EXCEPT ![w] = stage]
    OBVIOUS
  <2>2. /\ Proceed(r, w, stage, TRUE) /\ ws' = [ws EXCEPT ![u][w] = q.role]
        /\ Wrote(r, "member", {}) /\ UNCHANGED <<owner, org, prj>>
    BY <1>1, <1>4, <2>1 DEF InsertWs
  <2>3. ws \in [Users -> [Workspaces -> Row]]
    BY DEF IInv, Typed, MembersTyped
  <2>4. /\ ws' \in [Users -> [Workspaces -> Row]] /\ ws'[u][w] # "NONE"
        /\ \A v \in Workspaces : v # w => ws'[u][v] = ws[u][v]
        /\ \A m \in Users, v \in Workspaces : ws[m][v] # "NONE" => ws'[m][v] # "NONE"
    BY <1>2, <2>2, <2>3
  <2>5. MembersTyped' /\ Deletes({})
    BY <2>2, <2>4 DEF IInv, Typed, MembersTyped, Deletes
  <2>6. Carries(q, y, g, o, h, w, stage, TRUE, g)
    <3>1. \A v \in Workspaces : y[v] \in {"check", "insert"} => v # w /\ k[v] \in {"check", "insert"}
      BY <1>2, <2>1
    <3>2. \A v \in Workspaces : Seen(ws[u][v], u, v, g) => Seen(ws'[u][v], u, v, g)
      BY <1>2, <2>4 DEF Seen
    <3>3. Seen(ws'[u][w], u, w, g) /\ (Seen(org[u], u, "org", g) => Seen(org'[u], u, "org", g))
      BY <2>2, <2>4 DEF Seen
    <3> QED
      BY SMTT(40), <1>1, <1>2, <2>1, <2>2, <2>4, <3>1, <3>2, <3>3 DEF Carries, Midway
  <2>7. AtOf(r, w, stage, TRUE, o, g)
    BY <1>1, <1>2, <2>1, <2>2, <2>6 DEF AtOf
  <2>8. WritesAt(r, w, stage)
    BY <1>1, <2>2, <2>5, <2>7 DEF WritesAt
  <2> QED
    BY <2>8, WritingAtKeepsIInv
<1> QED
  BY <1>3, <1>4

LEMMA InsertProjectsKeepsIInv ==
  ASSUME IInv, NEW r \in Requests, NEW w \in Workspaces, InsertProjects(r, w), Keeps(r) PROVE IInv'
<1>1. PICK q, k, g, o, h, u :
        /\ q = req[r] /\ k = work[r] /\ g = gone[r] /\ o = over[r] /\ h = held[r] /\ u = q.user
  OBVIOUS
<1>2. /\ k[w] = "projects" /\ k \in [Workspaces -> Stages] /\ Midway(q, k, g, o, h)
      /\ q.role \in Row /\ q.role # "NONE" /\ u \in Users /\ "none" \in Stages
  BY <1>1, Acting, MidwayAt, Placement DEF InsertProjects, Stages, RequestType
<1>3. /\ prj' = [prj EXCEPT ![u] = [p \in Projects |->
                   IF p \in ProjectsOf(w) /\ @[p] = "NONE" THEN q.role ELSE @[p]]]
      /\ Proceed(r, w, "none", TRUE) /\ Wrote(r, "member", {}) /\ UNCHANGED <<owner, org, ws>>
  BY <1>1 DEF InsertProjects
<1>4. prj \in [Users -> [Projects -> Row]]
  BY DEF IInv, Typed, MembersTyped
<1>5. /\ prj' \in [Users -> [Projects -> Row]]
      /\ \A m \in Users, p \in Projects : prj[m][p] # "NONE" => prj'[m][p] # "NONE"
  BY <1>2, <1>3, <1>4
<1>6. MembersTyped' /\ Deletes({})
  BY <1>3, <1>5 DEF IInv, Typed, MembersTyped, Deletes
<1>7. PICK y : y = [k EXCEPT ![w] = "none"]
  OBVIOUS
<1>8. Carries(q, y, g, o, h, w, "none", TRUE, g)
  <2>1. \A v \in Workspaces : y[v] \in {"check", "insert"} => k[v] \in {"check", "insert"}
    BY <1>2, <1>7
  <2> QED
    BY <1>2, <1>3, <2>1 DEF Carries, Midway
<1>9. WritesAt(r, w, "none")
  BY <1>1, <1>2, <1>3, <1>6, <1>7, <1>8 DEF AtOf, WritesAt
<1> QED
  BY <1>9, WritingAtKeepsIInv

LEMMA FindWsKeepsIInv ==
  ASSUME IInv, NEW r \in Requests, NEW w \in Workspaces, FindWs(r, w), Keeps(r) PROVE IInv'
<1>1. PICK q, k, g, o, h, u :
        /\ q = req[r] /\ k = work[r] /\ g = gone[r] /\ o = over[r] /\ h = held[r] /\ u = q.user
  OBVIOUS
<1>2. /\ k[w] = "find" /\ Midway(q, k, g, o, h) /\ {"check", "update"} \subseteq Stages
      /\ gone = [gone EXCEPT ![r] = g] /\ over = [over EXCEPT ![r] = o]
  BY <1>1, MidwayAt DEF FindWs, Stages, IInv, Typed
<1>3. q.op # "accept"
  BY <1>2 DEF Midway
<1>4. CASE Done(r, w, FALSE)
  BY <1>1, <1>2, <1>3, <1>4, FailsAtKeepsIInv
<1>5. ASSUME NEW stage \in {"check", "update"}, NEW g2, Proceed(r, w, stage, TRUE),
             gone' = [gone EXCEPT ![r] = g2], g2 \subseteq g, UNCHANGED <<members, over>>
      PROVE  IInv'
  <2>1. AtOf(r, w, stage, TRUE, o, g2)
    BY <1>1, <1>2, <1>3, <1>5 DEF AtOf, Carries
  <2>2. ReadsAt(r, w, stage, TRUE, g2, g2, o)
    BY <1>1, <1>2, <1>5, <2>1 DEF ReadsAt
  <2> QED
    BY <2>2, ReadingKeepsIInv
<1> QED
  BY ZenonT(40), <1>1, <1>2, <1>4, <1>5 DEF FindWs

LEMMA UpdateWsKeepsIInv ==
  ASSUME IInv, NEW r \in Requests, NEW w \in Workspaces, UpdateWs(r, w), Keeps(r) PROVE IInv'
<1>1. PICK q, k, g, o, h, u :
        /\ q = req[r] /\ k = work[r] /\ g = gone[r] /\ o = over[r] /\ h = held[r] /\ u = q.user
  OBVIOUS
<1>2. /\ k[w] = "update" /\ Midway(q, k, g, o, h) /\ "none" \in Stages
      /\ q.role \in Row /\ q.role # "NONE" /\ u \in Users
  BY <1>1, Acting, MidwayAt, Placement DEF UpdateWs, Stages, RequestType
<1>3. q.op # "accept"
  BY <1>2 DEF Midway
<1>4. CASE Done(r, w, FALSE)
  BY <1>1, <1>2, <1>3, <1>4, FailsAtKeepsIInv
<1>5. CASE ~Done(r, w, FALSE)
  <2>1. /\ ws' = [ws EXCEPT ![u][w] = q.role]
        /\ prj' = [prj EXCEPT ![u] = [p \in Projects |-> IF p \in ProjectsOf(w) THEN q.role ELSE @[p]]]
        /\ Proceed(r, w, "none", TRUE) /\ Wrote(r, "member", {}) /\ UNCHANGED <<owner, org>>
    BY <1>1, <1>5 DEF UpdateWs
  <2>2. ws \in [Users -> [Workspaces -> Row]] /\ prj \in [Users -> [Projects -> Row]]
    BY DEF IInv, Typed, MembersTyped
  <2>3. /\ ws' \in [Users -> [Workspaces -> Row]]
        /\ \A m \in Users, v \in Workspaces : ws[m][v] # "NONE" => ws'[m][v] # "NONE"
    BY <1>2, <2>1, <2>2
  <2>4. /\ prj' \in [Users -> [Projects -> Row]]
        /\ \A m \in Users, p \in Projects : prj[m][p] # "NONE" => prj'[m][p] # "NONE"
    BY <1>2, <2>1, <2>2
  <2>5. MembersTyped' /\ Deletes({})
    BY <2>1, <2>3, <2>4 DEF IInv, Typed, MembersTyped, Deletes
  <2>6. WritesAt(r, w, "none")
    BY <1>1, <1>2, <1>3, <2>1, <2>5 DEF WritesAt, AtOf, Carries
  <2> QED
    BY <2>6, WritingAtKeepsIInv
<1> QED
  BY <1>4, <1>5

LEMMA MemberStepKeepsIInv == ASSUME IInv, NEW r \in Requests, MemberStep(r) PROVE IInv'
<1>1. Keeps(r) /\ Step(r)
  BY DEF MemberStep, Keeps
<1>2. CASE Asks(r)
  BY <1>1, <1>2, AsksKeepIInv DEF Keeps
<1>3. CASE InsertOrg(r) \/ UpdateOrg(r) \/ Transfer(r) \/ WritePrj(r)
  BY <1>1, <1>3, InsertOrgKeepsIInv, UpdateOrgKeepsIInv, TransferKeepsIInv, WritePrjKeepsIInv
<1>4. CASE RemoveOrg(r) \/ RemoveWs(r) \/ RemovePrj(r)
  BY <1>1, <1>4, RemoveOrgKeepsIInv, RemoveWsKeepsIInv, RemovePrjKeepsIInv
<1>5. CASE \E w \in Workspaces : AtWorkspace(r, w)
  BY <1>1, <1>5, CheckWsCreateKeepsIInv, InsertWsKeepsIInv, InsertProjectsKeepsIInv,
     FindWsKeepsIInv, UpdateWsKeepsIInv DEF AtWorkspace
<1> QED
  BY <1>1, <1>2, <1>3, <1>4, <1>5 DEF Step, Asks

-----------------------------------------------------------------------------
\* Requests of InvitationsService that begin.
Starts(r, op, actor, u, role, at, step, h, x) ==
  /\ Start(r, op, actor, u, role, at, step, h) /\ Fresh(x, op, actor, {u}, u, role, at, step)
  /\ op \in InviteOps /\ role \in Roles /\ step \notin {"idle", "spread", "write", "remove"}
  /\ Takes(op, step) /\ h \in HeldType
  /\ op = "invite" => h.todo \subseteq Projects
  /\ op = "direct" => h.cur = NoInvite /\ at # "org"
  /\ op \in {"accept", "expire", "decline", "resend", "delete"} => h.inv \in Invites
  /\ op = "accept" => Chain(x, work[r], {}, h) /\ (~h.stray => Clear(x, work[r], h))
  /\ Known(x, h)

LEMMA StartKeepsIInv ==
  ASSUME IInv, NEW r \in Requests, NEW op, NEW actor, NEW u, NEW role, NEW at, NEW step, NEW h, NEW x,
         Starts(r, op, actor, u, role, at, step, h, x)
  PROVE  IInv'
<1> USE DEF Starts
<1>1. PICK who, k : who = {u} /\ k = work[r]
  OBVIOUS
<1>2. Fresh(x, op, actor, who, u, role, at, step)
  BY <1>1
<1>3. /\ x \in RequestType /\ x.step = step /\ x.op = op /\ x.role = role /\ x.then = "idle"
      /\ x.at = at
  BY <1>2, FreshType
<1>4. /\ req[r].step = "idle" /\ req' = [req EXCEPT ![r] = x] /\ held' = [held EXCEPT ![r] = h]
      /\ gone' = [gone EXCEPT ![r] = {}] /\ over' = [over EXCEPT ![r] = {}]
      /\ UNCHANGED <<members, work, inv>>
  BY DEF Start, Begin, Fresh
<1>5. /\ k \in [Workspaces -> Stages] /\ (\A w \in Workspaces : k[w] = "none")
      /\ work = [work EXCEPT ![r] = k]
  BY <1>1, <1>4, RestingWork
<1>6. Looks(r, x, k, {}, {}, h)
  BY <1>4, <1>5 DEF Looks
<1>7. Shape(x, k, h)
  BY <1>3, <1>5 DEF Shape, InviteOps
<1>8. RequestOK(x, k, {}, {}, h)
  BY <1>1, <1>3, <1>7 DEF RequestOK
<1> QED
  BY <1>3, <1>5, <1>6, <1>8, LookingKeepsIInv

LEMMA Opened ==
  ASSUME IInv, NEW i \in Invites
  PROVE  /\ inv[i].invitee \in Users /\ inv[i].at \in Places /\ inv[i].role \in Roles
         /\ inv[i].role \in Row /\ NoActor \in Actors
         /\ [Nothing EXCEPT !.inv = i] \in HeldType
BY IdleType, Placement DEF IInv, Typed, InviteType, Actors, HeldType, Nothing

LEMMA AskAcceptKeepsIInv == ASSUME IInv, NEW r \in Requests, AskAccept(r) PROVE IInv'
<1>1. PICK i \in Invites :
        /\ inv[i].status = "PENDING"
        /\ Start(r, "accept", NoActor, inv[i].invitee, inv[i].role, inv[i].at, "acceptOrg",
                 [Nothing EXCEPT !.inv = i,
                                 !.stray = Inside(inv[i].invitee) /\ org[inv[i].invitee] = "NONE"])
  BY DEF AskAccept
<1>2. PICK u, role, at, h, k :
        /\ u = inv[i].invitee /\ role = inv[i].role /\ at = inv[i].at /\ k = work[r]
        /\ h = [Nothing EXCEPT !.inv = i, !.stray = Inside(u) /\ org[u] = "NONE"]
  OBVIOUS
<1>3. /\ h \in HeldType /\ h.inv = i /\ h.todo = {} /\ (~h.stray => org[u] # "NONE" \/ ~Inside(u))
      /\ h.cur = NoInvite
  BY <1>2, IdleType DEF HeldType, Nothing
<1>4. PICK x, who : /\ who = {u}
                    /\ x = [Idle EXCEPT !.step = "acceptOrg", !.op = "accept", !.actor = NoActor, !.user = u,
                                        !.who = who, !.role = role, !.at = at]
  OBVIOUS
<1>5. Fresh(x, "accept", NoActor, who, u, role, at, "acceptOrg")
  BY <1>2, <1>4, Opened DEF Fresh, AllOps, InviteOps, Steps
<1>6. /\ x.step = "acceptOrg" /\ x.op = "accept" /\ x.actor = NoActor /\ x.who = {u}
      /\ x.user = u /\ x.at = at /\ x.ok = TRUE
  BY <1>4 DEF Idle
<1>7. Chain(x, k, {}, h)
  BY <1>1, <1>2, <1>3, <1>6 DEF Chain
<1>8. ~h.stray => Clear(x, k, h)
  BY <1>3, <1>6 DEF Clear
<1>9. Known(x, h)
  BY <1>1, <1>3, <1>6 DEF Known
<1>10. Takes("accept", "acceptOrg") /\ "accept" \in InviteOps /\ role \in Roles
  BY <1>2, Opened DEF Takes, InviteOps
<1>11. Starts(r, "accept", NoActor, u, role, at, "acceptOrg", h, x)
  BY <1>1, <1>2, <1>3, <1>4, <1>5, <1>7, <1>8, <1>9, <1>10 DEF Starts
<1> QED
  BY <1>11, StartKeepsIInv

\* The requests that begin with one invitation in hand, and no chain to follow.
Opens(r, op, i, step) ==
  /\ Start(r, op, NoActor, inv[i].invitee, inv[i].role, inv[i].at, step, [Nothing EXCEPT !.inv = i])
  /\ i \in Invites
  /\ \/ op \in {"expire", "decline"} /\ step = "settle" /\ inv[i].status = "PENDING"
     \/ op = "resend" /\ step = "resend" /\ inv[i].status # "DECLINED"
     \/ op = "delete" /\ step = "delete"

LEMMA OpensKeepsIInv ==
  ASSUME IInv, NEW r \in Requests, NEW op, NEW i, NEW step, Opens(r, op, i, step) PROVE IInv'
<1>1. i \in Invites
  BY DEF Opens
<1>2. PICK u, role, at, h, who :
        /\ u = inv[i].invitee /\ role = inv[i].role /\ at = inv[i].at
        /\ h = [Nothing EXCEPT !.inv = i] /\ who = {u}
  OBVIOUS
<1>3. h \in HeldType /\ h.inv = i /\ h.todo = {}
  BY <1>1, <1>2, Opened, IdleType DEF HeldType, Nothing
<1>4. PICK x : x = [Idle EXCEPT !.step = step, !.op = op, !.actor = NoActor, !.user = u,
                                !.who = who, !.role = role, !.at = at]
  OBVIOUS
<1>5. /\ op \in InviteOps /\ op \in AllOps /\ step \in Steps /\ Takes(op, step)
      /\ step \in {"settle", "resend", "delete"} /\ op \in {"expire", "decline", "resend", "delete"}
  BY DEF Opens, InviteOps, AllOps, Steps, Takes
<1>6. Fresh(x, op, NoActor, who, u, role, at, step)
  BY <1>1, <1>2, <1>4, <1>5, Opened DEF Fresh
<1>7. x.step = step /\ x.op = op
  BY <1>6, FreshType
<1>8. Known(x, h)
  BY <1>3, <1>5, <1>7 DEF Known, Opens
<1>9. Start(r, op, NoActor, u, role, at, step, h) /\ role \in Roles
  BY <1>1, <1>2, Opened DEF Opens
<1>10. Starts(r, op, NoActor, u, role, at, step, h, x)
  BY <1>1, <1>2, <1>3, <1>5, <1>6, <1>8, <1>9 DEF Starts
<1> QED
  BY <1>10, StartKeepsIInv

LEMMA AskInviteKeepsIInv == ASSUME IInv, NEW r \in Requests, AskInvite(r) PROVE IInv'
<1>1. PICK a \in Users, u \in Users, at \in Places, role \in Assignable(r), also \in SUBSET Projects :
        /\ PendingFor(u, at) = {}
        /\ Start(r, "invite", a, u, role, at, "invite", [Nothing EXCEPT !.todo = also])
  BY DEF AskInvite
<1>2. PICK h, who, op, step : /\ h = [Nothing EXCEPT !.todo = also] /\ who = {u}
                              /\ op = "invite" /\ step = "invite"
  OBVIOUS
<1>3. h \in HeldType /\ h.todo \subseteq Projects
  BY <1>2, IdleType DEF HeldType, Nothing
<1>4. PICK x : x = [Idle EXCEPT !.step = step, !.op = op, !.actor = a, !.user = u,
                                !.who = who, !.role = role, !.at = at]
  OBVIOUS
<1>5. /\ op \in InviteOps /\ op \in AllOps /\ step \in Steps /\ Takes(op, step) /\ role \in Roles
      /\ role \in Row /\ a \in Actors
  BY <1>2, Placement DEF InviteOps, AllOps, Steps, Takes, Actors
<1>6. Fresh(x, op, a, who, u, role, at, step)
  BY <1>2, <1>4, <1>5 DEF Fresh
<1>7. x.step = step /\ x.op = op /\ x.user = u /\ x.at = at
  BY <1>6, FreshType
<1>8. Known(x, h)
  BY <1>1, <1>2, <1>7 DEF Known
<1>9. Starts(r, op, a, u, role, at, step, h, x)
  BY <1>1, <1>2, <1>3, <1>5, <1>6, <1>8 DEF Starts
<1> QED
  BY <1>9, StartKeepsIInv

LEMMA AskDirectKeepsIInv == ASSUME IInv, NEW r \in Requests, AskDirect(r) PROVE IInv'
<1>1. PICK u \in Users, at \in Places \ {"org"}, role \in Assignable(r), also \in SUBSET Projects :
        Start(r, "direct", NoActor, u, role, at, "direct",
              [Nothing EXCEPT !.todo = also, !.role = role])
  BY DEF AskDirect
<1>2. PICK h, who, op, step : /\ h = [Nothing EXCEPT !.todo = also, !.role = role] /\ who = {u}
                              /\ op = "direct" /\ step = "direct"
  OBVIOUS
<1>3. role \in Roles /\ role \in Row
  BY Placement
<1>4. h \in HeldType /\ h.cur = NoInvite
  BY <1>2, <1>3, IdleType DEF HeldType, Nothing
<1>5. PICK x : x = [Idle EXCEPT !.step = step, !.op = op, !.actor = NoActor, !.user = u,
                                !.who = who, !.role = role, !.at = at]
  OBVIOUS
<1>6. /\ op \in InviteOps /\ op \in AllOps /\ step \in Steps /\ Takes(op, step)
      /\ NoActor \in Actors
  BY <1>2 DEF InviteOps, AllOps, Steps, Takes, Actors
<1>7. Fresh(x, op, NoActor, who, u, role, at, step)
  BY <1>2, <1>3, <1>5, <1>6 DEF Fresh
<1>8. x.step = step /\ x.op = op
  BY <1>7, FreshType
<1>9. Known(x, h)
  BY <1>2, <1>8 DEF Known
<1>10. Starts(r, op, NoActor, u, role, at, step, h, x)
  BY <1>1, <1>2, <1>3, <1>4, <1>6, <1>7, <1>9 DEF Starts
<1> QED
  BY <1>10, StartKeepsIInv

LEMMA AskingKeepsIInv ==
  ASSUME IInv, NEW r \in Requests,
         \/ AskAccept(r) \/ AskExpired(r) \/ AskInvite(r) \/ AskDirect(r)
         \/ AskDecline(r) \/ AskResend(r) \/ AskDelete(r)
  PROVE  IInv'
<1>1. CASE AskExpired(r) \/ AskDecline(r) \/ AskResend(r) \/ AskDelete(r)
  <2>1. \E i, op, step : Opens(r, op, i, step)
    BY <1>1 DEF AskExpired, AskDecline, AskResend, AskDelete, Opens
  <2> QED
    BY <2>1, OpensKeepsIInv
<1> QED
  BY <1>1, AskAcceptKeepsIInv, AskInviteKeepsIInv, AskDirectKeepsIInv

-----------------------------------------------------------------------------
\* Steps of InvitationsService that only read.
Turns(r, step, role, then, x, y, z) ==
  /\ x = [req[r] EXCEPT !.step = step, !.role = role, !.then = then]
  /\ Next3(r, step, role, then)
  /\ work' = [work EXCEPT ![r] = y] /\ held' = [held EXCEPT ![r] = z]
  /\ UNCHANGED <<members, gone, over, inv>>
  /\ step \in Steps /\ then \in Steps /\ role \in Roles
  /\ y \in [Workspaces -> Stages] /\ z \in HeldType
  /\ RequestOK(x, y, gone[r], over[r], z)

LEMMA TurnsKeepsIInv ==
  ASSUME IInv, NEW r \in Requests, NEW step, NEW role, NEW then, NEW x, NEW y, NEW z,
         Turns(r, step, role, then, x, y, z)
  PROVE  IInv'
<1> USE DEF Turns
<1>1. req[r] \in RequestType /\ role \in Row
  BY Acting, Placement
<1>2. x \in RequestType
  BY <1>1 DEF RequestType
<1>3. req' = [req EXCEPT ![r] = x]
  BY <1>1 DEF Next3
<1>4. PICK g, o : g = gone[r] /\ o = over[r]
  OBVIOUS
<1>5. /\ g \in SUBSET (Users \X Places) /\ o \in SUBSET {"org", "member"}
      /\ gone' = [gone EXCEPT ![r] = g] /\ over' = [over EXCEPT ![r] = o]
  BY <1>4, Acting DEF IInv, Typed
<1>6. Looks(r, x, y, g, o, z) /\ RequestOK(x, y, g, o, z)
  BY <1>3, <1>4, <1>5 DEF Looks
<1> QED
  BY <1>2, <1>5, <1>6, LookingKeepsIInv

\* What a request that is neither resting nor at the workspaces has in hand.
InHand(r, q, k, g, o, h) ==
  /\ q = req[r] /\ k = work[r] /\ g = gone[r] /\ o = over[r] /\ h = held[r]
  /\ q \in RequestType /\ k \in [Workspaces -> Stages] /\ h \in HeldType
  /\ Shape(q, k, h) /\ \A w \in Workspaces : k[w] = "none"
  /\ work = [work EXCEPT ![r] = k] /\ held = [held EXCEPT ![r] = h]
  /\ q.op = "accept" => Chain(q, k, g, h) /\ (o = {} /\ ~h.stray => Clear(q, k, h))
  /\ (o = {} => g = {}) /\ (~h.late => Known(q, h))

AnyInHand(r) == \E q, k, g, o, h : InHand(r, q, k, g, o, h)

LEMMA AtHand ==
  ASSUME IInv, NEW r \in Requests, req[r].step \notin {"idle", "spread"} PROVE AnyInHand(r)
<1>1. PICK q, k, g, o, h :
        q = req[r] /\ k = work[r] /\ g = gone[r] /\ o = over[r] /\ h = held[r]
  OBVIOUS
<1>2. /\ RequestOK(q, k, g, o, h) /\ (\A w \in Workspaces : k[w] = "none")
      /\ q \in RequestType /\ k \in [Workspaces -> Stages] /\ h \in HeldType
      /\ work = [work EXCEPT ![r] = k] /\ held = [held EXCEPT ![r] = h]
  BY <1>1, Acting, RestingWork DEF IInv, Typed
<1>3. InHand(r, q, k, g, o, h)
  BY <1>1, <1>2 DEF InHand, RequestOK
<1> QED
  BY <1>3 DEF AnyInHand

LEMMA AcceptOrgKeepsIInv == ASSUME IInv, NEW r \in Requests, AcceptOrg(r) PROVE IInv'
<1>1. PICK q, k, g, o, h : InHand(r, q, k, g, o, h)
  BY AtHand DEF AcceptOrg, AnyInHand
<1> USE DEF InHand
<1>2. q.step = "acceptOrg" /\ q.op = "accept" /\ Chain(q, k, g, h) /\ h.inv \in Invites
  BY <1>1 DEF AcceptOrg, Shape, Takes, Chain
<1>3. PICK u, role, after :
        /\ u = q.user /\ role = (IF q.at = "org" THEN inv[h.inv].role ELSE "MEMBER")
        /\ after = (IF q.at = "org" THEN "settle" ELSE "acceptWs")
  OBVIOUS
<1>4. role \in Roles /\ q.role \in Roles /\ after \in Steps /\ {"write", "idle"} \subseteq Steps
  BY <1>1, <1>2, <1>3, Opened, Placement DEF Steps, Shape
<1>5. /\ \/ org[u] = "NONE" /\ Next3(r, "write", role, after)
         \/ org[u] # "NONE" /\ Next3(r, after, q.role, "idle")
      /\ UNCHANGED <<members, work, gone, over, inv, held>>
  BY <1>1, <1>3 DEF AcceptOrg, AfterOrg, Keep
<1>6. "org" \notin Projects \union Workspaces
  BY PlacesAssumption
<1>7. CASE org[u] = "NONE"
  <2>1. PICK x : x = [req[r] EXCEPT !.step = "write", !.role = role, !.then = after]
    OBVIOUS
  <2>2. /\ x.step = "write" /\ x.role = role /\ x.then = after /\ x.op = "accept" /\ x.user = u
        /\ x.at = q.at /\ x.who = q.who /\ x.actor = q.actor /\ x.ok = q.ok
    BY <1>1, <1>2, <1>3, <2>1 DEF RequestType
  <2>3. Shape(x, k, h)
    BY <1>1, <1>2, <1>3, <1>4, <2>2 DEF Shape, Takes, Leads
  <2>4. Chain(x, k, g, h)
    BY <1>2, <1>3, <2>2 DEF Chain
  <2>5. o = {} /\ ~h.stray => Clear(x, k, h)
    BY <1>1, <1>2, <1>3, <1>7, <2>2 DEF Clear
  <2>6. ~h.late => Known(x, h)
    BY <1>1, <1>2, <2>2 DEF Known
  <2>7. Turns(r, "write", role, after, x, k, h)
    BY <1>1, <1>4, <1>5, <1>7, <2>1, <2>3, <2>4, <2>5, <2>6 DEF Turns, RequestOK
  <2> QED
    BY <2>7, TurnsKeepsIInv
<1>8. CASE org[u] # "NONE"
  <2>1. PICK x : x = [req[r] EXCEPT !.step = after, !.role = q.role, !.then = "idle"]
    OBVIOUS
  <2>2. /\ x.step = after /\ x.role = q.role /\ x.op = "accept" /\ x.user = u
        /\ x.at = q.at /\ x.who = q.who /\ x.actor = q.actor /\ x.ok = q.ok
    BY <1>1, <1>2, <1>3, <2>1 DEF RequestType
  <2>3. Shape(x, k, h)
    BY <1>1, <1>2, <1>3, <1>4, <2>2 DEF Shape, Takes, Leads
  <2>4. Chain(x, k, g, h)
    BY <1>2, <1>3, <1>6, <1>8, <2>2 DEF Chain, Seen
  <2>5. o = {} /\ ~h.stray => Clear(x, k, h)
    BY <1>1, <1>2, <1>3, <1>8, <2>2 DEF Clear
  <2>6. ~h.late => Known(x, h)
    BY <1>1, <1>2, <1>3, <2>2 DEF Known
  <2>7. Turns(r, after, q.role, "idle", x, k, h)
    BY <1>1, <1>4, <1>5, <1>8, <2>1, <2>3, <2>4, <2>5, <2>6 DEF Turns, RequestOK
  <2> QED
    BY <2>7, TurnsKeepsIInv
<1> QED
  BY <1>7, <1>8

LEMMA AcceptWsKeepsIInv == ASSUME IInv, NEW r \in Requests, AcceptWs(r) PROVE IInv'
<1>1. PICK q, k, g, o, h : InHand(r, q, k, g, o, h)
  BY AtHand DEF AcceptWs, AnyInHand
<1> USE DEF InHand
<1>2. /\ q.step = "acceptWs" /\ q.op = "accept" /\ Chain(q, k, g, h) /\ h.inv \in Invites
      /\ q.at # "org" /\ q.ok /\ (q.at \in Workspaces \/ q.at \in Projects)
  BY <1>1 DEF AcceptWs, Shape, Takes, Chain, RequestType, Places
<1>3. PICK u, w, role, after :
        /\ u = q.user /\ w = Around(q.at)
        /\ role = (IF q.at \in Workspaces THEN inv[h.inv].role ELSE "MEMBER")
        /\ after = (IF q.at \in Workspaces THEN "related" ELSE "project")
  OBVIOUS
<1>4. /\ role \in Roles /\ after \in Steps /\ {"spread", "idle"} \subseteq Steps /\ "check" \in Stages
      /\ w \in Workspaces
  BY <1>1, <1>2, <1>3, Opened, Placement, ProjectsAssumption DEF Steps, Stages, Around
<1>5. CASE ws[u][w] = "NONE"
  <2>1. PICK x, y : /\ x = [req[r] EXCEPT !.step = "spread", !.role = role, !.then = after]
                    /\ y = [k EXCEPT ![w] = "check"]
    OBVIOUS
  <2>2. /\ x.step = "spread" /\ x.role = role /\ x.then = after /\ x.op = "accept" /\ x.user = u
        /\ x.at = q.at /\ x.who = q.who /\ x.actor = q.actor /\ x.ok = q.ok
        /\ y \in [Workspaces -> Stages] /\ y[w] = "check" /\ \A v \in Workspaces : v # w => y[v] = "none"
    BY <1>1, <1>2, <1>3, <1>4, <2>1 DEF RequestType
  <2>3. /\ Next3(r, "spread", role, after) /\ work' = [work EXCEPT ![r] = y]
        /\ UNCHANGED <<members, gone, over, inv, held>>
    BY <1>1, <1>3, <1>5, <2>1 DEF AcceptWs, Around
  <2>4. Shape(x, y, h)
    BY <1>1, <1>2, <1>3, <1>4, <2>2 DEF Shape, Takes, Leads
  <2>5. Chain(x, y, g, h)
    BY <1>2, <1>3, <1>4, <2>2 DEF Chain
  <2>6. o = {} /\ ~h.stray => Clear(x, y, h)
    BY <1>2, <1>3, <1>5, <2>2 DEF Clear
  <2>7. ~h.late => Known(x, h)
    BY <1>1, <1>2, <2>2 DEF Known
  <2>8. Turns(r, "spread", role, after, x, y, h)
    BY <1>1, <1>4, <2>1, <2>2, <2>3, <2>4, <2>5, <2>6, <2>7 DEF Turns, RequestOK
  <2> QED
    BY <2>8, TurnsKeepsIInv
<1>6. CASE ws[u][w] # "NONE"
  <2>1. PICK x : x = [req[r] EXCEPT !.step = after, !.role = role, !.then = "idle"]
    OBVIOUS
  <2>2. /\ x.step = after /\ x.role = role /\ x.op = "accept" /\ x.user = u
        /\ x.at = q.at /\ x.who = q.who /\ x.actor = q.actor /\ x.ok = q.ok
    BY <1>1, <1>2, <1>3, <2>1 DEF RequestType
  <2>3. Next3(r, after, role, "idle") /\ UNCHANGED <<members, gone, over, inv, held, work>>
    BY <1>1, <1>3, <1>6 DEF AcceptWs, Around, Keep
  <2>4. Shape(x, k, h)
    BY <1>1, <1>2, <1>3, <1>4, <2>2 DEF Shape, Takes, Leads
  <2>5. Chain(x, k, g, h)
    BY <1>2, <1>3, <1>6, <2>2 DEF Chain, Seen
  <2>6. o = {} /\ ~h.stray => Clear(x, k, h)
    BY <1>3, <2>2 DEF Clear
  <2>7. ~h.late => Known(x, h)
    BY <1>1, <1>2, <1>3, <2>2 DEF Known
  <2>8. Turns(r, after, role, "idle", x, k, h)
    BY <1>1, <1>4, <2>1, <2>3, <2>4, <2>5, <2>6, <2>7 DEF Turns, RequestOK
  <2> QED
    BY <2>8, TurnsKeepsIInv
<1> QED
  BY <1>5, <1>6

LEMMA FindRelatedKeepsIInv == ASSUME IInv, NEW r \in Requests, FindRelated(r) PROVE IInv'
<1>1. PICK q, k, g, o, h : InHand(r, q, k, g, o, h)
  BY AtHand DEF FindRelated, AnyInHand
<1> USE DEF InHand
<1>2. /\ q.step = "related" /\ q.op = "accept" /\ Chain(q, k, g, h) /\ h.inv \in Invites
      /\ q.at \in Workspaces /\ q.at \notin Projects /\ q.role \in Roles
  BY <1>1, KindsAssumption DEF FindRelated, Shape, Takes, Chain
<1>3. PICK found, step, z :
        /\ found = {i \in Invites : /\ inv[i].status = "PENDING" /\ inv[i].invitee = q.user
                                    /\ inv[i].at \in ProjectsOf(q.at)}
        /\ step = (IF found = {} THEN "settle" ELSE "nextRelated")
        /\ z = [h EXCEPT !.todo = found]
  OBVIOUS
<1>4. step \in Steps /\ "idle" \in Steps /\ \A i \in found : i \in Invites /\ Waiting(i)
  BY <1>3 DEF Steps, Waiting, ProjectsOf
<1>5. z \in HeldType /\ z.inv = h.inv /\ z.todo = found /\ z.stray = h.stray /\ z.late = h.late
  BY <1>1, <1>3, <1>4 DEF HeldType
<1>6. PICK x : x = [req[r] EXCEPT !.step = step, !.role = q.role, !.then = "idle"]
  OBVIOUS
<1>7. /\ x.step = step /\ x.role = q.role /\ x.op = "accept" /\ x.user = q.user /\ x.then = "idle"
      /\ x.at = q.at /\ x.who = q.who /\ x.actor = q.actor /\ x.ok = q.ok
  BY <1>1, <1>2, <1>6 DEF RequestType
<1>8. /\ Next3(r, step, q.role, "idle") /\ held' = [held EXCEPT ![r] = z]
      /\ UNCHANGED <<members, work, gone, over, inv>>
  BY <1>1, <1>3 DEF FindRelated
<1>9. Shape(x, k, z)
  BY <1>1, <1>2, <1>3, <1>5, <1>7 DEF Shape, Takes
<1>10. Chain(x, k, g, z)
  BY <1>2, <1>3, <1>4, <1>5, <1>7 DEF Chain, Waiting
<1>11. o = {} /\ ~z.stray => Clear(x, k, z)
  BY <1>3, <1>7 DEF Clear
<1>12. ~z.late => Known(x, z)
  BY <1>1, <1>2, <1>3, <1>4, <1>5, <1>7 DEF Known
<1>13. Turns(r, step, q.role, "idle", x, k, z)
  BY <1>1, <1>2, <1>4, <1>5, <1>6, <1>8, <1>9, <1>10, <1>11, <1>12 DEF Turns, RequestOK
<1> QED
  BY <1>13, TurnsKeepsIInv

LEMMA NextRelatedKeepsIInv == ASSUME IInv, NEW r \in Requests, NextRelated(r) PROVE IInv'
<1>1. PICK q, k, g, o, h : InHand(r, q, k, g, o, h)
  BY AtHand DEF NextRelated, AnyInHand
<1> USE DEF InHand
<1>2. /\ q.step = "nextRelated" /\ q.op = "accept" /\ Chain(q, k, g, h) /\ h.inv \in Invites
      /\ q.at \in Workspaces /\ q.role \in Roles
  BY <1>1 DEF NextRelated, Shape, Takes, Chain
<1>3. PICK i \in h.todo :
        /\ held' = [held EXCEPT ![r].cur = i, ![r].todo = @ \ {i}]
        /\ Next3(r, IF prj[q.user][inv[i].at] = "NONE" THEN "insert" ELSE "mark", q.role, "mark")
        /\ UNCHANGED <<members, work, gone, over, inv>>
  BY <1>1 DEF NextRelated
<1>4. PICK step, z : /\ step = (IF prj[q.user][inv[i].at] = "NONE" THEN "insert" ELSE "mark")
                     /\ z = [h EXCEPT !.cur = i, !.todo = @ \ {i}]
  OBVIOUS
<1>5. /\ i \in Invites /\ inv[i].status # "none" /\ step \in Steps /\ "mark" \in Steps
      /\ \A j \in h.todo : j \in Invites /\ inv[j].status # "none"
  BY <1>2, <1>3, <1>4 DEF Chain, Steps
<1>6. /\ z \in HeldType /\ z.inv = h.inv /\ z.cur = i /\ z.todo = h.todo \ {i}
      /\ z.stray = h.stray /\ z.late = h.late /\ held' = [held EXCEPT ![r] = z]
  <2>1. /\ z \in HeldType /\ z.inv = h.inv /\ z.cur = i /\ z.todo = h.todo \ {i}
        /\ z.stray = h.stray /\ z.late = h.late
    BY <1>1, <1>3, <1>4, <1>5 DEF HeldType
  <2>2. held \in [Requests -> HeldType]
    BY DEF IInv, Typed
  <2>3. held' = [held EXCEPT ![r] = z]
    BY <1>1, <1>3, <1>4, <2>2 DEF HeldType
  <2> QED
    BY <2>1, <2>3
<1>7. PICK x : x = [req[r] EXCEPT !.step = step, !.role = q.role, !.then = "mark"]
  OBVIOUS
<1>8. /\ x.step = step /\ x.role = q.role /\ x.op = "accept" /\ x.user = q.user /\ x.then = "mark"
      /\ x.at = q.at /\ x.who = q.who /\ x.actor = q.actor /\ x.ok = q.ok
  BY <1>1, <1>2, <1>7 DEF RequestType
<1>9. Shape(x, k, z)
  BY <1>1, <1>2, <1>4, <1>6, <1>8 DEF Shape, Takes
<1>10. Chain(x, k, g, z)
  BY <1>2, <1>4, <1>5, <1>6, <1>8 DEF Chain
<1>11. o = {} /\ ~z.stray => Clear(x, k, z)
  BY <1>4, <1>6, <1>8 DEF Clear
<1>12. ~z.late => Known(x, z)
  BY <1>1, <1>2, <1>3, <1>4, <1>6, <1>8 DEF Known
<1>13. Turns(r, step, q.role, "mark", x, k, z)
  BY <1>1, <1>2, <1>3, <1>4, <1>5, <1>6, <1>7, <1>9, <1>10, <1>11, <1>12 DEF Turns, RequestOK
<1> QED
  BY <1>13, TurnsKeepsIInv

LEMMA AcceptProjectKeepsIInv == ASSUME IInv, NEW r \in Requests, AcceptProject(r) PROVE IInv'
<1>1. PICK q, k, g, o, h : InHand(r, q, k, g, o, h)
  BY AtHand DEF AcceptProject, AnyInHand
<1> USE DEF InHand
<1>2. /\ q.step = "project" /\ q.op = "accept" /\ Chain(q, k, g, h) /\ h.inv \in Invites
      /\ q.at \in Projects /\ q.role \in Roles /\ inv[h.inv].at = q.at /\ inv[h.inv].status # "none"
  BY <1>1 DEF AcceptProject, Shape, Takes, Chain
<1>3. PICK step, z : /\ step = (IF prj[q.user][q.at] = "NONE" THEN "insert" ELSE "settle")
                     /\ z = [h EXCEPT !.cur = h.inv]
  OBVIOUS
<1>4. /\ z \in HeldType /\ z.inv = h.inv /\ z.cur = h.inv /\ z.todo = h.todo
      /\ z.stray = h.stray /\ z.late = h.late /\ {step, "settle"} \subseteq Steps
  BY <1>1, <1>2, <1>3 DEF HeldType, Steps
<1>5. /\ held' = [held EXCEPT ![r] = z] /\ Next3(r, step, q.role, "settle")
      /\ UNCHANGED <<members, work, gone, over, inv>>
  <2>1. held \in [Requests -> HeldType]
    BY DEF IInv, Typed
  <2> QED
    BY <1>1, <1>3, <2>1 DEF AcceptProject, HeldType
<1>6. PICK x : x = [req[r] EXCEPT !.step = step, !.role = q.role, !.then = "settle"]
  OBVIOUS
<1>7. /\ x.step = step /\ x.role = q.role /\ x.op = "accept" /\ x.user = q.user /\ x.then = "settle"
      /\ x.at = q.at /\ x.who = q.who /\ x.actor = q.actor /\ x.ok = q.ok
  BY <1>1, <1>2, <1>6 DEF RequestType
<1>8. Shape(x, k, z)
  BY <1>1, <1>2, <1>3, <1>4, <1>7 DEF Shape, Takes
<1>9. Chain(x, k, g, z)
  BY <1>2, <1>3, <1>4, <1>7 DEF Chain, Seen
<1>10. o = {} /\ ~z.stray => Clear(x, k, z)
  BY <1>2, <1>3, <1>4, <1>7 DEF Clear
<1>11. ~z.late => Known(x, z)
  BY <1>1, <1>2, <1>3, <1>4, <1>7 DEF Known
<1>12. Turns(r, step, q.role, "settle", x, k, z)
  BY <1>1, <1>2, <1>4, <1>5, <1>6, <1>8, <1>9, <1>10, <1>11 DEF Turns, RequestOK
<1> QED
  BY <1>12, TurnsKeepsIInv

LEMMA DirectWsKeepsIInv == ASSUME IInv, NEW r \in Requests, DirectWs(r) PROVE IInv'
<1>1. PICK q, k, g, o, h : InHand(r, q, k, g, o, h)
  BY AtHand DEF DirectWs, AnyInHand
<1> USE DEF InHand
<1>2. q.step = "direct" /\ q.op = "direct" /\ q.role \in Roles /\ h.cur = NoInvite
  BY <1>1 DEF DirectWs, Shape, Takes
<1>3. PICK w, role, after :
        /\ w = (IF q.at \in Workspaces THEN q.at ELSE WorkspaceOf[q.at])
        /\ role = (IF q.at \in Workspaces THEN q.role ELSE "MEMBER")
        /\ after = (IF q.at \in Workspaces THEN "directMany" ELSE "insert")
  OBVIOUS
<1>4. role \in Roles /\ after \in Steps /\ {"spread", "idle"} \subseteq Steps /\ "check" \in Stages
  BY <1>2, <1>3, Placement DEF Steps, Stages
<1>5. \/ /\ Next3(r, "spread", role, after) /\ work' = [work EXCEPT ![r][w] = "check"]
         /\ UNCHANGED <<members, gone, over, inv, held>>
      \/ Next3(r, after, q.role, "idle") /\ UNCHANGED <<members, gone, over, inv, held, work>>
  BY <1>1, <1>3 DEF DirectWs, Keep
<1>6. ASSUME Next3(r, after, q.role, "idle"), UNCHANGED <<members, gone, over, inv, held, work>>
      PROVE  IInv'
  <2>1. PICK x : x = [req[r] EXCEPT !.step = after, !.role = q.role, !.then = "idle"]
    OBVIOUS
  <2>2. x.step = after /\ x.role = q.role /\ x.op = "direct" /\ x.then = "idle" /\ x.at = q.at
    BY <1>1, <1>2, <2>1 DEF RequestType
  <2>3. Shape(x, k, h) /\ Known(x, h)
    BY <1>1, <1>2, <1>3, <2>2 DEF Shape, Takes, Known
  <2>4. Turns(r, after, q.role, "idle", x, k, h)
    BY <1>1, <1>2, <1>4, <1>6, <2>1, <2>2, <2>3 DEF Turns, RequestOK
  <2> QED
    BY <2>4, TurnsKeepsIInv
<1>7. ASSUME Next3(r, "spread", role, after), work' = [work EXCEPT ![r][w] = "check"],
             UNCHANGED <<members, gone, over, inv, held>>
      PROVE  IInv'
  <2>1. PICK x, y : /\ x = [req[r] EXCEPT !.step = "spread", !.role = role, !.then = after]
                    /\ y = [k EXCEPT ![w] = "check"]
    OBVIOUS
  <2>2. w \in Workspaces
    BY <1>1, <1>2, <1>3, ProjectsAssumption DEF Shape, RequestType, Places
  <2>3. /\ x.step = "spread" /\ x.role = role /\ x.op = "direct" /\ x.then = after /\ x.at = q.at
        /\ y \in [Workspaces -> Stages] /\ y[w] # "none" /\ work' = [work EXCEPT ![r] = y]
    BY <1>1, <1>2, <1>4, <1>7, <2>1, <2>2 DEF RequestType
  <2>4. Shape(x, y, h) /\ Known(x, h)
    BY <1>1, <1>2, <1>3, <1>4, <2>2, <2>3 DEF Shape, Takes, Known, Leads
  <2>5. Turns(r, "spread", role, after, x, y, h)
    BY <1>1, <1>4, <1>7, <2>1, <2>3, <2>4 DEF Turns, RequestOK
  <2> QED
    BY <2>5, TurnsKeepsIInv
<1> QED
  BY <1>5, <1>6, <1>7

-----------------------------------------------------------------------------
\* Steps of InvitationsService that write.
LEMMA FailInviteKeepsIInv ==
  ASSUME IInv, NEW r \in Requests, req[r].step # "spread", FailInvite(r) PROVE IInv'
BY FailKeepsIInv DEF FailInvite, Drops

LEMMA InsertProjectKeepsIInv == ASSUME IInv, NEW r \in Requests, InsertProject(r) PROVE IInv'
<1>1. PICK q, k, g, o, h : InHand(r, q, k, g, o, h)
  BY AtHand DEF InsertProject, AnyInHand
<1> USE DEF InHand
<1>2. /\ q.step = "insert" /\ q.op \in {"accept", "direct"} /\ q.user \in Users
      /\ q.op = "direct" => h.cur = NoInvite
      /\ q.op = "accept" => Chain(q, k, g, h) /\ h.cur \in Invites /\ h.cur # NoInvite
  BY <1>1, NoInviteAssumption DEF InsertProject, Shape, Takes, Chain, RequestType
<1>3. PICK u, i, p, role :
        /\ u = q.user /\ i = h.cur /\ p = (IF i = NoInvite THEN q.at ELSE inv[i].at)
        /\ role = (IF i = NoInvite THEN h.role ELSE inv[i].role)
  OBVIOUS
<1>4. role \in Roles /\ role \in Row /\ role # "NONE"
  BY <1>1, <1>2, <1>3, Opened, Placement DEF HeldType
<1>5. CASE FailInvite(r)
  BY <1>1, <1>2, <1>5, FailInviteKeepsIInv
<1>6. CASE ~FailInvite(r)
  <2>1. /\ p \in Projects /\ prj' = [prj EXCEPT ![u][p] = role] /\ Wrote(r, "member", {})
        /\ req' = (IF i = NoInvite THEN [req EXCEPT ![r] = Idle] ELSE [req EXCEPT ![r].step = req[r].then])
        /\ Keeps(r) /\ UNCHANGED <<owner, org, ws, work>>
    BY <1>1, <1>3, <1>6 DEF InsertProject, Keeps
  <2>2. prj \in [Users -> [Projects -> Row]]
    BY DEF IInv, Typed, MembersTyped
  <2>3. /\ prj' \in [Users -> [Projects -> Row]] /\ prj'[u][p] # "NONE"
        /\ \A m \in Users, v \in Projects : prj[m][v] # "NONE" => prj'[m][v] # "NONE"
    BY <1>2, <1>3, <1>4, <2>1, <2>2
  <2>4. MembersTyped' /\ Deletes({})
    BY <2>1, <2>3 DEF IInv, Typed, MembersTyped, Deletes
  <2>5. CASE q.op = "direct"
    <3>1. Finish(r)
      BY <1>2, <1>3, <2>1, <2>5 DEF Finish
    <3>2. Ends(r, "member", {})
      BY <1>1, <1>2, <2>1, <2>4, <3>1, FinishDrops DEF Ends
    <3> QED
      BY <3>2, EndsKeepsIInv
  <2>6. CASE q.op = "accept"
    <3>1. PICK x : x = [q EXCEPT !.step = q.then]
      OBVIOUS
    <3>2. /\ x \in RequestType /\ x.op = "accept" /\ x.role = q.role /\ x.user = u /\ x.at = q.at
          /\ x.who = q.who /\ x.actor = q.actor /\ x.ok = q.ok /\ x.then = q.then
          /\ x.step = q.then /\ x.step \in {"mark", "settle"}
      BY <1>1, <1>2, <1>3, <2>6, <3>1 DEF RequestType, Chain
    <3>3. req' = [req EXCEPT ![r] = x] /\ req'[r] = x
      <4>1. req \in [Requests -> RequestType]
        BY DEF IInv, Typed
      <4> QED
        BY <1>1, <1>2, <1>3, <2>1, <2>6, <3>1, <4>1 DEF RequestType
    <3>4. held' = [held EXCEPT ![r] = h] /\ UNCHANGED inv
      BY <1>1, <2>1, <3>2, <3>3 DEF Keeps, Active
    <3>5. Writes(r, x, k, g, o, h, "member", {})
      BY <1>1, <2>1, <2>4, <3>3, <3>4 DEF Writes
    <3>6. Shape(x, k, h)'
      BY <1>1, <1>2, <2>6, <3>2 DEF Shape, Takes
    <3>7. Chain(x, k, g, h)'
      BY <1>2, <1>3, <2>1, <2>3, <2>6, <3>2, <3>4 DEF Chain, Seen
    <3>8. o = {} /\ ~h.stray => Clear(x, k, h)'
      BY <3>2 DEF Clear
    <3>9. ~h.late => Known(x, h)'
      BY <1>1, <1>2, <2>6, <3>2, <3>4 DEF Known, Waiting
    <3>10. RequestOK(x, k, g, o, h)'
      BY <1>1, <3>6, <3>7, <3>8, <3>9 DEF RequestOK
    <3> QED
      BY <1>1, <3>2, <3>5, <3>10, WritingKeepsIInv
  <2> QED
    BY <1>2, <2>5, <2>6
<1> QED
  BY <1>5, <1>6

LEMMA DirectProjectsKeepsIInv == ASSUME IInv, NEW r \in Requests, DirectProjects(r) PROVE IInv'
<1>1. PICK u, role, todo : u = req[r].user /\ role = req[r].role /\ todo = held[r].todo
  OBVIOUS
<1>2. u \in Users /\ role \in Roles /\ role \in Row /\ role # "NONE" /\ req[r].step # "spread"
  BY <1>1, Acting, Placement DEF DirectProjects, RequestOK, Shape, Takes, RequestType
<1>3. /\ prj' = [prj EXCEPT ![u] = [p \in Projects |->
                   IF p \in todo /\ @[p] = "NONE" THEN role ELSE @[p]]]
      /\ Finish(r) /\ Wrote(r, "member", {}) /\ Drops(r) /\ UNCHANGED <<owner, org, ws, work>>
  BY <1>1 DEF DirectProjects, Drops
<1>4. prj \in [Users -> [Projects -> Row]]
  BY DEF IInv, Typed, MembersTyped
<1>5. /\ prj' \in [Users -> [Projects -> Row]]
      /\ \A m \in Users, p \in Projects : prj[m][p] # "NONE" => prj'[m][p] # "NONE"
  BY <1>2, <1>3, <1>4
<1>6. MembersTyped' /\ Deletes({})
  BY <1>3, <1>5 DEF IInv, Typed, MembersTyped, Deletes
<1>7. Ends(r, "member", {})
  BY <1>2, <1>3, <1>6 DEF Ends
<1> QED
  BY <1>7, EndsKeepsIInv

\* The status of invitation i is written, and the request goes on or ends.
Rewrites(r, i, row, step, x, y, z) ==
  /\ WriteInvite(r, i, row, step)
  /\ i \in Invites /\ row \in InviteType /\ row.status # "none"
  /\ inv[i].status # "none" => row.invitee = inv[i].invitee /\ row.at = inv[i].at
  /\ req[r].step \notin {"idle", "spread"} /\ y = work[r]
  /\ x = IF step = "idle" THEN Idle ELSE [req[r] EXCEPT !.step = step]
  /\ z = IF step = "idle" THEN Nothing ELSE held[r]
  /\ step \in {"idle", "settle", "nextRelated"}
  /\ step # "idle" => RequestOK(x, y, gone[r], over[r], z)'

LEMMA RewritesKeepsIInv ==
  ASSUME IInv, NEW r \in Requests, NEW i, NEW row, NEW step, NEW x, NEW y, NEW z,
         Rewrites(r, i, row, step, x, y, z)
  PROVE  IInv'
<1> USE DEF Rewrites, WriteInvite
<1>1. PICK h : h = held[r]
  OBVIOUS
<1>2. /\ req \in [Requests -> RequestType] /\ req[r] \in RequestType /\ h \in HeldType
      /\ inv \in [Invites -> InviteType]
  BY <1>1, Acting DEF IInv, Typed
<1>3. {"idle", "settle", "nextRelated"} \subseteq Steps
  BY DEF Steps
<1>4. x \in RequestType /\ (x.step = "idle" <=> step = "idle")
  BY <1>2, <1>3, IdleType DEF RequestType
<1>5. /\ req' = [req EXCEPT ![r] = x] /\ req'[r] = x
      /\ \A s \in Requests \ {r} : req'[s] = req[s]
  BY <1>2
<1>6. /\ y \in [Workspaces -> Stages] /\ (\A w \in Workspaces : y[w] = "none")
      /\ work' = [work EXCEPT ![r] = y]
  BY RestingWork
<1>7. z \in HeldType
  BY <1>1, <1>2, IdleType
<1>8. held' = [s \in Requests |-> IF s = r THEN z ELSE IF req[s].step = "idle" THEN Nothing
                                  ELSE [held[s] EXCEPT !.late = TRUE]]
  <2>1. [h EXCEPT !.late = @ \/ r # r] = h
    BY <1>2 DEF HeldType
  <2>2. \A s \in Requests \ {r} : [held[s] EXCEPT !.late = @ \/ s # r] = [held[s] EXCEPT !.late = TRUE]
    OBVIOUS
  <2> QED
    BY <1>1, <1>4, <1>5, <2>1, <2>2 DEF Active
<1>9. InvitesKept /\ inv' \in [Invites -> InviteType]
  BY <1>2 DEF InvitesKept
<1>10. PICK g, o : /\ g = (IF step = "idle" THEN {} ELSE gone[r])
                   /\ o = (IF step = "idle" THEN {} ELSE over[r])
  OBVIOUS
<1>11. /\ g \in SUBSET (Users \X Places) /\ o \in SUBSET {"org", "member"}
       /\ gone' = [gone EXCEPT ![r] = g] /\ over' = [over EXCEPT ![r] = o]
  BY <1>10, Acting DEF IInv, Typed
<1>12. Answers(r, x, y, g, o, z)
  BY <1>5, <1>6, <1>8, <1>9, <1>11 DEF Answers
<1>13. RequestOK(x, y, g, o, z)'
  <2>1. CASE step = "idle"
    BY <1>6, <2>1, IdleType DEF RequestOK, Shape, Takes, Roles, Nothing
  <2>2. CASE step # "idle"
    <3>1. PICK g2, o2 : g2 = gone'[r] /\ o2 = over'[r]
      OBVIOUS
    <3>2. g2 = g /\ o2 = o
      BY <1>10, <2>2, <3>1 DEF IInv, Typed
    <3> QED
      BY <2>2, <3>1, <3>2
  <2> QED
    BY <2>1, <2>2
<1> QED
  BY <1>4, <1>6, <1>7, <1>11, <1>12, <1>13, AnsweringKeepsIInv

LEMMA EndingKeepsIInv ==
  ASSUME IInv, NEW r \in Requests, req[r].step \notin {"idle", "spread"}, NEW i \in Invites,
         NEW row \in InviteType, row.status # "none",
         row.invitee = inv[i].invitee, row.at = inv[i].at, WriteInvite(r, i, row, "idle")
  PROVE  IInv'
<1>1. PICK y : y = work[r]
  OBVIOUS
<1>2. Rewrites(r, i, row, "idle", Idle, y, Nothing)
  BY <1>1 DEF Rewrites
<1> QED
  BY <1>2, RewritesKeepsIInv

LEMMA SettleKeepsIInv == ASSUME IInv, NEW r \in Requests, Settle(r) PROVE IInv'
<1>1. PICK i, status : /\ i = held[r].inv
                       /\ status = (CASE req[r].op = "accept" -> "ACCEPTED"
                                      [] req[r].op = "expire" -> "EXPIRED" [] OTHER -> "DECLINED")
  OBVIOUS
<1>2. req[r].step = "settle" /\ i \in Invites
  BY <1>1, Acting DEF Settle, RequestOK, Shape, Takes
<1>3. status \in Statuses /\ status # "none"
  BY <1>1 DEF Statuses
<1>4. CASE FailInvite(r)
  BY <1>2, <1>4, FailInviteKeepsIInv
<1>5. CASE ~FailInvite(r)
  <2>1. PICK row : row = [inv[i] EXCEPT !.status = status]
    OBVIOUS
  <2>2. WriteInvite(r, i, row, "idle")
    BY <1>1, <1>5, <2>1 DEF Settle, SetStatus
  <2>3. row \in InviteType /\ row.status # "none" /\ row.invitee = inv[i].invitee /\ row.at = inv[i].at
    BY <1>2, <1>3, <2>1 DEF IInv, Typed, InviteType
  <2> QED
    BY <1>2, <2>2, <2>3, EndingKeepsIInv
<1> QED
  BY <1>4, <1>5

LEMMA ResendKeepsIInv == ASSUME IInv, NEW r \in Requests, Resend(r) \/ Delete(r) PROVE IInv'
<1>1. PICK i : i = held[r].inv
  OBVIOUS
<1>2. req[r].step \in {"resend", "delete"} /\ i \in Invites
  BY <1>1, Acting DEF Resend, Delete, RequestOK, Shape, Takes
<1>3. CASE FailInvite(r)
  BY <1>2, <1>3, FailInviteKeepsIInv
<1>4. CASE ~FailInvite(r)
  <2>1. PICK row1, row2 : /\ row1 = [inv[i] EXCEPT !.status = "PENDING", !.live = TRUE]
                          /\ row2 = [inv[i] EXCEPT !.status = "deleted"]
    OBVIOUS
  <2>2. WriteInvite(r, i, row1, "idle") \/ WriteInvite(r, i, row2, "idle")
    BY <1>1, <1>4, <2>1 DEF Resend, Delete
  <2>3. inv[i] \in InviteType /\ {"PENDING", "deleted"} \subseteq Statuses
    BY <1>2 DEF IInv, Typed, Statuses
  <2>4. /\ row1 \in InviteType /\ row1.status # "none"
        /\ row1.invitee = inv[i].invitee /\ row1.at = inv[i].at
    BY <2>1, <2>3 DEF InviteType
  <2>5. /\ row2 \in InviteType /\ row2.status # "none"
        /\ row2.invitee = inv[i].invitee /\ row2.at = inv[i].at
    BY <2>1, <2>3 DEF InviteType
  <2> QED
    BY <1>2, <2>2, <2>4, <2>5, EndingKeepsIInv
<1> QED
  BY <1>3, <1>4

LEMMA MarkRelatedKeepsIInv == ASSUME IInv, NEW r \in Requests, MarkRelated(r) PROVE IInv'
<1>1. PICK q, k, g, o, h : InHand(r, q, k, g, o, h)
  BY AtHand DEF MarkRelated, AnyInHand
<1> USE DEF InHand
<1>2. /\ q.step = "mark" /\ q.op = "accept" /\ Chain(q, k, g, h) /\ h.inv \in Invites /\ h.cur \in Invites
      /\ q.at \in Workspaces /\ q.at \notin Projects /\ q.role \in Roles
      /\ inv[h.inv].at = q.at /\ inv[h.cur].status # "none"
  BY <1>1, KindsAssumption DEF MarkRelated, Shape, Takes, Chain
<1>3. PICK i, row, step : /\ i = h.cur /\ row = [inv[i] EXCEPT !.status = "ACCEPTED"]
                          /\ step = (IF h.todo = {} THEN "settle" ELSE "nextRelated")
  OBVIOUS
<1>4. /\ row \in InviteType /\ row.status # "none" /\ row.invitee = inv[i].invitee /\ row.at = inv[i].at
      /\ inv \in [Invites -> InviteType]
  BY ZenonT(40), <1>2, <1>3 DEF IInv, Typed, InviteType, Statuses
<1>5. CASE FailInvite(r)
  BY <1>1, <1>2, <1>5, FailInviteKeepsIInv
<1>6. CASE ~FailInvite(r)
  <2>1. WriteInvite(r, i, row, step)
    BY <1>1, <1>3, <1>6 DEF MarkRelated, SetStatus
  <2>2. PICK x : x = [req[r] EXCEPT !.step = step]
    OBVIOUS
  <2>3. /\ x.step = step /\ x.role = q.role /\ x.op = "accept" /\ x.user = q.user
        /\ x.at = q.at /\ x.who = q.who /\ x.actor = q.actor /\ x.ok = q.ok
    BY <1>1, <1>2, <2>2 DEF RequestType
  <2>4. /\ inv'[i].status = "ACCEPTED" /\ inv'[i].invitee = inv[i].invitee /\ inv'[i].at = inv[i].at
        /\ \A j \in Invites : j # i => inv'[j] = inv[j]
        /\ \A j \in Invites : inv[j].status # "none" =>
             inv'[j].status # "none" /\ inv'[j].invitee = inv[j].invitee /\ inv'[j].at = inv[j].at
        /\ UNCHANGED members
    BY <1>2, <1>3, <1>4, <2>1 DEF WriteInvite, InviteType
  <2>5. Shape(x, k, h)'
    BY <1>1, <1>2, <1>3, <2>3 DEF Shape, Takes
  <2>6. Chain(x, k, g, h)'
    BY <1>2, <1>3, <2>3, <2>4 DEF Chain, members
  <2>7. o = {} /\ ~h.stray => Clear(x, k, h)'
    BY <1>3, <2>3 DEF Clear
  <2>8. ~h.late => Known(x, h)'
    <3>1. SUFFICES ASSUME ~h.late PROVE Known(x, h)'
      OBVIOUS
    <3>2. /\ Waiting(i) /\ i \notin h.todo /\ inv[h.inv].status = "PENDING"
          /\ \A j \in h.todo : Waiting(j)
      BY <1>1, <1>2, <1>3, <3>1 DEF Known
    <3>3. h.inv # i
      BY <1>2, <3>2 DEF Waiting
    <3>4. /\ inv'[h.inv].status = "PENDING"
          /\ \A j \in h.todo : Waiting(j)'
      BY <1>2, <2>4, <3>2, <3>3 DEF Waiting
    <3> QED
      BY <1>3, <2>3, <3>4 DEF Known
  <2>9. RequestOK(x, k, g, o, h)'
    BY <1>1, <2>3, <2>5, <2>6, <2>7, <2>8 DEF RequestOK
  <2>10. g = gone'[r] /\ o = over'[r]
    BY <1>1, <1>3, <2>1 DEF WriteInvite, IInv, Typed
  <2>11. Rewrites(r, i, row, step, x, k, h)
    BY <1>1, <1>2, <1>3, <1>4, <2>1, <2>2, <2>9, <2>10 DEF Rewrites
  <2> QED
    BY <2>11, RewritesKeepsIInv
<1> QED
  BY <1>5, <1>6

LEMMA InsertInviteKeepsIInv == ASSUME IInv, NEW r \in Requests, InsertInvite(r) PROVE IInv'
<1>1. PICK q, k, g, o, h : InHand(r, q, k, g, o, h)
  BY AtHand DEF InsertInvite, AnyInHand
<1> USE DEF InHand
<1>2. /\ q.step \in {"invite", "inviteMore"} /\ q.op = "invite" /\ q.role \in Roles
      /\ h.todo \subseteq Projects /\ q.user \in Users /\ q.at \in Places
  BY <1>1 DEF InsertInvite, Shape, Takes, RequestType
<1>3. PICK i \in Invites, at \in IF req[r].step = "invite" THEN {req[r].at} ELSE held[r].todo :
        /\ inv[i].status = "none"
        /\ LET left == held[r].todo \ {at} IN
             /\ inv' = [inv EXCEPT ![i] = [status |-> "PENDING", invitee |-> req[r].user,
                                           at |-> at, role |-> req[r].role, live |-> TRUE]]
             /\ req' = IF left = {} THEN [req EXCEPT ![r] = Idle]
                       ELSE [req EXCEPT ![r].step = "inviteMore"]
             /\ held' = [s \in Requests |->
                           IF ~Active(s) THEN Nothing
                           ELSE IF s = r THEN [held[s] EXCEPT !.todo = left]
                           ELSE [held[s] EXCEPT !.late = TRUE]]
             /\ gone' = [gone EXCEPT ![r] = IF left = {} THEN {} ELSE @]
             /\ over' = [over EXCEPT ![r] = IF left = {} THEN {} ELSE @]
        /\ UNCHANGED <<members, work>>
  BY DEF InsertInvite
<1>4. PICK left, row, x, z, g2, o2 :
        /\ left = h.todo \ {at}
        /\ row = [status |-> "PENDING", invitee |-> q.user, at |-> at, role |-> q.role, live |-> TRUE]
        /\ x = (IF left = {} THEN Idle ELSE [q EXCEPT !.step = "inviteMore"])
        /\ z = (IF left = {} THEN Nothing ELSE [h EXCEPT !.todo = left])
        /\ g2 = (IF left = {} THEN {} ELSE g) /\ o2 = (IF left = {} THEN {} ELSE o)
  OBVIOUS
<1>5. row \in InviteType /\ row.status # "none"
  <2>1. at \in Places /\ "PENDING" \in Statuses
    BY <1>1, <1>2, <1>3 DEF Statuses, Places
  <2> QED
    BY <1>2, <1>4, <2>1 DEF InviteType
<1>6. InvitesKept /\ inv' \in [Invites -> InviteType]
  <2>1. inv \in [Invites -> InviteType] /\ inv' = [inv EXCEPT ![i] = row]
    BY <1>1, <1>3, <1>4 DEF IInv, Typed
  <2> QED
    BY <1>3, <1>5, <2>1 DEF InvitesKept
<1>7. /\ x \in RequestType /\ z \in HeldType
      /\ left # {} => /\ x.step = "inviteMore" /\ x.op = "invite" /\ x.role = q.role
                      /\ z.todo = left /\ z.late = h.late /\ x.at = q.at
      /\ left = {} => x = Idle /\ z = Nothing
  BY <1>1, <1>2, <1>4, IdleType DEF RequestType, HeldType, Steps
<1>8. /\ req' = [req EXCEPT ![r] = x] /\ req'[r] = x /\ \A s \in Requests \ {r} : req'[s] = req[s]
      /\ gone' = [gone EXCEPT ![r] = g2] /\ over' = [over EXCEPT ![r] = o2]
  BY <1>1, <1>3, <1>4 DEF IInv, Typed
<1>9. held' = [s \in Requests |-> IF s = r THEN z ELSE IF req[s].step = "idle" THEN Nothing
                                  ELSE [held[s] EXCEPT !.late = TRUE]]
  <2>1. held' = [s \in Requests |-> IF ~Active(s) THEN Nothing
                                   ELSE IF s = r THEN [held[s] EXCEPT !.todo = left]
                                   ELSE [held[s] EXCEPT !.late = TRUE]]
    BY <1>1, <1>3, <1>4
  <2>2. Active(r) <=> left # {}
    BY <1>7, <1>8, IdleType DEF Active
  <2>3. z = IF Active(r) THEN [held[r] EXCEPT !.todo = left] ELSE Nothing
    BY <1>1, <1>4, <2>2
  <2>4. \A s \in Requests \ {r} : Active(s) <=> req[s].step # "idle"
    BY <1>8 DEF Active
  <2> QED
    BY <2>1, <2>3, <2>4
<1>10. Answers(r, x, k, g2, o2, z)
  BY <1>1, <1>3, <1>6, <1>8, <1>9 DEF Answers
<1>11. RequestOK(x, k, g2, o2, z)'
  <2>1. CASE left = {}
    BY <1>1, <1>7, <2>1, IdleType DEF RequestOK, Shape, Takes, Roles, Nothing
  <2>2. CASE left # {}
    BY <1>1, <1>2, <1>4, <1>7, <2>2 DEF RequestOK, Shape, Takes, Known
  <2> QED
    BY <2>1, <2>2
<1>12. g2 \in SUBSET (Users \X Places) /\ o2 \in SUBSET {"org", "member"}
  BY <1>1, <1>4, Acting
<1> QED
  BY <1>1, <1>7, <1>10, <1>11, <1>12, AnsweringKeepsIInv

-----------------------------------------------------------------------------
\* A step of no request.
LEMMA RestKeepsIInv ==
  ASSUME IInv, UNCHANGED <<memberVars, held>>, SameAnswers, inv' \in [Invites -> InviteType]
  PROVE  IInv'
<1>1. Typed'
  BY DEF IInv, Typed, MembersTyped, memberVars, members
<1>2. ASSUME NEW s \in Requests PROVE RequestOK(req[s], work[s], gone[s], over[s], held[s])'
  <2>1. PICK q, k, g, o, h :
          q = req[s] /\ k = work[s] /\ g = gone[s] /\ o = over[s] /\ h = held[s]
    OBVIOUS
  <2>2. /\ q = req'[s] /\ k = work'[s] /\ g = gone'[s] /\ o = over'[s] /\ h = held'[s]
        /\ UNCHANGED members
    BY <2>1 DEF memberVars
  <2>3. /\ q \in RequestType /\ k \in [Workspaces -> Stages] /\ h \in HeldType
        /\ RequestOK(q, k, g, o, h)
    BY <1>2, <2>1, Acting
  <2>4. RequestOK(q, k, g, o, h)'
    <3>1. CASE q.step = "idle"
      BY <2>3, <3>1 DEF RequestOK, Shape
    <3>2. CASE q.step # "idle"
      <4>1. Overtaken(q, g, o, h, g, o, h) /\ InvitesKept
        BY <2>2 DEF Overtaken, Recorded, members, InvitesKept, SameAnswers
      <4> QED
        BY <2>3, <3>2, <4>1, OvertakenOK DEF IInv
    <3> QED
      BY <3>1, <3>2
  <2> QED
    BY <2>2, <2>4
<1> QED
  BY <1>1, <1>2 DEF IInv

LEMMA InviteStepKeepsIInv == ASSUME IInv, NEW r \in Requests, InviteStep(r) PROVE IInv'
BY AskingKeepsIInv, AcceptOrgKeepsIInv, AcceptWsKeepsIInv, FindRelatedKeepsIInv,
   NextRelatedKeepsIInv,
   AcceptProjectKeepsIInv, InsertProjectKeepsIInv, MarkRelatedKeepsIInv, SettleKeepsIInv,
   InsertInviteKeepsIInv, DirectWsKeepsIInv, DirectProjectsKeepsIInv, ResendKeepsIInv DEF InviteStep

LEMMA NextKeepsIInv == IInv /\ [InvNext]_vars => IInv'
<1> SUFFICES ASSUME IInv, [InvNext]_vars PROVE IInv'
  OBVIOUS
<1>1. CASE UNCHANGED vars
  <2>1. inv' \in [Invites -> InviteType] /\ SameAnswers
    BY <1>1 DEF vars, IInv, Typed, SameAnswers
  <2> QED
    BY <1>1, <2>1, RestKeepsIInv DEF vars
<1>2. ASSUME NEW i \in Invites, Expire(i) PROVE IInv'
  <2>1. inv' \in [Invites -> InviteType] /\ SameAnswers
    BY <1>2 DEF Expire, IInv, Typed, InviteType, SameAnswers
  <2> QED
    BY <1>2, <2>1, RestKeepsIInv DEF Expire
<1> QED
  BY <1>1, <1>2, MemberStepKeepsIInv, InviteStepKeepsIInv DEF InvNext

LEMMA AlwaysIInv == InvSpec => []IInv
BY InitIInv, NextKeepsIInv, PTL DEF InvSpec

\* Every table and every request keeps its type: no request takes a step, holds
\* an invitation or names a place that the services have no case for.
THEOREM InvitationsTyped == InvSpec => []Typed
<1>1. IInv => Typed
  BY DEF IInv
<1> QED
  BY <1>1, AlwaysIInv, PTL

-----------------------------------------------------------------------------
LEMMA WrittenInvite ==
  ASSUME inv \in [Invites -> InviteType], NEW r, NEW j, NEW row, NEW step, WriteInvite(r, j, row, step),
         NEW i \in Invites, inv'[i] # inv[i]
  PROVE  i = j /\ inv'[i] = row
BY DEF WriteInvite

LEMMA DeclinedStep ==
  ASSUME IInv, InvNext, NEW i \in Invites, inv[i].status = "DECLINED",
         inv'[i].status \notin {"DECLINED", "deleted"}
  PROVE  \E r \in Requests : i \in {held[r].inv, held[r].cur} /\ held[r].late /\ req'[r] # req[r]
<1>1. inv \in [Invites -> InviteType] /\ inv' # inv
  BY DEF IInv, Typed
<1>2. ASSUME NEW j \in Invites, Expire(j) PROVE FALSE
  BY <1>1, <1>2 DEF Expire, InviteType
<1>3. PICK r \in Requests : InviteStep(r)
  BY <1>1, <1>2 DEF InvNext, MemberStep
<1>4. PICK q, h : q = req[r] /\ h = held[r]
  OBVIOUS
<1>5. /\ q.step # "idle" /\ ~h.late => Known(q, h)
      /\ h.late \in BOOLEAN /\ Takes(q.op, q.step) /\ req \in [Requests -> RequestType]
  BY <1>4, Acting DEF RequestOK, Shape, HeldType, IInv, Typed
<1>6. CASE Settle(r)
  <2>1. q.step = "settle" /\ q.op \in {"accept", "expire", "decline"} /\ h.inv = i /\ req'[r] = Idle
    BY <1>1, <1>4, <1>5, <1>6 DEF Settle, SetStatus, FailInvite, WriteInvite, Takes
  <2> QED
    BY <1>4, <1>5, <2>1, IdleType DEF Known
<1>7. CASE MarkRelated(r)
  <2>1. PICK row, step : /\ row = [inv[h.cur] EXCEPT !.status = "ACCEPTED"]
                         /\ step = (IF h.todo = {} THEN "settle" ELSE "nextRelated")
    OBVIOUS
  <2>2. q.step = "mark" /\ WriteInvite(r, h.cur, row, step)
    BY <1>1, <1>4, <1>7, <2>1 DEF MarkRelated, SetStatus, FailInvite
  <2>3. h.cur = i /\ req'[r].step \in {"settle", "nextRelated"}
    <3>1. inv'[i] # inv[i] /\ step # "idle"
      BY <2>1
    <3>2. h.cur = i
      BY <1>1, <2>2, <3>1, WrittenInvite
    <3>3. req' = [req EXCEPT ![r].step = step]
      BY <2>2, <3>1 DEF WriteInvite
    <3> QED
      BY <1>5, <2>1, <3>2, <3>3 DEF RequestType
  <2> QED
    BY <1>4, <1>5, <2>2, <2>3 DEF Known, Waiting
<1>8. CASE Resend(r)
  <2>1. q.step = "resend" /\ q.op = "resend" /\ h.inv = i /\ req'[r] = Idle
    BY <1>1, <1>4, <1>5, <1>8 DEF Resend, FailInvite, WriteInvite, Takes
  <2> QED
    BY <1>4, <1>5, <2>1, IdleType DEF Known
<1>9. CASE Delete(r)
  <2>1. PICK row : row = [inv[h.inv] EXCEPT !.status = "deleted"]
    OBVIOUS
  <2>2. WriteInvite(r, h.inv, row, "idle")
    BY <1>1, <1>4, <1>9, <2>1 DEF Delete, FailInvite
  <2>3. i = h.inv /\ inv'[i] = row
    BY <1>1, <2>2, WrittenInvite
  <2> QED
    BY <1>1, <2>1, <2>3 DEF InviteType
<1>10. ~InsertInvite(r)
  BY <1>1 DEF InsertInvite
<1> QED
  BY <1>1, <1>3, <1>6, <1>7, <1>8, <1>9, <1>10 DEF InviteStep, AskAccept, AskExpired, AskInvite,
     AskDirect,
     AskDecline, AskResend, AskDelete, Start, AcceptOrg, AcceptWs, Keep, FindRelated, NextRelated,
     AcceptProject, InsertProject, FailInvite, DirectWs, DirectProjects

\* A declined invitation stays declined: declineInvitation has the last word,
\* unless a request that had read the invitation before answers or resends it.
THEOREM DeclinedInvitationsStay == InvSpec => DeclinedStays
<1>1. IInv /\ [InvNext]_vars =>
        [ \A i \in Invites :
            inv[i].status = "DECLINED" /\ inv'[i].status \notin {"DECLINED", "deleted"}
            => \E r \in Requests :
                 i \in {held[r].inv, held[r].cur} /\ held[r].late /\ req'[r] # req[r] ]_vars
  BY DeclinedStep
<1> QED
  BY <1>1, AlwaysIInv, PTL DEF InvSpec, DeclinedStays

LEMMA SecondStep ==
  ASSUME IInv, NEW r \in Requests, req[r].step = "invite", PendingFor(req[r].user, req[r].at) # {}
  PROVE  held[r].late
BY Acting DEF RequestOK, Known, HeldType

\* createInvitation never leaves a person with two pending invitations to the
\* place it was asked for, unless somebody wrote the table since it looked.
THEOREM NobodyInvitedTwice == InvSpec => NoSecondInvite
<1>1. IInv /\ [InvNext]_vars =>
        [ \A r \in Requests, i \in Invites :
            /\ req[r].step = "invite" /\ inv[i].status = "none" /\ inv'[i].status = "PENDING"
            /\ PendingFor(req[r].user, req[r].at) # {}
            => held[r].late ]_vars
  BY SecondStep
<1> QED
  BY <1>1, AlwaysIInv, PTL DEF InvSpec, NoSecondInvite

-----------------------------------------------------------------------------
LEMMA Belongs ==
  ASSUME IInv, NEW r \in Requests, req[r].op = "accept", req[r].step = "settle", gone[r] = {}
  PROVE  LET u == req[r].user IN
           /\ org[u] # "NONE" /\ MemberOf(u, req[r].at)
           /\ req[r].at \in Projects => ws[u][WorkspaceOf[req[r].at]] # "NONE"
<1>1. PICK q, k, g, o, h, u, at, a :
        /\ q = req[r] /\ k = work[r] /\ g = gone[r] /\ o = over[r] /\ h = held[r]
        /\ u = q.user /\ at = q.at /\ a = Around(at)
  OBVIOUS
<1>2. Chain(q, k, g, h) /\ q.step = "settle" /\ g = {} /\ at \in Places
  BY <1>1, Acting DEF RequestOK, RequestType
<1>3. /\ org[u] # "NONE" /\ (at # "org" => ws[u][a] # "NONE")
      /\ at \in Projects => prj[u][at] # "NONE"
  BY <1>1, <1>2 DEF Chain, Seen
<1>4. at \in Workspaces => a = at
  BY <1>1 DEF Around
<1>5. at \in Projects => a = WorkspaceOf[at] /\ at # "org" /\ at \notin Workspaces
  BY <1>1, KindsAssumption, PlacesAssumption DEF Around
<1>6. MemberOf(u, at)
  <2>1. CASE at = "org"
    BY <1>3, <2>1, PlacesAssumption DEF MemberOf
  <2>2. CASE at \in Workspaces
    <3>1. at # "org"
      BY <2>2, PlacesAssumption
    <3> QED
      BY <1>3, <1>4, <2>2, <3>1 DEF MemberOf
  <2>3. CASE at \in Projects
    BY <1>3, <1>5, <2>3 DEF MemberOf
  <2> QED
    BY <1>2, <2>1, <2>2, <2>3 DEF Places
<1> QED
  BY <1>1, <1>3, <1>5, <1>6

\* Only its own steps change a request.
LEMMA OwnStep ==
  ASSUME IInv, NEW r \in Requests, NEW s \in Requests, s # r, MemberStep(s) \/ InviteStep(s)
  PROVE  req'[r] = req[r]
<1>1. req \in [Requests -> RequestType]
  BY DEF IInv, Typed
<1>2. CASE Asks(s)
  BY ZenonT(120), <1>1, <1>2 DEF Asks, AskOrgAdd, AskOrgUpdate, AskOrgRemove, AskTransfer,
     AskWsAdd, AskWsUpdate, AskWsRemove,
     AskPrjAdd, AskPrjUpdate, AskPrjRemove, Begin
<1>3. CASE InsertOrg(s) \/ UpdateOrg(s) \/ Transfer(s) \/ WritePrj(s)
  BY <1>1, <1>3 DEF InsertOrg, UpdateOrg, Transfer, WritePrj, Fail, Finish
<1>4. CASE RemoveOrg(s) \/ RemoveWs(s) \/ RemovePrj(s)
  BY <1>1, <1>4 DEF RemoveOrg, RemoveWs, RemovePrj, Fail, Finish
<1>5. ASSUME NEW w, NEW stage, NEW ok, Proceed(s, w, stage, ok) PROVE req'[r] = req[r]
  BY <1>1, <1>5 DEF Proceed
<1>6. CASE \E w \in Workspaces : AtWorkspace(s, w)
  BY <1>5, <1>6 DEF AtWorkspace, CheckWsCreate, InsertWs, InsertProjects, FindWs, UpdateWs, Done
<1>7. CASE AskAccept(s) \/ AskExpired(s) \/ AskInvite(s) \/ AskDirect(s)
           \/ AskDecline(s) \/ AskResend(s) \/ AskDelete(s)
  BY ZenonT(120), <1>1, <1>7 DEF AskAccept, AskExpired, AskInvite, AskDirect, AskDecline,
     AskResend, AskDelete, Start, Begin
<1>8. CASE AcceptOrg(s) \/ AcceptWs(s) \/ FindRelated(s) \/ NextRelated(s) \/ AcceptProject(s) \/ DirectWs(s)
  BY <1>1, <1>8 DEF AcceptOrg, AcceptWs, FindRelated, NextRelated, AcceptProject, DirectWs, Next3
<1>9. CASE InsertProject(s) \/ DirectProjects(s) \/ InsertInvite(s)
  BY <1>1, <1>9 DEF InsertProject, DirectProjects, InsertInvite, FailInvite, Fail, Finish
<1>10. CASE MarkRelated(s) \/ Settle(s) \/ Resend(s) \/ Delete(s)
  <2>1. ASSUME NEW i, NEW row, NEW step, WriteInvite(s, i, row, step) PROVE req'[r] = req[r]
    BY <1>1, <2>1 DEF WriteInvite
  <2>2. ASSUME NEW i, NEW status, NEW step, SetStatus(s, i, status, step) PROVE req'[r] = req[r]
    BY <1>1, <2>1, <2>2 DEF SetStatus, FailInvite, Fail, Finish
  <2> QED
    BY <1>1, <1>10, <2>1, <2>2 DEF MarkRelated, Settle, Resend, Delete, FailInvite, Fail, Finish
<1> QED
  BY <1>2, <1>3, <1>4, <1>6, <1>7, <1>8, <1>9, <1>10 DEF MemberStep, Step, InviteStep, Asks

\* An acceptance with nothing in its way: it is at a step, and nobody wrote the
\* members or the invitations since it began.
Unhindered(r, q, k, g, o, h) ==
  /\ q = req[r] /\ k = work[r] /\ g = gone[r] /\ o = over[r] /\ h = held[r]
  /\ q.op = "accept" /\ q.step # "idle" /\ o = {} /\ g = {} /\ ~h.late /\ ~h.stray
  /\ Shape(q, k, h) /\ Chain(q, k, g, h) /\ Clear(q, k, h) /\ Known(q, h)

\* None of its steps ends it without an answer.
LEMMA GoesOn ==
  ASSUME IInv, NEW r \in Requests, NEW q, NEW k, NEW g, NEW o, NEW h,
         Unhindered(r, q, k, g, o, h), MemberStep(r) \/ InviteStep(r), req'[r].step = "idle"
  PROVE  inv'[h.inv].status = "ACCEPTED"
<1> USE DEF Unhindered
<1>1. /\ req \in [Requests -> RequestType] /\ Takes(q.op, q.step) /\ q \in RequestType
      /\ inv \in [Invites -> InviteType] /\ h.inv \in Invites
  BY Acting DEF IInv, Typed, Shape, Chain
<1>2. ~Asks(r)
  BY ZenonT(40) DEF Asks, AskOrgAdd, AskOrgUpdate, AskOrgRemove, AskTransfer, AskWsAdd,
     AskWsUpdate, AskWsRemove,
     AskPrjAdd, AskPrjUpdate, AskPrjRemove, Begin
<1>3. ~(AskAccept(r) \/ AskExpired(r) \/ AskInvite(r) \/ AskDirect(r) \/ AskDecline(r) \/ AskResend(r) \/ AskDelete(r))
  BY ZenonT(40) DEF AskAccept, AskExpired, AskInvite, AskDirect, AskDecline, AskResend,
     AskDelete, Start, Begin
<1>4. ~(UpdateOrg(r) \/ Transfer(r) \/ WritePrj(r) \/ RemoveOrg(r) \/ RemoveWs(r) \/ RemovePrj(r))
  BY OpsApart DEF UpdateOrg, Transfer, WritePrj, RemoveOrg, RemoveWs, RemovePrj, OrgOps, WsOps,
     PrjOps
<1>5. ~(InsertInvite(r) \/ DirectWs(r) \/ DirectProjects(r) \/ Resend(r) \/ Delete(r))
  BY <1>1 DEF InsertInvite, DirectWs, DirectProjects, Resend, Delete, Takes
<1>6. CASE InsertOrg(r)
  <2>1. q.step = "write" /\ org[q.user] = "NONE" /\ q.then \in {"settle", "acceptWs"}
    BY <1>6 DEF InsertOrg, Clear, Chain
  <2>2. req' = [req EXCEPT ![r].step = "spread"] \/ req' = [req EXCEPT ![r].step = req[r].then]
    BY <1>6, <2>1 DEF InsertOrg
  <2> QED
    BY <1>1, <2>1, <2>2 DEF RequestType
<1>7. ASSUME NEW w \in Workspaces, AtWorkspace(r, w) PROVE FALSE
  <2>1. k[w] # "none"
    BY <1>7 DEF AtWorkspace, CheckWsCreate, InsertWs, InsertProjects, FindWs, UpdateWs
  <2>2. /\ q.step = "spread" /\ k[w] \in {"check", "insert", "projects"} /\ q.ok
        /\ q.actor = NoActor /\ org[q.user] # "NONE" /\ q.then \in {"settle", "related", "project"}
        /\ k[w] = "insert" => ws[q.user][w] = "NONE"
    BY <2>1 DEF Shape, Chain, Clear, Seen
  <2>3. ASSUME NEW stage, Proceed(r, w, stage, TRUE) PROVE FALSE
    <3>1. \/ req' = [req EXCEPT ![r].step = req[r].then]
          \/ req' = [req EXCEPT ![r].ok = req[r].ok /\ TRUE]
      BY <2>2, <2>3 DEF Proceed
    <3> QED
      BY <1>1, <2>2, <3>1 DEF RequestType
  <2>4. ~CheckWsCreate(r, w)
    BY <2>2, <2>3 DEF CheckWsCreate, MayManage
  <2>5. ~InsertWs(r, w)
    BY <2>2, <2>3 DEF InsertWs
  <2>6. ~InsertProjects(r, w)
    BY <2>3 DEF InsertProjects
  <2>7. ~FindWs(r, w) /\ ~UpdateWs(r, w)
    BY <2>2 DEF FindWs, UpdateWs
  <2> QED
    BY <1>7, <2>4, <2>5, <2>6, <2>7 DEF AtWorkspace
<1>8. CASE AcceptOrg(r) \/ AcceptWs(r) \/ FindRelated(r) \/ NextRelated(r) \/ AcceptProject(r)
  <2>1. ASSUME NEW step, NEW role, NEW then, step # "idle", Next3(r, step, role, then) PROVE FALSE
    BY <1>1, <2>1 DEF Next3, RequestType
  <2> QED
    BY <1>8, <2>1 DEF AcceptOrg, AcceptWs, FindRelated, NextRelated, AcceptProject, AfterOrg
<1>9. CASE InsertProject(r)
  <2>1. /\ q.step = "insert" /\ q.then \in {"mark", "settle"} /\ h.cur # NoInvite
        /\ prj[q.user][inv[h.cur].at] = "NONE"
    BY <1>9, NoInviteAssumption DEF InsertProject, Clear, Chain
  <2>2. req' = [req EXCEPT ![r].step = req[r].then]
    BY <1>9, <2>1 DEF InsertProject
  <2> QED
    BY <1>1, <2>1, <2>2 DEF RequestType
<1>10. CASE MarkRelated(r)
  <2>1. PICK step, row : /\ step = (IF h.todo = {} THEN "settle" ELSE "nextRelated")
                         /\ row = [inv[h.cur] EXCEPT !.status = "ACCEPTED"]
    OBVIOUS
  <2>2. q.step = "mark" /\ Stored(h.cur)
    BY <1>10 DEF MarkRelated, Known, Waiting, Stored
  <2>3. WriteInvite(r, h.cur, row, step)
    BY <1>10, <2>1, <2>2 DEF MarkRelated, SetStatus
  <2>4. req' = [req EXCEPT ![r].step = step] /\ step # "idle"
    BY <2>1, <2>3 DEF WriteInvite
  <2> QED
    BY <1>1, <2>4 DEF RequestType
<1>11. CASE Settle(r)
  <2>1. PICK status, row : /\ status = (CASE q.op = "accept" -> "ACCEPTED"
                                          [] q.op = "expire" -> "EXPIRED" [] OTHER -> "DECLINED")
                           /\ row = [inv[h.inv] EXCEPT !.status = status]
    OBVIOUS
  <2>2. Stored(h.inv) /\ status = "ACCEPTED"
    BY <2>1 DEF Known, Stored
  <2>3. WriteInvite(r, h.inv, row, "idle")
    BY <1>11, <2>1, <2>2 DEF Settle, SetStatus
  <2>4. inv' = [inv EXCEPT ![h.inv] = row]
    BY <2>3 DEF WriteInvite
  <2> QED
    BY <1>1, <2>1, <2>2, <2>4 DEF InviteType
<1> QED
  BY <1>2, <1>3, <1>4, <1>5, <1>6, <1>7, <1>8, <1>9, <1>10, <1>11
     DEF MemberStep, Step, InviteStep, Asks

LEMMA GoesThroughStep ==
  ASSUME IInv, InvNext, NEW r \in Requests, req[r].op = "accept", req[r].step # "idle",
         req'[r].step = "idle", over[r] = {}, ~held[r].late, ~held[r].stray
  PROVE  inv'[held[r].inv].status = "ACCEPTED"
<1>1. PICK s \in Requests : MemberStep(s) \/ InviteStep(s)
  BY DEF InvNext, Expire, memberVars
<1>2. s = r
  BY <1>1, OwnStep
<1>3. PICK q, k, g, o, h :
        q = req[r] /\ k = work[r] /\ g = gone[r] /\ o = over[r] /\ h = held[r]
  OBVIOUS
<1>4. Unhindered(r, q, k, g, o, h)
  BY <1>3, Acting DEF Unhindered, RequestOK
<1> QED
  BY <1>1, <1>2, <1>3, <1>4, GoesOn

\* Accepting an invitation goes all the way and leads where it says: once its
\* status is about to be written, the invitee is in the organization, and in the
\* place invited to and the workspace around it, unless a row of theirs was
\* deleted on the way; and one that nobody interrupts does end as accepted.
THEOREM AcceptanceIsComplete == InvSpec => AcceptanceComplete
<1>1. IInv /\ [InvNext]_vars =>
        [ \A r \in Requests :
            /\ req[r].op = "accept" /\ req[r].step = "settle" /\ gone[r] = {}
            /\ Stored(held[r].inv)
            => LET u == req[r].user IN
                 /\ org[u] # "NONE" /\ MemberOf(u, req[r].at)
                 /\ req[r].at \in Projects => ws[u][WorkspaceOf[req[r].at]] # "NONE" ]_vars
  BY Belongs
<1>2. IInv /\ [InvNext]_vars =>
        [ \A r \in Requests :
            /\ req[r].op = "accept" /\ req[r].step # "idle" /\ req'[r].step = "idle"
            /\ over[r] = {} /\ ~held[r].late /\ ~held[r].stray
            => inv'[held[r].inv].status = "ACCEPTED" ]_vars
  BY GoesThroughStep
<1>3. InvSpec => AcceptedBelongs
  BY <1>1, AlwaysIInv, PTL DEF InvSpec, AcceptedBelongs
<1>4. InvSpec => AcceptGoesThrough
  BY <1>2, AlwaysIInv, PTL DEF InvSpec, AcceptGoesThrough
<1> QED
  BY <1>3, <1>4 DEF AcceptanceComplete
=============================================================================
