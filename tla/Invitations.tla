---------------------------- MODULE Invitations ----------------------------
(***************************************************************************)
(* InvitationsService on top of the memberships.  Accepting an invitation  *)
(* is a chain of calls and queries outside any transaction: the            *)
(* organization's member service (which, for a manager, goes on to every   *)
(* workspace), the workspace's, the project rows, the invitations to       *)
(* projects that came with one to a workspace, and last the status, by id  *)
(* and whatever it is by then.  A chain that fails half way keeps the      *)
(* memberships it made and leaves the invitation pending.                  *)
(*                                                                         *)
(* A link carries the invitation's current token: one from before a resend *)
(* finds nothing, so presenting it is not a step.                          *)
(***************************************************************************)
EXTENDS Memberships

CONSTANT Invites      \* the invitations a behaviour can create
CONSTANT NoInvite     \* no invitation

ASSUME NoInviteAssumption == NoInvite \notin Invites
ASSUME KindsAssumption == Workspaces \intersect Projects = {}

VARIABLES
  inv,      \* the invitations table
  held      \* per request: the invitation, role and list it works on

vars == <<memberVars, inv, held>>
inviteVars == <<inv, held>>

Statuses == {"none", "PENDING", "ACCEPTED", "DECLINED", "EXPIRED", "deleted"}
Stored(i) == inv[i].status \notin {"none", "deleted"}
InviteOps == {"accept", "expire", "decline", "invite", "direct", "resend", "delete"}
NoRow == [status |-> "none", invitee |-> Founder, at |-> "org", role |-> "MEMBER", live |-> FALSE]
\* History: another request wrote an invitation since this one began (late), and
\* the invitee was inside the organization without being its member (stray).
Nothing == [inv |-> NoInvite, cur |-> NoInvite, todo |-> {}, role |-> "MEMBER",
            late |-> FALSE, stray |-> FALSE]

InvInit ==
  /\ Init
  /\ inv = [i \in Invites |-> NoRow]
  /\ held = [r \in Requests |-> Nothing]

-----------------------------------------------------------------------------
Start(r, op, actor, u, role, at, step, h) ==
  /\ Begin(r, op, actor, {u}, u, role, at, step)
  /\ held' = [held EXCEPT ![r] = h]
  /\ UNCHANGED <<work, inv>>

\* Request r goes on with a step, for a role, and then with another.
Next3(r, step, role, then) ==
  req' = [req EXCEPT ![r].step = step, ![r].role = role, ![r].then = then]

Keep == UNCHANGED <<members, work, gone, over, inv, held>>

\* Request r writes invitation i, and goes on with step (or is answered).
WriteInvite(r, i, row, step) ==
  /\ inv' = [inv EXCEPT ![i] = row]
  /\ req' = IF step = "idle" THEN [req EXCEPT ![r] = Idle] ELSE [req EXCEPT ![r].step = step]
  /\ held' = [q \in Requests |->
                IF ~Active(q) THEN Nothing
                ELSE [held[q] EXCEPT !.late = @ \/ q # r]]
  /\ gone' = [gone EXCEPT ![r] = IF step = "idle" THEN {} ELSE @]
  /\ over' = [over EXCEPT ![r] = IF step = "idle" THEN {} ELSE @]
  /\ UNCHANGED <<members, work>>

FailInvite(r) == Fail(r) /\ held' = [held EXCEPT ![r] = Nothing] /\ UNCHANGED inv

\* Writing the status of a row that was deleted fails.
SetStatus(r, i, status, step) ==
  \/ ~Stored(i) /\ FailInvite(r)
  \/ Stored(i) /\ WriteInvite(r, i, [inv[i] EXCEPT !.status = status], step)

-----------------------------------------------------------------------------
\* acceptInvitation

AskAccept(r) ==
  \E i \in Invites :
    /\ inv[i].status = "PENDING" /\ inv[i].live
    /\ Start(r, "accept", NoActor, inv[i].invitee, inv[i].role, inv[i].at, "acceptOrg",
             [Nothing EXCEPT !.inv = i,
                             !.stray = Inside(inv[i].invitee) /\ org[inv[i].invitee] = "NONE"])

AskExpired(r) ==
  \E i \in Invites :
    /\ inv[i].status = "PENDING" /\ ~inv[i].live
    /\ Start(r, "expire", NoActor, inv[i].invitee, inv[i].role, inv[i].at, "settle",
             [Nothing EXCEPT !.inv = i])

\* What follows once the organization has the invitee as a member.
AfterOrg(r) == IF req[r].at = "org" THEN "settle" ELSE "acceptWs"

SkipOrg(r) ==                                                           \* mutant
  /\ req[r].step = "acceptOrg"
  /\ Next3(r, AfterOrg(r), req[r].role, "idle")
  /\ Keep

AcceptOrg(r) ==
  /\ req[r].step = "acceptOrg"
  /\ LET role == IF req[r].at = "org" THEN inv[held[r].inv].role ELSE "MEMBER" IN
       IF org[req[r].user] = "NONE" THEN Next3(r, "write", role, AfterOrg(r))
                                    ELSE Next3(r, AfterOrg(r), req[r].role, "idle")
  /\ Keep

AcceptWs(r) ==
  /\ req[r].step = "acceptWs"
  /\ LET w == IF req[r].at \in Workspaces THEN req[r].at ELSE WorkspaceOf[req[r].at]
         role == IF req[r].at \in Workspaces THEN inv[held[r].inv].role ELSE "MEMBER"
         after == IF req[r].at \in Workspaces THEN "related" ELSE "project"
     IN IF ws[req[r].user][w] = "NONE"
          THEN /\ Next3(r, "spread", role, after)
               /\ work' = [work EXCEPT ![r][w] = "check"]
               /\ UNCHANGED <<members, gone, over, inv, held>>
          ELSE Next3(r, after, role, "idle") /\ Keep

\* The pending invitations of the same person to the workspace's projects.
FindRelated(r) ==
  /\ req[r].step = "related"
  /\ LET found == {i \in Invites : /\ inv[i].status = "PENDING"
                                   /\ inv[i].invitee = req[r].user
                                   /\ inv[i].at \in ProjectsOf(req[r].at)}
     IN /\ held' = [held EXCEPT ![r].todo = found]
        /\ Next3(r, IF found = {} THEN "settle" ELSE "nextRelated", req[r].role, "idle")
  /\ UNCHANGED <<members, work, gone, over, inv>>

NextRelated(r) ==
  /\ req[r].step = "nextRelated"
  /\ \E i \in held[r].todo :
       /\ held' = [held EXCEPT ![r].cur = i, ![r].todo = @ \ {i}]
       /\ Next3(r, IF prj[req[r].user][inv[i].at] = "NONE" THEN "insert" ELSE "mark",
                req[r].role, "mark")
  /\ UNCHANGED <<members, work, gone, over, inv>>

AcceptProject(r) ==
  /\ req[r].step = "project"
  /\ held' = [held EXCEPT ![r].cur = held[r].inv]
  /\ Next3(r, IF prj[req[r].user][req[r].at] = "NONE" THEN "insert" ELSE "settle",
           req[r].role, "settle")
  /\ UNCHANGED <<members, work, gone, over, inv>>

\* projectMember.create for the invitation in hand, or the direct addition,
\* which ends with it.
InsertProject(r) ==
  /\ req[r].step = "insert"
  /\ LET u == req[r].user
         i == held[r].cur
         p == IF i = NoInvite THEN req[r].at ELSE inv[i].at
     IN \/ p \in Projects /\ prj[u][p] # "NONE" /\ FailInvite(r)
        \/ /\ p \in Projects /\ prj[u][p] = "NONE"
           /\ prj' = [prj EXCEPT ![u][p] = IF i = NoInvite THEN held[r].role ELSE inv[i].role]
           /\ req' = IF i = NoInvite THEN [req EXCEPT ![r] = Idle]
                     ELSE [req EXCEPT ![r].step = req[r].then]
           /\ Wrote(r, "member", {})
           /\ held' = [held EXCEPT ![r] = IF Active(r) THEN @ ELSE Nothing]
           /\ UNCHANGED <<owner, org, ws, work, inv>>

MarkRelated(r) ==
  /\ req[r].step = "mark"
  /\ SetStatus(r, held[r].cur, "ACCEPTED",
               IF held[r].todo = {} THEN "settle" ELSE "nextRelated")

\* The status of the invitation itself: accepted, expired or declined.
Settle(r) ==
  /\ req[r].step = "settle"
  /\ SetStatus(r, held[r].inv, CASE req[r].op = "accept" -> "ACCEPTED"
                                 [] req[r].op = "expire" -> "EXPIRED"
                                 [] OTHER -> "DECLINED", "idle")

-----------------------------------------------------------------------------
\* createInvitation

\* resolveInviterAuthority: the elevated roles of a on the target and above it.
Authority(a, at) ==
  LET ofOrg == {IF a = owner THEN "OWNER" ELSE org[a]}
      ofWs(w) == {ws[a][w]}
  IN High \intersect (ofOrg \union
       IF at \in Workspaces THEN ofWs(at)
       ELSE IF at \in Projects THEN ofWs(WorkspaceOf[at]) \union {prj[a][at]} ELSE {})

MayInvite(a, at, role) ==
  a \in SuperAdmins \/ Authority(a, at) \intersect AtLeast(role) # {}

MemberOf(u, at) ==
  CASE at = "org" -> org[u] # "NONE"
    [] at \in Workspaces -> ws[u][at] # "NONE"
    [] OTHER -> prj[u][at] # "NONE"

PendingFor(u, at) == {i \in Invites : inv[i].status = "PENDING" /\ inv[i].invitee = u
                                        /\ inv[i].at = at}

AskInviteAgain(r) ==                                                    \* mutant
  \E a, u \in Users, at \in Places, role \in Assignable(r) :
    /\ MayInvite(a, at, role) /\ ~MemberOf(u, at)
    /\ at = "org" \/ org[u] = "NONE"
    /\ Start(r, "invite", a, u, role, at, "invite", Nothing)

\* Nobody is invited twice to one place while the first is pending; projects
\* can be named along with a workspace.
AskInvite(r) ==
  \E a, u \in Users, at \in Places, role \in Assignable(r), also \in SUBSET Projects :
    /\ MayInvite(a, at, role) /\ ~MemberOf(u, at)
    /\ also \subseteq ProjectsOf(at)
    /\ at = "org" \/ org[u] = "NONE"
    /\ PendingFor(u, at) = {}
    /\ Start(r, "invite", a, u, role, at, "invite", [Nothing EXCEPT !.todo = also])

\* The row, then one for each project named.
InsertInvite(r) ==
  /\ req[r].step \in {"invite", "inviteMore"}
  /\ \E i \in Invites, at \in IF req[r].step = "invite" THEN {req[r].at} ELSE held[r].todo :
       /\ inv[i].status = "none"
       /\ LET left == held[r].todo \ {at} IN
            /\ inv' = [inv EXCEPT ![i] = [status |-> "PENDING", invitee |-> req[r].user,
                                          at |-> at, role |-> req[r].role, live |-> TRUE]]
            /\ req' = IF left = {} THEN [req EXCEPT ![r] = Idle]
                      ELSE [req EXCEPT ![r].step = "inviteMore"]
            /\ held' = [q \in Requests |->
                          IF ~Active(q) THEN Nothing
                          ELSE IF q = r THEN [held[q] EXCEPT !.todo = left]
                          ELSE [held[q] EXCEPT !.late = TRUE]]
            /\ gone' = [gone EXCEPT ![r] = IF left = {} THEN {} ELSE @]
            /\ over' = [over EXCEPT ![r] = IF left = {} THEN {} ELSE @]
  /\ UNCHANGED <<members, work>>

\* A member of the organization is added without an invitation.
AskDirect(r) ==
  \E a, u \in Users, at \in Places \ {"org"}, role \in Assignable(r), also \in SUBSET Projects :
    /\ MayInvite(a, at, role) /\ ~MemberOf(u, at)
    /\ also \subseteq ProjectsOf(at)
    /\ org[u] # "NONE"
    /\ Start(r, "direct", NoActor, u, role, at, "direct",
             [Nothing EXCEPT !.todo = also, !.role = role])

\* The workspace row, by the member service and outside the transaction.
DirectWs(r) ==
  /\ req[r].step = "direct"
  /\ LET w == IF req[r].at \in Workspaces THEN req[r].at ELSE WorkspaceOf[req[r].at]
         after == IF req[r].at \in Workspaces THEN "directMany" ELSE "insert"
     IN IF req[r].at \in Workspaces \/ ws[req[r].user][w] = "NONE"
          THEN /\ Next3(r, "spread", IF req[r].at \in Workspaces THEN req[r].role ELSE "MEMBER",
                        after)
               /\ work' = [work EXCEPT ![r][w] = "check"]
               /\ UNCHANGED <<members, gone, over, inv, held>>
          ELSE Next3(r, after, req[r].role, "idle") /\ Keep

DirectProjects(r) ==
  /\ req[r].step = "directMany"
  /\ prj' = [prj EXCEPT ![req[r].user] = [p \in Projects |->
               IF p \in held[r].todo /\ @[p] = "NONE" THEN req[r].role ELSE @[p]]]
  /\ Finish(r)
  /\ Wrote(r, "member", {})
  /\ held' = [held EXCEPT ![r] = Nothing]
  /\ UNCHANGED <<owner, org, ws, work, inv>>

-----------------------------------------------------------------------------
\* declineInvitation, resendInvitation, deleteInvitation, and time

AskDecline(r) ==
  \E i \in Invites :
    /\ inv[i].status = "PENDING"
    /\ Start(r, "decline", NoActor, inv[i].invitee, inv[i].role, inv[i].at, "settle",
             [Nothing EXCEPT !.inv = i])

AskAnyResend(r) ==                                                      \* mutant
  \E i \in Invites :
    /\ Stored(i)
    /\ Start(r, "resend", NoActor, inv[i].invitee, inv[i].role, inv[i].at, "resend",
             [Nothing EXCEPT !.inv = i])

\* Only a declined invitation is refused.
AskResend(r) ==
  \E i \in Invites :
    /\ Stored(i) /\ inv[i].status # "DECLINED"
    /\ Start(r, "resend", NoActor, inv[i].invitee, inv[i].role, inv[i].at, "resend",
             [Nothing EXCEPT !.inv = i])

Resend(r) ==
  /\ req[r].step = "resend"
  /\ LET i == held[r].inv IN
       \/ ~Stored(i) /\ FailInvite(r)
       \/ /\ Stored(i)
          /\ WriteInvite(r, i, [inv[i] EXCEPT !.status = "PENDING", !.live = TRUE], "idle")

AskDelete(r) ==
  \E i \in Invites :
    /\ Stored(i)
    /\ Start(r, "delete", NoActor, inv[i].invitee, inv[i].role, inv[i].at, "delete",
             [Nothing EXCEPT !.inv = i])

Delete(r) ==
  /\ req[r].step = "delete"
  /\ LET i == held[r].inv IN
       \/ ~Stored(i) /\ FailInvite(r)
       \/ Stored(i) /\ WriteInvite(r, i, [inv[i] EXCEPT !.status = "deleted"], "idle")

\* Seven days pass.
Expire(i) ==
  /\ inv[i].live
  /\ inv' = [inv EXCEPT ![i].live = FALSE]
  /\ UNCHANGED <<memberVars, held>>

-----------------------------------------------------------------------------
\* A step of the memberships; a request that ends puts its invitation down.
MemberStep(r) ==
  /\ Step(r)
  /\ held' = [held EXCEPT ![r] = IF Active(r) THEN @ ELSE Nothing]
  /\ UNCHANGED inv

InviteStep(r) ==
  \/ AskAccept(r) \/ AskExpired(r) \/ AcceptOrg(r) \/ AcceptWs(r)
  \/ FindRelated(r) \/ NextRelated(r) \/ AcceptProject(r) \/ InsertProject(r)
  \/ MarkRelated(r) \/ Settle(r)
  \/ AskInvite(r) \/ InsertInvite(r) \/ AskDirect(r) \/ DirectWs(r) \/ DirectProjects(r)
  \/ AskDecline(r) \/ AskResend(r) \/ Resend(r) \/ AskDelete(r) \/ Delete(r)

InvNext ==
  /\ \/ \E r \in Requests : MemberStep(r) \/ InviteStep(r)
     \/ \E i \in Invites : Expire(i)
  /\ UNCHANGED asked

InvSpec == InvInit /\ [][InvNext]_vars

-----------------------------------------------------------------------------
\* Accepting ends with the invitee where the invitation leads and in everything
\* around it, unless a row of theirs was deleted on the way.
AcceptedBelongs ==
  [][ \A r \in Requests :
        /\ req[r].op = "accept" /\ req[r].step = "settle" /\ gone[r] = {}
        /\ Stored(held[r].inv)
        => LET u == req[r].user IN
             /\ org[u] # "NONE" /\ MemberOf(u, req[r].at)
             /\ req[r].at \in Projects => ws[u][WorkspaceOf[req[r].at]] # "NONE" ]_vars

\* An acceptance that nobody interrupts goes through to the end: none of its
\* inserts meets a row that an earlier one of them made.  (A manager who was
\* inside without being a member is refused by the workspace they are in.)
AcceptGoesThrough ==
  [][ \A r \in Requests :
        /\ req[r].op = "accept" /\ req[r].step # "idle" /\ req'[r].step = "idle"
        /\ over[r] = {} /\ ~held[r].late /\ ~held[r].stray
        => inv'[held[r].inv].status = "ACCEPTED" ]_vars

\* A declined invitation stays declined: it is accepted, or pending again, only
\* by a request that had read it before it was declined.
DeclinedStays ==
  [][ \A i \in Invites :
        inv[i].status = "DECLINED" /\ inv'[i].status \notin {"DECLINED", "deleted"}
        => \E r \in Requests :
             i \in {held[r].inv, held[r].cur} /\ held[r].late /\ req'[r] # req[r] ]_vars

\* createInvitation never leaves one person with two pending invitations to the
\* place it was asked for, unless another wrote the table since it looked.
NoSecondInvite ==
  [][ \A r \in Requests, i \in Invites :
        /\ req[r].step = "invite" /\ inv[i].status = "none" /\ inv'[i].status = "PENDING"
        /\ PendingFor(req[r].user, req[r].at) # {}
        => held[r].late ]_vars

\* An acceptance goes all the way, and leads where the invitation says.
AcceptanceComplete == AcceptedBelongs /\ AcceptGoesThrough
=============================================================================
