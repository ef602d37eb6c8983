------------------------------- MODULE Spaces -------------------------------
(***************************************************************************)
(* OrganizationsService, WorkspacesService and ProjectsService: the tree   *)
(* of an organization's workspaces, the projects in them, their slugs and  *)
(* what archiving does to them.  A workspace keeps its parent and, beside  *)
(* it, a path: the ids from the root down to itself, as they were when it  *)
(* was written.  Access checks and members are left to Memberships.        *)
(*                                                                         *)
(* A slug is a sequence: the name's own slug, then the numbers appended to *)
(* make it unique; a name can be such a slug itself ("app-1").             *)
(***************************************************************************)
EXTENDS Handlers, SequencesExt

CONSTANTS
  Orgs, Spaces, \* organizations and workspaces a behaviour can have
  NoSpace,      \* the parent of a workspace at the top
  Home, Root,   \* the organization there is at first, and its workspace
  Bases,        \* the slugs names turn into
  MaxDepth,     \* bound on the paths there are when a move begins
  MaxRetries    \* tries to create a project under a slug of its own

ASSUME SpacesAssumption ==
  /\ Home \in Orgs /\ Root \in Spaces /\ NoSpace \notin Spaces
  /\ MaxRetries \in Nat \ {0} /\ MaxDepth \in Nat /\ Bases # {}
  /\ \A b \in Bases : /\ b # <<>> /\ b \in Seq({b[1]} \union Nat)
                     /\ \A i \in 2 .. Len(b) : b[i] \in Nat

VARIABLES
  org,     \* the organizations table
  space,   \* the workspaces table
  proj     \* the projects table

spaceVars == <<org, space, proj>>
TreeOps == {"createSpace", "moveSpace", "removeSpace", "removeOrg"}
ArchiveOps == {"archiveSpace", "unarchiveSpace", "archiveProject", "unarchiveProject", "updateProject"}
NameOps == {"createOrg", "updateSpace", "createProject", "removeProject"}
SpaceOps == TreeOps \union ArchiveOps \union NameOps \union {"archiveOrg"}

\* The ids there are for new rows, and one of them.
Fresh(t, ids) == {x \in ids : t[x].state = "none"}
AnyOf(ids) == CHOOSE x \in ids : TRUE

Row(t, x) == t[x].state \in {"live", "archived"}
OrgRows == {o \in Orgs : Row(org, o)}
SpaceRows == {w \in Spaces : Row(space, w)}
ProjectRows == {p \in Projects : Row(proj, p)}
Inside(o) == {w \in SpaceRows : space[w].org = o}
Held(W) == {p \in ProjectRows : proj[p].ws \in W}

FirstBase == CHOOSE b \in Bases : TRUE
NoOrg == [state |-> "none", slug |-> <<>>]
NewSpace(o, parent, path, slug) ==
  [state |-> "live", org |-> o, parent |-> parent, path |-> path, slug |-> slug]
NoRow == [NewSpace(Home, NoSpace, <<>>, <<>>) EXCEPT !.state = "none"]
NewProject(w, slug) == [state |-> "live", ws |-> w, slug |-> slug]

\* Onboarding creates the first workspace with no path.
SpacesInit ==
  /\ org = [o \in Orgs |-> IF o = Home THEN [state |-> "live", slug |-> FirstBase] ELSE NoOrg]
  /\ space = [w \in Spaces |-> IF w = Root THEN NewSpace(Home, NoSpace, <<>>, FirstBase) ELSE NoRow]
  /\ proj = [p \in Projects |-> [NewProject(Root, <<>>) EXCEPT !.state = "none"]]

-----------------------------------------------------------------------------
\* Slugs

OrgSlugs == {org[o].slug : o \in OrgRows}
SpaceSlugs(o) == {space[w].slug : w \in Inside(o)}
ProjectSlugs == {proj[p].slug : p \in ProjectRows}

\* generateUniqueSlug: the name's slug, or the first number that makes it free.
FirstFree(base, taken) ==
  IF base \notin taken THEN base
  ELSE Append(base, CHOOSE n \in 1..(Cardinality(taken) + 1) :
                      /\ Append(base, n) \notin taken
                      /\ \A m \in 1..(n - 1) : Append(base, m) \in taken)

\* A project's slug takes a number after all those in use, when any slug begins
\* with the name's.
NumbersAfter(base) == {s[Len(s)] : s \in {s \in ProjectSlugs : Len(s) = Len(base) + 1 /\ IsPrefix(base, s)}}

NumberCounted(base) ==                                                   \* mutant
  IF \E s \in ProjectSlugs : IsPrefix(base, s)
    THEN Append(base, Cardinality({s \in ProjectSlugs : IsPrefix(base, s)})) ELSE base

NumberAfter(base) ==
  IF \E s \in ProjectSlugs : IsPrefix(base, s)
    THEN Append(base, 1 + CHOOSE n \in NumbersAfter(base) \union {0} :
                            \A m \in NumbersAfter(base) : m <= n)
    ELSE base

-----------------------------------------------------------------------------
\* OrganizationsService: create (with its first workspace and project, in one
\* transaction), archiveOrganization, remove.  The slug of the first project is
\* looked for in its own workspace only: taken elsewhere, all is rolled back.

AskCreateOrg(r) ==
  \E b, c \in Bases :
    /\ Ask(r, "createOrg", "insert", [name |-> c, slug |-> FirstFree(b, OrgSlugs)])
    /\ UNCHANGED spaceVars

CreateOrg(r) ==
  /\ At(r, "createOrg", "insert")
  /\ Fresh(org, Orgs) # {} /\ Fresh(space, Spaces) # {} /\ Fresh(proj, Projects) # {}
  /\ LET h == req[r].with
         o == AnyOf(Fresh(org, Orgs))
         w == AnyOf(Fresh(space, Spaces))
     IN IF h.slug \notin OrgSlugs /\ h.name \notin ProjectSlugs
          THEN /\ org' = [org EXCEPT ![o] = [state |-> "live", slug |-> h.slug]]
               /\ space' = [space EXCEPT ![w] = NewSpace(o, NoSpace, <<>>, h.name)]
               /\ proj' = [proj EXCEPT ![AnyOf(Fresh(proj, Projects))] = NewProject(w, h.name)]
               /\ Commit(r)
          ELSE Answer(r) /\ UNCHANGED spaceVars

ArchiveOrg(r) ==
  \E o \in Orgs :
    /\ org[o].state = "live" /\ Once(r, "archiveOrg")
    /\ org' = [org EXCEPT ![o].state = "archived"]
    /\ UNCHANGED <<space, proj>>

\* What goes with workspaces W: their projects, and their children's parent.
Without(W) ==
  /\ space' = [w \in Spaces |->
                 IF w \in W THEN [NoRow EXCEPT !.state = "gone"]
                 ELSE IF space[w].parent \in W THEN [space[w] EXCEPT !.parent = NoSpace]
                 ELSE space[w]]
  /\ proj' = [p \in Projects |-> IF p \in Held(W) THEN [proj[p] EXCEPT !.state = "gone"] ELSE proj[p]]

RemoveOrg(r) ==
  \E o \in OrgRows :
    /\ Once(r, "removeOrg")
    /\ org' = [org EXCEPT ![o] = [NoOrg EXCEPT !.state = "gone"]]
    /\ Without(Inside(o))

-----------------------------------------------------------------------------
\* WorkspacesService

\* path, or the id of a workspace that has none
PathOf(w) == IF space[w].path = <<>> THEN <<w>> ELSE space[w].path
PathTo(parent) == IF parent = NoSpace THEN <<>> ELSE PathOf(parent)

\* create: the parent, in the same organization, and the slug are read before
\* the transaction.
Adopts(o, parent) ==
  \/ parent = NoSpace
  \/ parent \in Inside(o) /\ space[parent].state = "live"

AskCreateSpace(r) ==
  \E o \in Orgs, parent \in Spaces \union {NoSpace}, b \in Bases :
    /\ org[o].state = "live" /\ Adopts(o, parent)
    /\ Ask(r, "createSpace", "insert",
           NewSpace(o, parent, PathTo(parent), FirstFree(b, SpaceSlugs(o))))
    /\ UNCHANGED spaceVars

CreateSpace(r) ==
  /\ At(r, "createSpace", "insert")
  /\ Fresh(space, Spaces) # {}
  /\ LET row == req[r].with
         w == AnyOf(Fresh(space, Spaces))
     IN IF /\ Row(org, row.org) /\ row.parent \in SpaceRows \union {NoSpace}
           /\ row.slug \notin SpaceSlugs(row.org)
          THEN /\ space' = [space EXCEPT ![w] = [row EXCEPT !.path = Append(@, w)]]
               /\ Commit(r)
          ELSE Answer(r) /\ UNCHANGED space
  /\ UNCHANGED <<org, proj>>

\* update with a parent: the path of the new parent must not lead through w.
BelowDirectly(w, parent) == Last(PathOf(parent)) = w                     \* mutant
Below(w, parent) == w \in ToSet(space[parent].path)

AskMoveSpace(r) ==
  \E w \in SpaceRows, parent \in Spaces \union {NoSpace} :
    /\ parent # space[w].parent /\ parent # w
    /\ \A v \in Spaces : Len(space[v].path) <= MaxDepth
    /\ Adopts(space[w].org, parent) /\ (parent # NoSpace => ~Below(w, parent))
    /\ Ask(r, "moveSpace", "write",
           [w |-> w, parent |-> parent, old |-> PathOf(w),
            new |-> Append(PathTo(parent), w)])
    /\ UNCHANGED spaceVars

\* One transaction: the workspace, then all whose path begins with its old one.
Rebased(h) ==
  [w \in Spaces |->
     IF w = h.w THEN [space[w] EXCEPT !.parent = h.parent, !.path = h.new]
     ELSE IF w \in SpaceRows /\ IsStrictPrefix(h.old, space[w].path)
       THEN [space[w] EXCEPT !.path = h.new \o SubSeq(@, Len(h.old) + 1, Len(@))]
     ELSE space[w]]

MoveSpace(r) ==
  /\ At(r, "moveSpace", "write")
  /\ LET h == req[r].with IN
       IF h.w \in SpaceRows /\ h.parent \in SpaceRows \union {NoSpace}
         THEN space' = Rebased(h) /\ Commit(r)
         ELSE Answer(r) /\ UNCHANGED space
  /\ UNCHANGED <<org, proj>>

\* update of the slug, or of the organization; taken slugs are refused, by the
\* check or by the index.
UpdateSpace(r) ==
  \E w \in SpaceRows, o \in OrgRows : \E slug \in Bases \union {space[w].slug} :
    /\ slug = space[w].slug \/ slug \notin SpaceSlugs(space[w].org)
    /\ \A v \in Inside(o) \ {w} : space[v].slug # slug
    /\ Once(r, "updateSpace")
    /\ space' = [space EXCEPT ![w].slug = slug, ![w].org = o]
    /\ UNCHANGED <<org, proj>>

RemoveSpace(r) ==
  \E w \in SpaceRows :
    /\ Once(r, "removeSpace")
    /\ Without({w})
    /\ UNCHANGED org

\* archiveWorkspace and unarchiveWorkspace take all the projects along, but no
\* child workspace.  The state is checked before the transaction.
AskArchiveSpace(r) ==
  \E w \in SpaceRows :
    /\ Ask(r, IF space[w].state = "live" THEN "archiveSpace" ELSE "unarchiveSpace", "write", w)
    /\ UNCHANGED spaceVars

ArchiveSpace(r) ==
  /\ req[r].op \in {"archiveSpace", "unarchiveSpace"} /\ req[r].step = "write"
  /\ LET w == req[r].with
         state == IF req[r].op = "archiveSpace" THEN "archived" ELSE "live"
     IN IF w \in SpaceRows
          THEN /\ proj' = [p \in Projects |-> IF p \in Held({w}) THEN [proj[p] EXCEPT !.state = state]
                                                                 ELSE proj[p]]
               /\ space' = [space EXCEPT ![w].state = state]
               /\ Commit(r)
          ELSE Answer(r) /\ UNCHANGED <<space, proj>>
  /\ UNCHANGED org

-----------------------------------------------------------------------------
\* ProjectsService

\* create: the workspace may be archived, its organization not.  A slug taken
\* meanwhile makes the transaction fail, and another be looked for.
AskCreateProject(r) ==
  \E w \in SpaceRows, b \in Bases :
    /\ org[space[w].org].state = "live"
    /\ Ask(r, "createProject", "insert",
           [row |-> NewProject(w, NumberAfter(b)), base |-> b, tries |-> 0])
    /\ UNCHANGED spaceVars

CreateProject(r) ==
  /\ At(r, "createProject", "insert")
  /\ Fresh(proj, Projects) # {}
  /\ LET h == req[r].with IN
       \/ /\ h.row.ws \in SpaceRows /\ h.row.slug \notin ProjectSlugs
          /\ proj' = [proj EXCEPT ![AnyOf(Fresh(proj, Projects))] = h.row]
          /\ Commit(r)
       \/ /\ h.row.slug \in ProjectSlugs /\ h.tries + 1 < MaxRetries
          /\ GoOn(r, "insert", [h EXCEPT !.tries = @ + 1, !.row.slug = NumberAfter(h.base)])
          /\ UNCHANGED proj
       \/ /\ \/ h.row.slug \in ProjectSlugs /\ h.tries + 1 >= MaxRetries
             \/ h.row.ws \notin SpaceRows
          /\ Answer(r)
          /\ UNCHANGED proj
  /\ UNCHANGED <<org, space>>

\* update: another slug, or another workspace, whosever.
UpdateProject(r) ==
  \E p \in ProjectRows, w \in SpaceRows : \E slug \in Bases \union {proj[p].slug} :
    /\ slug = proj[p].slug \/ slug \notin ProjectSlugs
    /\ Once(r, "updateProject")
    /\ proj' = [proj EXCEPT ![p].ws = w, ![p].slug = slug]
    /\ UNCHANGED <<org, space>>

RemoveProject(r) ==
  \E p \in ProjectRows :
    /\ Once(r, "removeProject")
    /\ proj' = [proj EXCEPT ![p].state = "gone"]
    /\ UNCHANGED <<org, space>>

\* archiveProject; unarchiveProject, unless the workspace is archived.
AskArchiveProject(r) ==
  \E p \in ProjectRows :
    /\ Ask(r, "archiveProject", "write", p)
    /\ UNCHANGED spaceVars

AskUnarchiveProject(r) ==
  \E p \in ProjectRows :
    /\ space[proj[p].ws].state = "live"
    /\ Ask(r, "unarchiveProject", "write", p)
    /\ UNCHANGED spaceVars

ArchiveProject(r) ==
  /\ req[r].op \in {"archiveProject", "unarchiveProject"} /\ req[r].step = "write"
  /\ LET p == req[r].with IN
       IF p \in ProjectRows
         THEN /\ proj' = [proj EXCEPT ![p].state =
                            IF req[r].op = "archiveProject" THEN "archived" ELSE "live"]
              /\ Commit(r)
         ELSE Answer(r) /\ UNCHANGED proj
  /\ UNCHANGED <<org, space>>

SpaceStep(r) ==
  \/ AskCreateOrg(r) \/ CreateOrg(r) \/ ArchiveOrg(r) \/ RemoveOrg(r)
  \/ AskCreateSpace(r) \/ CreateSpace(r) \/ AskMoveSpace(r) \/ MoveSpace(r)
  \/ UpdateSpace(r) \/ RemoveSpace(r) \/ AskArchiveSpace(r) \/ ArchiveSpace(r)
  \/ AskCreateProject(r) \/ CreateProject(r) \/ UpdateProject(r) \/ RemoveProject(r)
  \/ AskArchiveProject(r) \/ AskUnarchiveProject(r) \/ ArchiveProject(r)

SpaceNext == (\E r \in Requests : SpaceStep(r)) /\ UNCHANGED mix
SpacesSpec == HandlersInit /\ SpacesInit /\ [][SpaceNext]_<<handlerVars, spaceVars>>

-----------------------------------------------------------------------------
\* Every workspace below another is in its organization, and its path is the
\* other's, then itself: getAncestors and the check of a move read the paths.
TreeFormed ==
  \A w \in SpaceRows :
    LET up == space[w].parent IN
      /\ Last(PathOf(w)) = w
      /\ up # NoSpace => /\ up \in Inside(space[w].org)
                         /\ PathOf(w) = Append(PathOf(up), w)

\* Every step leaves the tree formed, but for a creation or a move that another,
\* or a deletion, overtook between its check and its transaction (two workspaces
\* moved below each other at once both pass the check), and for an update that
\* gives a workspace another organization, which the code lets through.
TreeHeld ==
  [][/\ \A r \in Requests : Moves(r) => Alone(r, TreeOps \union {"updateSpace"})
     /\ \A w \in SpaceRows : space'[w].state # "gone" => space'[w].org = space[w].org
     /\ TreeFormed
     => TreeFormed']_<<handlerVars, spaceVars>>

\* An archived project comes back only into a workspace that is not archived,
\* or with it, unless the workspace was archived, or the project moved, since
\* the check; and the creation of a workspace or a project that nothing
\* overtook finds a slug the database accepts.
ProjectsHeld ==
  [][\A r \in Requests : Moves(r) =>
       /\ Alone(r, {"archiveSpace", "updateProject"}) =>
            \A p \in Projects : proj[p].state = "archived" /\ proj'[p].state = "live"
                                => space'[proj[p].ws].state = "live"
       /\ /\ req[r].op \in {"createSpace", "createProject"} /\ req[r].step = "insert"
          /\ req[r].over = {}
          => (space' # space \/ proj' # proj)]_<<handlerVars, spaceVars>>
=============================================================================
