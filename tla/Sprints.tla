------------------------------- MODULE Sprints -------------------------------
(***************************************************************************)
(* SprintsService for the projects of an organization.  A project may have *)
(* one active sprint; every check for it precedes, by at least one query,  *)
(* the statement that relies on it.  The sprint a project is created with  *)
(* has no slug: the first request that reads it stores one.  Slugs are     *)
(* numbered variants of one name (the search for a free one, a query per   *)
(* variant, is one read); tasks, names and access checks are left out.     *)
(***************************************************************************)
EXTENDS Handlers

CONSTANTS Sprints,
          DefaultSprint   \* the sprint each project is created with

ASSUME SprintsAssumption ==
  /\ Projects # {} /\ IsFiniteSet(Sprints)
  /\ DefaultSprint \in [Projects -> Sprints]
  /\ \A p, q \in Projects : DefaultSprint[p] = DefaultSprint[q] => p = q

VARIABLE sprint   \* the sprints table

SprintOps == {"createSprint", "updateSprint", "startSprint", "completeSprint",
              "removeSprint", "archiveSprint", "readSprints"}
SprintStatuses == {"PLANNING", "ACTIVE", "COMPLETED", "CANCELLED"}
NoSlug == -1

Stored == {s \in Sprints : sprint[s].state = "live"}
In(p) == {s \in Stored : sprint[s].prj = p}
ActiveIn(p) == {s \in In(p) : sprint[s].status = "ACTIVE"}

SprintInit ==
  sprint = [s \in Sprints |->
              [state |-> IF \E p \in Projects : DefaultSprint[p] = s THEN "live" ELSE "none",
               prj |-> IF \E p \in Projects : DefaultSprint[p] = s
                         THEN CHOOSE p \in Projects : DefaultSprint[p] = s
                         ELSE CHOOSE p \in Projects : TRUE,
               status |-> "PLANNING", dated |-> TRUE, archived |-> FALSE, slug |-> NoSlug]]

-----------------------------------------------------------------------------
\* generateUniqueSlug: the first variant that no sprint of the project has, the
\* sprint it is for included.
FreeSlug(p) == CHOOSE n \in 0..Cardinality(Stored) :
                 /\ \A s \in In(p) : sprint[s].slug # n
                 /\ \A m \in 0..(n - 1) : \E s \in In(p) : sprint[s].slug = m

AskCreateSprint(r) ==
  \E p \in Projects, status \in {"PLANNING", "ACTIVE"}, dated \in BOOLEAN :
    /\ status = "ACTIVE" => ActiveIn(p) = {}
    /\ Ask(r, "createSprint", "write",
           [state |-> "live", prj |-> p, status |-> status, dated |-> dated,
            archived |-> FALSE, slug |-> FreeSlug(p)])
    /\ UNCHANGED sprint

CreateSprint(r) ==
  /\ At(r, "createSprint", "write")
  /\ LET row == req[r].with IN
       \/ /\ \A s \in In(row.prj) : sprint[s].slug # row.slug
          /\ \E s \in Sprints : sprint[s].state = "none" /\ sprint' = [sprint EXCEPT ![s] = row]
          /\ Commit(r)
       \/ (\E s \in In(row.prj) : sprint[s].slug = row.slug) /\ Answer(r) /\ UNCHANGED sprint

-----------------------------------------------------------------------------
\* update is asked for directly, or by startSprint and completeSprint once they
\* have looked at the sprint themselves.
AskUpdateSprint(r) ==
  \E s \in Stored, status \in SprintStatuses :
    Ask(r, "updateSprint", "update", [id |-> s, status |-> status]) /\ UNCHANGED sprint

AskStartSprint(r) ==
  \E s \in Stored :
    /\ sprint[s].status = "PLANNING" /\ sprint[s].dated
    /\ ActiveIn(sprint[s].prj) = {}
    /\ Ask(r, "startSprint", "update", [id |-> s, status |-> "ACTIVE"])
    /\ UNCHANGED sprint

AskCompleteSprint(r) ==
  \E s \in Stored :
    /\ sprint[s].status = "ACTIVE"
    /\ Ask(r, "completeSprint", "update", [id |-> s, status |-> "COMPLETED"])
    /\ UNCHANGED sprint

AllowedAnyway(s, status) == s \in Stored                                 \* mutant

\* What update checks: another active sprint stands in the way of a new one.
Allowed(s, status) ==
  /\ s \in Stored
  /\ status = "ACTIVE" /\ sprint[s].status # "ACTIVE" => ActiveIn(sprint[s].prj) \ {s} = {}

CheckUpdate(r) ==
  /\ req[r].step = "update"
  /\ LET h == req[r].with IN
       IF Allowed(h.id, h.status) THEN GoOn(r, "write", h) ELSE Answer(r)
  /\ UNCHANGED sprint

UpdateSprint(r) ==
  /\ req[r].op \in {"updateSprint", "startSprint", "completeSprint"} /\ req[r].step = "write"
  /\ LET h == req[r].with IN
       \/ h.id \in Stored /\ sprint' = [sprint EXCEPT ![h.id].status = h.status] /\ Commit(r)
       \/ h.id \notin Stored /\ Answer(r) /\ UNCHANGED sprint

-----------------------------------------------------------------------------
AskRemoveSprint(r) ==
  \E s \in Stored :
    /\ sprint[s].status # "ACTIVE"
    /\ Ask(r, "removeSprint", "write", s)
    /\ UNCHANGED sprint

RemoveSprint(r) ==
  /\ At(r, "removeSprint", "write")
  /\ IF req[r].with \in Stored
       THEN sprint' = [sprint EXCEPT ![req[r].with].state = "gone"] /\ Commit(r)
       ELSE Answer(r) /\ UNCHANGED sprint

\* An active sprint can be archived: the lists leave it out, the checks do not.
ArchiveSprint(r) ==
  \E s \in Stored :
    /\ Once(r, "archiveSprint")
    /\ sprint' = [sprint EXCEPT ![s].archived = TRUE]

-----------------------------------------------------------------------------
AskReadAll(r) ==                                                         \* mutant
  \E p \in Projects :
    /\ In(p) # {} /\ Ask(r, "readSprints", "next", [todo |-> In(p)])
    /\ UNCHANGED sprint

\* findAll, findAllByProjectSlug, findOne: the sprints that were read without a
\* slug get one, each by a search and a statement of its own.
AskReadSprints(r) ==
  \E p \in Projects :
    LET bare == {s \in In(p) : sprint[s].slug = NoSlug /\ ~sprint[s].archived} IN
      \E todo \in {bare} \union {{s} : s \in {x \in In(p) : sprint[x].slug = NoSlug}} :
        /\ todo # {}
        /\ Ask(r, "readSprints", "next", [todo |-> todo])
        /\ UNCHANGED sprint

NextSlug(r) ==
  /\ At(r, "readSprints", "next")
  /\ LET h == req[r].with IN
       \E s \in h.todo :
         GoOn(r, "store", [todo |-> h.todo \ {s}, id |-> s, slug |-> FreeSlug(sprint[s].prj)])
  /\ UNCHANGED sprint

StoreSlug(r) ==
  /\ At(r, "readSprints", "store")
  /\ LET h == req[r].with
         stands == /\ h.id \in Stored
                   /\ \A s \in In(sprint[h.id].prj) \ {h.id} : sprint[s].slug # h.slug
     IN \/ /\ stands
           /\ sprint' = [sprint EXCEPT ![h.id].slug = h.slug]
           /\ IF h.todo = {} THEN Commit(r) ELSE CommitAnd(r, "next", [todo |-> h.todo])
        \/ ~stands /\ Answer(r) /\ UNCHANGED sprint

-----------------------------------------------------------------------------
SprintStep(r) ==
  \/ AskCreateSprint(r) \/ CreateSprint(r)
  \/ AskUpdateSprint(r) \/ AskStartSprint(r) \/ AskCompleteSprint(r)
  \/ CheckUpdate(r) \/ UpdateSprint(r)
  \/ AskRemoveSprint(r) \/ RemoveSprint(r) \/ ArchiveSprint(r)
  \/ AskReadSprints(r) \/ NextSlug(r) \/ StoreSlug(r)

sprintVars == <<mix, req, sprint>>

SprintSpec ==
  HandlersInit /\ SprintInit /\ [][\E r \in Requests : SprintStep(r) /\ UNCHANGED mix]_sprintVars

-----------------------------------------------------------------------------
SprintTypeOK ==
  /\ \A s \in Stored : sprint[s].status \in SprintStatuses /\ sprint[s].prj \in Projects
  /\ \A s, t \in Stored : sprint[s].prj = sprint[t].prj /\ sprint[s].slug = sprint[t].slug
                          => s = t \/ sprint[s].slug = NoSlug

\* Whatever makes a sprint active (create, update, startSprint) finds no other
\* active one in the project, archived ones included, unless another request
\* created a sprint or changed the status of one since the check.  (An update of
\* an active sprint to active checks nothing, so a completion in between counts.)
OneActive ==
  [][ \A r \in Requests, s \in Sprints :
        LET makes == /\ sprint[s].state # "live" \/ sprint[s].status # "ACTIVE"
                     /\ sprint'[s].state = "live" /\ sprint'[s].status = "ACTIVE"
        IN makes /\ req[r].step = "write" /\ Moves(r)
           /\ Alone(r, {"createSprint", "updateSprint", "startSprint", "completeSprint"})
           => ActiveIn(sprint'[s].prj) = {} ]_sprintVars

\* An active sprint is never deleted, unless it became active after remove read it.
ActiveSprintKept ==
  [][ \A r \in Requests, s \in Stored :
        /\ sprint[s].status = "ACTIVE" /\ sprint'[s].state = "gone"
        /\ At(r, "removeSprint", "write") /\ Moves(r)
        => ~Alone(r, {"updateSprint", "startSprint"}) ]_sprintVars

\* The slug of a sprint, once stored, is what links to it use: only two reads
\* that supply the same missing one at the same time can change it.
SlugStays ==
  [][ \A s \in Stored :
        sprint[s].slug # NoSlug /\ sprint'[s].slug # sprint[s].slug
        => \E r \in Requests : /\ At(r, "readSprints", "store") /\ Moves(r)
                               /\ ~Alone(r, {"readSprints"}) ]_sprintVars

\* Reading sprints fails over a slug only when another request stored or
\* removed one in the meantime.
ReadsAnswered ==
  [][ \A r \in Requests :
        /\ At(r, "readSprints", "store") /\ req'[r].step # "store"
        /\ Alone(r, {"readSprints", "createSprint", "removeSprint"})
        => sprint'[req[r].with.id].slug = req[r].with.slug ]_sprintVars

\* A project's sprint is started alone, and stays until it is over.
ActiveSprintHeld == OneActive /\ ActiveSprintKept

\* A sprint gets its slug once, from a read that is answered.
SlugsSettle == SlugStays /\ ReadsAnswered
=============================================================================
