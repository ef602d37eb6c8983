----------------------------- MODULE Directory -----------------------------
(***************************************************************************)
(* What a browser tab keeps of the places around its tasks: a list and the *)
(* current one, for workspaces, projects, organizations, sprints and inbox *)
(* rules, or a list of members.  The contexts are written alike; a         *)
(* behaviour follows one of them, and differences are named by kind.       *)
(***************************************************************************)
EXTENDS Handlers, Functions

CONSTANTS Kinds,     \* the contexts followed
          Places,    \* workspaces, projects, ... of one kind
          Orgs,      \* what a list is for: an organization, a workspace, ...
          Nothing,   \* no current place
          MaxCalls   \* bound: what the user does

VARIABLES
  place,   \* the server's places: there, archived, whose, version
  kept,    \* what the tab keeps: the kind, whose places, its list and current one
  stale,   \* the parts of it last written out of order
  calls

directoryVars == <<place, kept, stale, calls>>
DirectoryOps == {"list", "find", "create", "update", "delete", "archive"}

Held(i) == [org |-> place[i].org, edit |-> place[i].edit]
Entries(is) == [i \in is |-> Held(i)]
ListOf(o) == Entries({i \in Places : place[i].live /\ ~place[i].archived /\ place[i].org = o})

DirectoryInit ==
  \E k \in Kinds, o \in Orgs, present \in SUBSET Places, whose \in [Places -> Orgs] :
    /\ place = [i \in Places |-> [live |-> i \in present, archived |-> FALSE,
                                 org |-> whose[i], edit |-> 0]]
    /\ \E now \in {Nothing} \union {i \in present : whose[i] = o} :
         kept = [kind |-> k, org |-> o, list |-> ListOf(o), current |-> now, copy |-> [org |-> o, edit |-> 0]]
    /\ stale = {} /\ calls = 0

-----------------------------------------------------------------------------
Asking(r, op, i) ==
  /\ Ask(r, op, "sent", [org |-> kept.org, place |-> i, answer |-> Nothing])
  /\ calls < MaxCalls /\ calls' = calls + 1

\* getWorkspacesByOrganization and getProjectsByWorkspace join a request for the
\* same list that is in flight.
Shares == kept.kind \in {"workspace", "project"}
InFlight(o) == \E r \in Requests : /\ req[r].op = "list" /\ req[r].step \in {"sent", "answered"}
                                   /\ req[r].with.org = o
Joins(o) == Shares /\ InFlight(o)

AskList(r) == ~Joins(kept.org) /\ Asking(r, "list", Nothing) /\ UNCHANGED <<place, kept, stale>>

\* Another organization (or workspace) is entered: its list is asked for.
Enter(r) ==
  \E o \in Orgs \ {kept.org} :
    /\ IF Joins(o) THEN UNCHANGED req
       ELSE Ask(r, "list", "sent", [org |-> o, place |-> Nothing, answer |-> Nothing])
    /\ calls < MaxCalls /\ calls' = calls + 1
    /\ kept' = [kept EXCEPT !.org = o] /\ stale' = stale \union {"list"}
    /\ UNCHANGED place

\* getWorkspaceBySlug answers from the current workspace when it is the one.
Find(r) ==
  \E i \in DOMAIN kept.list :
    /\ kept.kind \in {"workspace", "project", "sprint"}
    /\ kept.kind = "workspace" => kept.current # i
    /\ kept.kind = "sprint" => kept.current = i
    /\ Asking(r, "find", i) /\ UNCHANGED <<place, kept, stale>>

Select == /\ \E i \in DOMAIN kept.list \union {Nothing} :
               kept' = [kept EXCEPT !.current = i,
                                    !.copy = IF i = Nothing THEN @ ELSE kept.list[i]]
          /\ kept.kind # "members" /\ calls < MaxCalls /\ calls' = calls + 1
          /\ stale' = IF "list" \in stale THEN stale \union {"current"} ELSE stale \ {"current"}
          /\ UNCHANGED <<req, place>>

Change(r) ==
  \E i \in DOMAIN kept.list, op \in {"update", "delete", "archive"} :
    /\ op = "archive" => kept.kind \in {"workspace", "project"}
    /\ Asking(r, op, i) /\ UNCHANGED <<place, kept, stale>>

New(r) == Asking(r, "create", Nothing) /\ UNCHANGED <<place, kept, stale>>

-----------------------------------------------------------------------------
\* The server.
Answering(r, a) == req' = [req EXCEPT ![r].step = "answered", ![r].with.answer = a,
                                      ![r].over = @ \ {"write"}]

ServeRead(r) ==
  LET w == req[r].with IN
  /\ req[r].step = "sent"
  /\ \/ req[r].op = "list" /\ Answering(r, ListOf(w.org))
     \/ req[r].op = "find" /\ place[w.place].live /\ Answering(r, Held(w.place))
  /\ UNCHANGED <<place, kept, stale, calls>>

\* A change; one the tab stopped waiting for (left) is made all the same.
ServeWrite(r) ==
  \E i \in Places :
    LET op == req[r].op IN
    /\ req[r].step \in {"sent", "left"}
    /\ \/ op = "create" /\ ~place[i].live
          /\ place' = [place EXCEPT ![i] = [live |-> TRUE, archived |-> FALSE,
                                           org |-> req[r].with.org, edit |-> 0]]
       \/ op \in {"update", "delete", "archive"} /\ i = req[r].with.place /\ place[i].live
          /\ place' = [place EXCEPT ![i] =
               CASE op = "update" -> [@ EXCEPT !.edit = place[i].edit + 1]
                 [] op = "delete" -> [@ EXCEPT !.live = FALSE]
                 [] OTHER -> [@ EXCEPT !.archived = TRUE]]
    /\ req' = [q \in Requests |->
                IF q = r
                THEN IF req[r].step = "left" THEN Idle
                     ELSE [req[r] EXCEPT !.step = "answered", !.over = {}, !.with.place = i,
                             !.with.answer = [org |-> place'[i].org, edit |-> place'[i].edit]]
                ELSE IF Active(q) THEN [req[q] EXCEPT !.over = @ \union {"write"}] ELSE req[q]]
    /\ stale' = IF req[r].step = "left" THEN {"list", "current"} ELSE stale
    /\ UNCHANGED <<kept, calls>>

-----------------------------------------------------------------------------
\* The answer is applied, and marks the other calls it overtakes.
Done(r, parts) == req' = [q \in Requests |->
                           IF q = r THEN Idle
                           ELSE IF Active(q) THEN [req[q] EXCEPT !.over = @ \union parts]
                           ELSE req[q]]

Overtook(r, part) == req[r].over \intersect {part, "write"} # {}

\* A part just written: stale when it was answered too early.
Marked(r, part) == IF Overtook(r, part) THEN {part} ELSE {}

ListLoaded(r) ==
  LET w == req[r].with IN
  /\ req[r].op = "list" /\ req[r].step = "answered"
  /\ kept' = [kept EXCEPT !.list = w.answer]
  /\ stale' = (stale \ {"list"}) \union Marked(r, "list")
              \union (IF w.org # kept.org THEN {"list"} ELSE {})
  /\ Done(r, {"list"}) /\ UNCHANGED <<place, calls>>

Found(r) ==
  LET w == req[r].with IN
  /\ req[r].op = "find" /\ req[r].step = "answered"
  /\ IF kept.kind = "sprint" /\ kept.current # w.place
     THEN UNCHANGED <<kept, stale>>
     ELSE /\ kept' = [kept EXCEPT !.current = w.place, !.copy = w.answer]
          /\ stale' = (stale \ {"current"}) \union Marked(r, "current")
  /\ Done(r, {"current"}) /\ UNCHANGED <<place, calls>>

\* Members are added to a list that is shown and theirs; the others always.
Created(r) ==
  LET w == req[r].with IN
  /\ req[r].op = "create" /\ req[r].step = "answered"
  /\ kept' = IF kept.kind = "members" /\ \A i \in DOMAIN kept.list : kept.list[i].org # w.org
             THEN kept
             ELSE [kept EXCEPT !.list = [i \in DOMAIN @ \union {w.place} |->
                                           IF i = w.place THEN w.answer ELSE @[i]]]
  /\ stale' = stale \union Marked(r, "list") \union (IF w.org # kept.org THEN {"list"} ELSE {})
  /\ Done(r, {"list"}) /\ UNCHANGED <<place, calls>>

Updated(r) ==
  LET w == req[r].with IN
  /\ req[r].op = "update" /\ req[r].step = "answered"
  /\ kept' = [kept EXCEPT !.list = [i \in DOMAIN @ |-> IF i = w.place THEN w.answer ELSE @[i]],
                          !.copy = IF kept.current = w.place THEN w.answer ELSE @]
  /\ stale' = stale \union Marked(r, "list") \union Marked(r, "current")
  /\ Done(r, {"list", "current"}) /\ UNCHANGED <<place, calls>>

Deleted(r) ==
  LET w == req[r].with IN
  /\ req[r].op = "delete" /\ req[r].step = "answered"
  /\ kept' = [kept EXCEPT !.list = Restrict(@, DOMAIN @ \ {w.place}),
                          !.current = IF @ = w.place THEN Nothing ELSE @]
  /\ stale' = stale \union Marked(r, "list") \union Marked(r, "current")
  /\ Done(r, {"list", "current"}) /\ UNCHANGED <<place, calls>>

ArchivedOnly(r) ==                                                      \* mutant
  /\ req[r].op = "archive" /\ req[r].step = "answered"
  /\ stale' = stale \union (IF kept.kind = "project" THEN {"list"} ELSE {})
  /\ Done(r, {}) /\ UNCHANGED <<place, kept, calls>>

\* An archived workspace leaves the list when that is loaded again, by a request
\* of its own or one in flight; an archived project stays in it.
Archived(r) ==
  LET w == req[r].with IN
  /\ req[r].op = "archive" /\ req[r].step = "answered"
  /\ stale' = stale \union (IF kept.kind = "project" THEN {"list"} ELSE {})
  /\ IF kept.kind = "project" \/ Joins(kept.org) THEN Done(r, {})
     ELSE req' = [req EXCEPT ![r] = [op |-> "list", step |-> "sent", over |-> {},
                                     with |-> [org |-> kept.org, place |-> Nothing, answer |-> Nothing]]]
  /\ UNCHANGED <<place, kept, calls>>

\* A call is refused, lost, or given up after ten seconds (workspaces): the
\* server may still be at it.  What is not found is not current any more, and a
\* workspace call that says so clears whichever is.
GivesUp(r) ==
  LET w == req[r].with
      missing == req[r].step = "sent" /\ w.place # Nothing /\ ~place[w.place].live
  IN /\ Active(r) /\ req[r].step # "left"
     /\ kept' = IF missing /\ kept.kind = "workspace" THEN [kept EXCEPT !.current = Nothing] ELSE kept
     /\ stale' = stale \union {"list"} \union (IF req[r].op = "list" THEN {} ELSE {"current"})
     /\ IF kept.kind = "workspace" /\ req[r].step = "sent" /\ ~missing /\ req[r].op \notin {"list", "find"}
        THEN req' = [req EXCEPT ![r].step = "left"]
        ELSE Done(r, {"list"})
     /\ UNCHANGED <<place, calls>>

DirectoryStep(r) ==
  \/ AskList(r) \/ Enter(r) \/ Find(r) \/ Change(r) \/ New(r)
  \/ ServeRead(r) \/ ServeWrite(r)
  \/ ListLoaded(r) \/ Found(r) \/ Created(r) \/ Updated(r) \/ Deleted(r) \/ Archived(r) \/ GivesUp(r)

DirectoryNext == ((\E r \in Requests : DirectoryStep(r)) \/ Select) /\ UNCHANGED mix
DirectorySpec == HandlersInit /\ DirectoryInit /\ [][DirectoryNext]_<<handlerVars, directoryVars>>

-----------------------------------------------------------------------------
(***************************************************************************)
(* Once every call has ended, a list that was not written out of order is  *)
(* exactly what the server would answer for the organization on the        *)
(* screen, after all that was created, changed, deleted and archived, and  *)
(* the current place is one that exists, as it is.                         *)
(***************************************************************************)
DirectoryTrue ==
  (\A r \in Requests : ~Active(r)) =>
    /\ "list" \notin stale =>
         /\ \A i \in DOMAIN kept.list : i \in DOMAIN ListOf(kept.org) /\ kept.list[i] = Held(i)
         /\ kept.kind # "members" => DOMAIN kept.list = DOMAIN ListOf(kept.org)
    /\ "current" \notin stale /\ kept.current # Nothing =>
         place[kept.current].live /\ kept.copy = Held(kept.current)
=============================================================================
