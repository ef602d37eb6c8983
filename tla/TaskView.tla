------------------------------ MODULE TaskView ------------------------------
(***************************************************************************)
(* What one browser tab shows of the tasks: the list and the open task its *)
(* task context keeps for every page, and the chart, board and groups of   *)
(* the page it is on.  Each call is sent, handled by the server, and its   *)
(* answer applied, in any order with the others.                           *)
(***************************************************************************)
EXTENDS Handlers, Functions, Sequences

CONSTANTS Cards,     \* tasks, numbered in the order of their rank
          Under,     \* those that are subtasks of the first
          Unmade,    \* those that may not be there when a page has loaded
          Scope,     \* per page of the application: the tasks it is about
          Columns,   \* statuses, the first of them a new task's
          First,
          PerPage,   \* rows of a page
          MaxActs    \* bound: what the user does

ASSUME ViewAssumption ==
  /\ Cards \subseteq Nat \ {0} /\ IsFiniteSet(Cards) /\ Under \subseteq Cards /\ Unmade \subseteq Cards
  /\ \E t \in Cards \ (Under \union Unmade) : \A u \in Cards \ Under : t <= u
  /\ First \in Columns /\ PerPage \in Nat \ {0} /\ MaxActs \in Nat

VARIABLES
  card,    \* the server's tasks: there or not, status, version of the rest
  shown,   \* what the tab holds
  behind,  \* the parts of it last written out of order, or not at all
  acts     \* what the user has done

viewVars == <<card, shown, behind, acts>>

Copy(t) == [column |-> card[t].column, edit |-> card[t].edit]
Rows(ts) == [t \in ts |-> Copy(t)]
NoRows == Rows({})
NoBoard == [rows |-> NoRows, page |-> 0]
NoGroup == [rows |-> NoRows, page |-> 1, pages |-> 0, more |-> FALSE]
Top == CHOOSE t \in Cards \ Under : \A u \in Cards \ Under : t <= u

Queries == [site : DOMAIN Scope, only : {{}} \union {{c} : c \in Columns}, page : {1, 2}]
ViewsOf(site) == CASE site = "project" -> {"list", "kanban", "gantt", "groups"}
                   [] site = "sprint" -> {"list", "kanban", "gantt"}
                   [] OTHER -> {"list", "gantt"}

-----------------------------------------------------------------------------
\* What the server answers.
Wanted(q) == {t \in Cards : /\ card[t].live /\ t \in Scope[q.site]
                            /\ q.only = {} \/ card[t].column \in q.only}
PageOf(ts, p) == {t \in ts : Cardinality({u \in ts : u < t}) \div PerPage = p - 1}
PagesOf(ts) == (Cardinality(ts) + PerPage - 1) \div PerPage
InColumn(ts, c) == {t \in ts : card[t].column = c}
Unfiltered(q) == [q EXCEPT !.only = {}]
Kids(t) == IF t = Top THEN {u \in Under : card[u].live} ELSE {}

ListFor(q) == [query |-> q, rows |-> Rows(PageOf(Wanted(q), q.page)),
               pages |-> PagesOf(Wanted(q))]
\* The workspace page asks for its chart without the filters.
ChartFor(q) == ListFor(IF q.site = "workspace" THEN Unfiltered(q) ELSE q)
\* The board is asked for without them on every page, and without subtasks on
\* the project's.
OnBoard(q) ==
  Wanted(Unfiltered(q)) \ (IF q.site = "project" /\ card[Top].live THEN Under ELSE {})
BoardFor(q, c, p) == [rows |-> Rows(PageOf(InColumn(OnBoard(q), c), p)), page |-> p]
GroupFor(q, c, p) ==
  LET ts == InColumn(Wanted(q), c) IN
  [rows |-> Rows(PageOf(ts, p)), page |-> p, pages |-> PagesOf(ts), more |-> FALSE]

\* A page that has loaded what it shows, with the first task open.
ViewInit ==
  \E site \in DOMAIN Scope, live \in {Cards, Cards \ Unmade} : \E v \in ViewsOf(site) :
    LET q == [site |-> site, only |-> {}, page |-> 1]
        For(w, part, none) == IF v = w THEN part ELSE none
    IN /\ card = [t \in Cards |-> [live |-> t \in live, column |-> First, edit |-> 0]]
       /\ shown = [query |-> q, view |-> v, list |-> ListFor(q),
                   open |-> [task |-> Top, copy |-> Copy(Top), kids |-> Rows(Kids(Top))],
                   panel |-> Rows(Kids(Top)),
                   chart |-> For("gantt", Rows(PageOf(Wanted(q), 1)), NoRows),
                   board |-> [c \in Columns |-> For("kanban", BoardFor(q, c, 1), NoBoard)],
                   groups |-> [c \in Columns |-> For("groups", GroupFor(q, c, 1), NoGroup)]]
       /\ behind = For("gantt", {}, {"chart"}) \union For("kanban", {}, {"board"})
                    \union For("groups", {}, {"groups"})
       /\ acts = 0

-----------------------------------------------------------------------------
\* A call: what it is for, what the server answers, and what the page loads
\* once it has the answer (of the query and view it had when it called).
Call(q, ts, c, p) ==
  [query |-> q, tasks |-> ts, column |-> c, page |-> p, answer |-> NoRows, next |-> <<>>]
Act == acts < MaxActs /\ acts' = acts + 1
Send(r, op, call) == Ask(r, op, "sent", call) /\ Act
Plain == Call(shown.query, {}, First, 1)

\* What the effects of a page load when its filters, page or view change.  The
\* project page loads what it shows; the sprint and the workspace page load the
\* list for every change but one of the view.
Loader(q, v) ==
  LET turned == v # shown.view \/ q.site # shown.query.site
      own == [list |-> "list", kanban |-> "board", gantt |-> "chart", groups |-> "groups"]
  IN IF q.site = "project" \/ turned THEN own[v] ELSE "list"

\* Another page leaves the context as it is and starts its own state afresh.
Choose(r) ==
  \E q \in Queries : \E v \in ViewsOf(q.site) :
    /\ q # shown.query \/ v # shown.view
    /\ q.page = 1 \/ q = [shown.query EXCEPT !.page = q.page]
    /\ q.site # shown.query.site => q.only = {} /\ v = "list"
    /\ v = "groups" => q.page = 1
    /\ Send(r, Loader(q, v), Call(q, {}, First, 1))
    /\ shown' = IF q.site = shown.query.site
                THEN [shown EXCEPT !.query = q, !.view = v]
                ELSE [shown EXCEPT !.query = q, !.view = v, !.chart = NoRows,
                                   !.board = [c \in Columns |-> NoBoard],
                                   !.groups = [c \in Columns |-> NoGroup]]
    /\ behind' = behind \union (IF q.site = shown.query.site THEN {}
                                ELSE {"chart", "board", "groups"})
    /\ UNCHANGED card

\* A load repeated: retry, refetch, or the page's other effect for one change.
Again(r) == Send(r, Loader(shown.query, shown.view), Plain) /\ UNCHANGED <<card, shown, behind>>

More(r) ==
  \E c \in Columns : \E p \in {1, shown.board[c].page + 1} :
    /\ shown.view = "kanban" /\ shown.board[c].page > 0
    /\ Send(r, "more", Call(shown.query, {}, c, p))
    /\ UNCHANGED <<card, shown, behind>>

\* goToGroupPage: one page of a group at a time.
Turn(r) ==
  \E c \in Columns : \E p \in 1..shown.groups[c].pages :
    /\ shown.view = "groups" /\ ~shown.groups[c].more /\ p # shown.groups[c].page
    /\ Send(r, "turn", Call(shown.query, {}, c, p))
    /\ shown' = [shown EXCEPT !.groups[c].more = TRUE]
    /\ UNCHANGED <<card, behind>>

OpenTask(r) ==
  \E t \in DOMAIN shown.list.rows \union DOMAIN shown.panel, op \in {"open", "panel"} :
    /\ op = "panel" => t = Top
    /\ Send(r, op, Call(shown.query, {t}, First, 1))
    /\ UNCHANGED <<card, shown, behind>>

CloseTask == Act /\ shown.open.task # 0 /\ shown' = [shown EXCEPT !.open.task = 0, !.open.kids = NoRows]
         /\ UNCHANGED <<req, card, behind>>

\* What the user changes: a row, the open task, or the rows selected together.
OnScreen == DOMAIN shown.list.rows \union ({shown.open.task} \ {0})
Bulk == {"bulk", "bulkdelete"}

Edit(r) ==
  \E op \in {"update", "status", "assign", "delete"} \union Bulk, c \in Columns, ts \in SUBSET OnScreen :
    /\ ts # {} /\ op \notin Bulk => Cardinality(ts) = 1
    /\ op \notin {"status", "bulk"} => c = First
    /\ Send(r, op, Call(shown.query, ts, c, 1))
    /\ UNCHANGED <<card, shown, behind>>

EditSubtask(r) ==
  \E t \in DOMAIN shown.panel, op \in {"subupdate", "subdelete"} :
    /\ Send(r, op, Call(shown.query, {t}, First, 1))
    /\ UNCHANGED <<card, shown, behind>>

\* What a page loads after it created a task.
Refresh ==
  CASE shown.query.site = "project" -> IF shown.view = "kanban" THEN <<"board">> ELSE <<"list">>
    [] shown.query.site = "sprint" /\ shown.view # "list" -> <<"list", Loader(shown.query, shown.view)>>
    [] OTHER -> <<"list">>

Add(r) ==
  \E op \in {"create", "subcreate"} :
    /\ op = "subcreate" => shown.open.task = Top
    /\ Send(r, op, IF op = "create" THEN [Plain EXCEPT !.next = Refresh] ELSE Plain)
    /\ UNCHANGED <<card, shown, behind>>

\* A bar of the chart moves before the server has agreed.
Drag(r) ==
  \E t \in DOMAIN shown.chart :
    /\ shown.view = "gantt"
    /\ Send(r, "drag", [Call(shown.query, {t}, First, 1) EXCEPT !.next = <<"chart">>])
    /\ shown' = [shown EXCEPT !.chart[t].edit = @ + 1]
    /\ behind' = behind \union {"chart"}
    /\ UNCHANGED card

-----------------------------------------------------------------------------
\* The server.
Loads == {"list", "chart", "board", "more", "groups", "turn", "open", "panel"}
PartsOf(op) ==
  CASE op = "list" -> {"list"}             [] op = "chart" -> {"list", "chart"}
    [] op \in {"board", "more"} -> {"board"} [] op \in {"groups", "turn"} -> {"groups"}
    [] op \in {"open", "panel"} -> {op}     [] op = "create" -> {"list"}
    [] op \in {"status", "assign", "bulk"} -> {"list", "open"}
    [] op \in {"subcreate", "subupdate", "subdelete"} -> {"panel", "open"}
    [] OTHER -> {"list", "panel", "open"}

AnswerFor(op, w) ==
  LET t == CHOOSE u \in w.tasks : TRUE IN
  CASE op = "list" -> ListFor(w.query)
    [] op = "chart" -> ChartFor(w.query)
    [] op = "board" -> [c \in Columns |-> BoardFor(w.query, c, 1)]
    [] op = "more" -> BoardFor(w.query, w.column, w.page)
    [] op = "groups" -> [c \in Columns |-> GroupFor(w.query, c, 1)]
    [] op = "turn" -> GroupFor(w.query, w.column, w.page)
    [] op = "open" -> [task |-> t, copy |-> Copy(t), kids |-> Rows(Kids(t))]
    [] OTHER -> Rows(Kids(Top))

Read(r) ==
  LET w == req[r].with IN
  /\ req[r].step = "sent" /\ req[r].op \in Loads
  /\ req[r].op \in {"open", "panel"} => \A t \in w.tasks : card[t].live
  /\ req' = [req EXCEPT ![r].step = "answered", ![r].over = @ \ {"write"},
                        ![r].with = [w EXCEPT !.answer = AnswerFor(req[r].op, w)]]
  /\ UNCHANGED <<card, shown, behind, acts>>

Written(op, t, c) ==
  CASE op \in {"delete", "bulkdelete", "subdelete"} -> [card[t] EXCEPT !.live = FALSE]
    [] op \in {"status", "bulk"} -> [card[t] EXCEPT !.column = c]
    [] op \in {"create", "subcreate"} -> [live |-> TRUE, column |-> First, edit |-> 0]
    [] OTHER -> [card[t] EXCEPT !.edit = @ + 1]

\* A bulk edit may refuse some of its tasks.
Handle(r) ==
  \E ts \in SUBSET Cards :
    LET op == req[r].op
        w == req[r].with
        new == [t \in Cards |-> IF t \in ts THEN Written(op, t, w.column) ELSE card[t]]
        copies == [t \in ts |-> [column |-> new[t].column, edit |-> new[t].edit]]
    IN /\ req[r].step = "sent" /\ op \notin Loads /\ ts # {}
       /\ IF op \in {"create", "subcreate"}
          THEN \E t \in Cards : ts = {t} /\ ~card[t].live /\ (t \in Under <=> op = "subcreate")
          ELSE ts \subseteq w.tasks /\ \A t \in ts : card[t].live
       /\ card' = new
       /\ req' = [q \in Requests |->
                    IF q = r THEN [req[r] EXCEPT !.step = "answered", !.over = {},
                                                 !.with = [w EXCEPT !.answer = copies]]
                    ELSE IF Active(q) THEN [req[q] EXCEPT !.over = @ \union {"write"}] ELSE req[q]]
  /\ UNCHANGED <<shown, behind, acts>>

\* Refused, or lost on its way there or back.
Fail(r) ==
  /\ Active(r) /\ req[r].step # "failed"
  /\ req' = [req EXCEPT ![r].step = "failed"]
  /\ UNCHANGED <<card, shown, behind, acts>>

-----------------------------------------------------------------------------
\* The answer comes back.  What the page loads next starts in its place.
Finish(r, parts, next) ==
  LET w == req[r].with IN
  req' = [q \in Requests |->
           IF q = r
           THEN IF next = <<>> THEN Idle
                ELSE [op |-> Head(next), step |-> "sent", over |-> {},
                      with |-> [Call(w.query, {}, First, 1) EXCEPT !.next = Tail(next)]]
           ELSE IF Active(q) THEN [req[q] EXCEPT !.over = @ \union parts] ELSE req[q]]

Patched(rows, new) == [t \in DOMAIN rows |-> IF t \in DOMAIN new THEN new[t] ELSE rows[t]]
Without(rows, ts) == Restrict(rows, DOMAIN rows \ ts)
Overlaid(new, rows) == [t \in DOMAIN new \union DOMAIN rows |-> IF t \in DOMAIN new THEN new[t] ELSE rows[t]]

\* ... answered by the server before something that was written or shown since,
\* or about a query or a view no longer on the screen.
Late(r) == \/ req[r].over \intersect (PartsOf(req[r].op) \union {"write"}) # {}
           \/ req[r].op \in Loads \ {"open", "panel"} /\ req[r].with.query # shown.query
           \/ req[r].op = "chart" /\ shown.view # "gantt"

SamePage(r) == req[r].with.query.site = shown.query.site

\* The board with one more page of a column; the sprint's begins again with the
\* first.
WithMore(w, a) ==
  IF w.page = 1 /\ w.query.site = "sprint"
  THEN [c \in Columns |-> IF c = w.column THEN a ELSE NoBoard]
  ELSE [shown.board EXCEPT ![w.column] =
          [a EXCEPT !.rows = IF w.page = 1 THEN @ ELSE Overlaid(@, shown.board[w.column].rows)]]

Loaded(r) ==
  LET op == req[r].op
      w == req[r].with
      a == w.answer
      fresh == PartsOf(op) \ (IF op \in {"more", "turn"} THEN PartsOf(op) ELSE {})
  IN /\ req[r].step = "answered" /\ op \in Loads
     /\ shown' =
          CASE op = "list" -> [shown EXCEPT !.list = a]
            [] op = "chart" -> [shown EXCEPT !.list = a,
                                             !.chart = IF SamePage(r) THEN a.rows ELSE @]
            [] op = "open" -> [shown EXCEPT !.open = a]
            [] op = "panel" -> [shown EXCEPT !.panel = a]
            [] op = "board" /\ SamePage(r) -> [shown EXCEPT !.board = a]
            [] op = "more" /\ SamePage(r) -> [shown EXCEPT !.board = WithMore(w, a)]
            [] op = "groups" /\ SamePage(r) -> [shown EXCEPT !.groups = a]
            [] op = "turn" /\ SamePage(r) /\ a.rows # NoRows /\ shown.groups[w.column].pages # 0 ->
                 [shown EXCEPT !.groups[w.column] = a]
            [] OTHER -> shown
     /\ behind' = (behind \ fresh) \union (IF Late(r) THEN PartsOf(op) ELSE {})
     /\ Finish(r, PartsOf(op), w.next)
     /\ UNCHANGED <<card, acts>>

IsOpen(ts) == shown.open.task \in ts

\* updateTask writes every copy the context holds, ...
Merged(new) ==
  [shown EXCEPT !.list = [shown.list EXCEPT !.rows = Patched(@, new)], !.panel = Patched(@, new),
                !.open = IF IsOpen(DOMAIN new) THEN [shown.open EXCEPT !.copy = new[shown.open.task]]
                         ELSE [shown.open EXCEPT !.kids = Patched(@, new)]]
\* ... updateTaskStatus, assignTaskAssignees and the bulk edits the list and the
\* open task, ...
MergedRow(new) ==
  [shown EXCEPT !.list = [shown.list EXCEPT !.rows = Patched(@, new)],
                !.open = IF IsOpen(DOMAIN new) THEN [shown.open EXCEPT !.copy = new[shown.open.task]] ELSE @]
\* ... updateSubtask the panel and the open task's children.
MergedKid(new) ==
  [shown EXCEPT !.panel = Patched(@, new), !.open = [shown.open EXCEPT !.kids = Patched(@, new)]]

RemovedRow(ts) ==                                                       \* mutant
  [shown EXCEPT !.list = [shown.list EXCEPT !.rows = Without(@, ts)],
                !.open = IF IsOpen(ts) THEN [shown.open EXCEPT !.task = 0] ELSE @]

Removed(ts) ==
  [shown EXCEPT !.list = [shown.list EXCEPT !.rows = Without(@, ts)], !.panel = Without(@, ts),
                !.open = IF IsOpen(ts) THEN [shown.open EXCEPT !.task = 0, !.kids = NoRows]
                         ELSE [shown.open EXCEPT !.kids = Without(@, ts)]]
RemovedKid(ts) ==
  [shown EXCEPT !.panel = Without(@, ts), !.open = [shown.open EXCEPT !.kids = Without(@, ts)]]

\* A new task is shown when new tasks, the last by rank, belong on this page.  A
\* new subtask joins the panel; the open task's children stay as they were.
Added(new) ==
  IF shown.list.pages <= 1 \/ shown.list.query.page = shown.list.pages
  THEN [shown EXCEPT !.list = [shown.list EXCEPT !.rows = Overlaid(new, @)]] ELSE shown
AddedKid(new) == [shown EXCEPT !.panel = Overlaid(new, @)]

\* The parts of the screen that show tasks and an edit does not write: they keep
\* the old copy until they are loaded again (so does the open task, if it is
\* itself the subtask that was edited in the panel).
Untold(op) ==
  {"chart", "board", "groups"} \union
  (IF op \in {"update", "drag", "create", "delete", "bulkdelete"} THEN {}
   ELSE IF op \in {"status", "assign", "bulk"} THEN {"panel"} ELSE {"list"})

Edited(r) ==
  LET op == req[r].op
      new == req[r].with.answer
  IN /\ req[r].step = "answered" /\ op \notin Loads
     /\ shown' = CASE op \in {"update", "drag"} -> Merged(new)
                   [] op \in {"status", "assign", "bulk"} -> MergedRow(new)
                   [] op = "subupdate" -> MergedKid(new)
                   [] op \in {"delete", "bulkdelete"} -> Removed(DOMAIN new)
                   [] op = "subdelete" -> RemovedKid(DOMAIN new)
                   [] op = "create" -> Added(new)
                   [] op = "subcreate" -> AddedKid(new)
     /\ behind' = behind \union (IF Late(r) THEN PartsOf(op) ELSE {}) \union Untold(op)
                   \union (IF op \in {"subupdate", "subdelete"} /\ IsOpen(DOMAIN new) THEN {"open"} ELSE {})
     /\ Finish(r, PartsOf(op), req[r].with.next)
     /\ UNCHANGED <<card, acts>>

\* A failed load empties the chart or the board; a drag reloads the chart.
Failed(r) ==
  LET op == req[r].op
      w == req[r].with
  IN /\ req[r].step = "failed"
     /\ shown' =
          CASE op = "chart" /\ SamePage(r) -> [shown EXCEPT !.chart = NoRows]
            [] op \in {"board", "more"} /\ SamePage(r) ->
                 [shown EXCEPT !.board = [c \in Columns |-> NoBoard]]
            [] op = "turn" /\ SamePage(r) -> [shown EXCEPT !.groups[w.column].more = FALSE]
            [] OTHER -> shown
     /\ behind' = behind \union PartsOf(op) \union (IF op \in Loads THEN {} ELSE Untold(op))
     /\ Finish(r, PartsOf(op), IF op = "create" THEN <<>> ELSE w.next)
     /\ UNCHANGED <<card, acts>>

UserActs(r) == Choose(r) \/ Again(r) \/ More(r) \/ Turn(r) \/ OpenTask(r) \/ Edit(r)
               \/ EditSubtask(r) \/ Add(r) \/ Drag(r)
ViewStep(r) == UserActs(r) \/ Read(r) \/ Handle(r) \/ Fail(r) \/ Loaded(r) \/ Edited(r) \/ Failed(r)

ViewNext == ((\E r \in Requests : ViewStep(r)) \/ CloseTask) /\ UNCHANGED mix
ViewSpec == HandlersInit /\ ViewInit /\ [][ViewNext]_<<handlerVars, viewVars>>

-----------------------------------------------------------------------------
(***************************************************************************)
(* Once every call has been answered, a part of the screen that was not    *)
(* written out of order shows what was last asked for, as the server holds *)
(* it after all the user did: the list, the open task and its panel follow *)
(* the edits made on them, the chart the drags, and no group stays locked  *)
(* unless its page had emptied.                                            *)
(***************************************************************************)
True(rows) == \A t \in DOMAIN rows : card[t].live /\ rows[t] = Copy(t)
AllAnswered == \A r \in Requests : ~Active(r)
Follows(part) == AllAnswered /\ part \notin behind

ScreenTrue ==
  /\ Follows("list") => /\ True(shown.list.rows)
                        /\ shown.view = "list" => shown.list.query = shown.query
  /\ Follows("open") /\ shown.open.task # 0 =>
       card[shown.open.task].live /\ shown.open.copy = Copy(shown.open.task)
  /\ Follows("panel") => True(shown.panel)
  /\ Follows("chart") /\ shown.view = "gantt" /\ shown.query.site = "project" =>
       shown.chart = Rows(PageOf(Wanted(shown.query), shown.query.page))
  /\ Follows("groups") /\ shown.view = "groups" =>
       \A c \in Columns :
         shown.groups[c].more => PagesOf(InColumn(Wanted(shown.query), c)) < shown.groups[c].pages
  /\ Follows("board") /\ shown.view = "kanban" =>
       \A c \in Columns :
         shown.board[c].rows = Rows(UNION {PageOf(InColumn(OnBoard(shown.query), c), p) :
                                             p \in 1..shown.board[c].page})
=============================================================================
