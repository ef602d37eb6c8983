------------------------------ MODULE TaskPages ------------------------------
(***************************************************************************)
(* Reading a task list page by page, while tasks are created, finished and *)
(* deleted.  The server keeps nothing between two pages: every request     *)
(* counts and sorts anew and cuts its page out by offset.  The lists of    *)
(* TasksService differ in what they show, what they count, and how they    *)
(* cut.                                                                    *)
(*                                                                         *)
(* A task is its number, which grows with its creation time.  A list is    *)
(* sorted by a key no two of its tasks share: sorted by another field, the *)
(* code leaves the order of equal ones to the database.                    *)
(***************************************************************************)
EXTENDS Handlers, SequencesExt

CONSTANTS Numbers,   \* tasks a behaviour can have
          Groups,    \* what a list can be grouped by (priority, type, ...)
          Limit,     \* the size of a page
          Old,       \* the tasks there are when a client starts to read
          MaxRemovals  \* bound on the tasks finished or deleted while it reads

ASSUME PagesAssumption ==
  /\ Numbers \subseteq Nat /\ Groups \subseteq Nat /\ Limit \in Nat \ {0}
  /\ Old \subseteq Numbers /\ \A t \in Old, u \in Numbers \ Old : t < u

VARIABLES
  row,      \* the tasks; plain: neither the reader's own, nor what filters ask for
  recent    \* their numbers, the last one updated first

pageVars == <<row, recent>>
PageOps == {"walk", "newTask", "finishTask", "deleteTask"}

\* What a client asks for: a list, cut in which way, narrowed by filters (of
\* priority, type, person or text), sorted upwards (by rank), and as whom.
Views ==
  [list : {"findAll", "getTasks"}, cut : {"flat", "groups"}, narrow : BOOLEAN, up : {FALSE},
   elevated : {TRUE}, group : {0}]
  \union [list : {"findAll", "getTasks"}, cut : {"rank"}, narrow : BOOLEAN, up : BOOLEAN,
          elevated : {TRUE}, group : {0}]
  \union [list : {"getTasksGrouped"}, cut : {"flat"}, narrow : BOOLEAN, up : {FALSE},
          elevated : {TRUE}, group : Groups]
  \union [list : {"findByOrganization", "findTodaysTasks", "getTasksGroupedByStatus"},
          cut : {"flat"}, narrow : {FALSE}, up : {FALSE}, elevated : BOOLEAN, group : {0}]

Open == {t \in Numbers : row[t].state = "open"}
There == {t \in Numbers : row[t].state \in {"open", "done"}}
Shown(v, t) == v.narrow => ~row[t].plain
Mine(v, t) == v.elevated \/ ~row[t].plain

Absent == [state |-> "none", group |-> CHOOSE g \in Groups : TRUE, plain |-> FALSE]

PagesInit ==
  /\ \E f \in [Old -> [state : {"open"}, group : Groups, plain : BOOLEAN]] :
       row = [t \in Numbers |-> IF t \in Old THEN f[t] ELSE Absent]
  /\ recent = SetToSortSeq(Old, >)

-----------------------------------------------------------------------------
\* The tasks of each list.

\* "By default, only show tasks with non-completed statuses."
FindAllMatch(v) == {t \in Open : Shown(v, t)}

GetTasksMatch(v) == {t \in There : Shown(v, t)}

GroupMatch(v) == {t \in There : Shown(v, t) /\ row[t].group = v.group}

OrganizationMatch(v) == {t \in There : Mine(v, t)}

\* The column of open tasks on a project's board.
ColumnMatch(v) == {t \in Open : Mine(v, t)}

Matching(v) ==
  CASE v.list = "findAll" -> FindAllMatch(v)
    [] v.list = "getTasks" -> GetTasksMatch(v)
    [] v.list = "getTasksGrouped" -> GroupMatch(v)
    [] v.list = "findByOrganization" -> OrganizationMatch(v)
    [] v.list = "findTodaysTasks" -> There
    [] OTHER -> ColumnMatch(v)

-----------------------------------------------------------------------------
\* The pages.  A response: the tasks, their total, the number of pages.

Sorted(S, up) == IF up THEN SetToSortSeq(S, <) ELSE SetToSortSeq(S, >)
Ceil(n) == (n + Limit - 1) \div Limit
Slice(s, n) == LET last == IF n * Limit > Len(s) THEN Len(s) ELSE n * Limit
               IN SubSeq(s, (n - 1) * Limit + 1, last)
Response(tasks, total) == [tasks |-> tasks, total |-> total, pages |-> Ceil(total)]

Flat(S, up, n) == Response(Slice(Sorted(S, up), n), Cardinality(S))

\* Rank order: the page is cut from base, what the SQL query knows of the
\* filters, and only then filtered; the total counts what is left.
Ranked(base, S, up, n) ==
  Response(SelectSeq(Slice(Sorted(base, up), n), LAMBDA t : t \in S), Cardinality(S))

CutGroup(pages, group) ==                                                \* mutant
  IF pages = <<>> THEN <<group>>
  ELSE [pages EXCEPT ![Len(pages)] = SubSeq(@ \o group, 1, Limit)]

\* Groups are not cut: a page takes the next group while it fits, or is empty.
TakeGroup(pages, group) ==
  IF pages # <<>> /\ Len(Last(pages)) + Len(group) <= Limit
    THEN [pages EXCEPT ![Len(pages)] = @ \o group]
    ELSE Append(pages, group)

GroupPages(S, up) ==
  LET runs == {g \in Groups : \E t \in S : row[t].group = g}
      Run(g) == Sorted({t \in S : row[t].group = g}, up)
  IN FoldLeft(LAMBDA pages, g : TakeGroup(pages, Run(g)), <<>>, SetToSortSeq(runs, <))

Grouped(S, up, n) ==
  LET pages == GroupPages(S, up)
  IN [tasks |-> IF n <= Len(pages) THEN pages[n] ELSE <<>>,
      total |-> Cardinality(S), pages |-> Len(pages)]

findAll(v, n) ==
  LET S == FindAllMatch(v) IN
  CASE v.cut = "rank" -> Ranked(Open, S, v.up, n)
    [] v.cut = "groups" -> Grouped(S, v.up, n)
    [] OTHER -> Flat(S, v.up, n)

getTasks(v, n) ==
  LET S == GetTasksMatch(v) IN
  CASE v.cut = "rank" -> Ranked(There, S, v.up, n)
    [] v.cut = "groups" -> Grouped(S, v.up, n)
    [] OTHER -> Flat(S, v.up, n)

\* The first page of a group, and more of it.
getTasksGrouped(v, n) == Flat(GroupMatch(v), FALSE, n)

findByOrganization(v, n) == Flat(OrganizationMatch(v), FALSE, n)

findTodaysTasks(v, n) == Response(Slice(recent, n), Len(recent))

\* The board counts the reader's tasks and shows everybody's.
getTasksGroupedByStatus(v, n) ==
  Response(Slice(Sorted(Open, FALSE), n), Cardinality(ColumnMatch(v)))

Respond(v, n) ==
  CASE v.list = "findAll" -> findAll(v, n)
    [] v.list = "getTasks" -> getTasks(v, n)
    [] v.list = "getTasksGrouped" -> getTasksGrouped(v, n)
    [] v.list = "findByOrganization" -> findByOrganization(v, n)
    [] v.list = "findTodaysTasks" -> findTodaysTasks(v, n)
    [] OTHER -> getTasksGroupedByStatus(v, n)

-----------------------------------------------------------------------------
\* A client reads page after page, as many as the last response says there are.
\* steady: what the list showed at every page so far.
AskWalk(r) ==
  \E v \in Views :
    /\ Ask(r, "walk", "page", [view |-> v, page |-> 1, seen |-> {}, twice |-> FALSE,
                               total |-> 0, steady |-> Matching(v)])
    /\ UNCHANGED pageVars

ReadPage(r) ==
  /\ At(r, "walk", "page")
  /\ LET h == req[r].with
         a == Respond(h.view, h.page)
         shown == ToSet(a.tasks)
     IN GoOn(r, IF h.page < a.pages THEN "page" ELSE "done",
             [h EXCEPT !.page = @ + 1, !.seen = @ \union shown, !.total = a.total,
                       !.twice = @ \/ h.seen \intersect shown # {},
                       !.steady = @ \intersect Matching(h.view)])
  /\ UNCHANGED pageVars

\* Bound: a behaviour is one walk, and what others write while it goes on.
Reading == \E q \in Requests : At(q, "walk", "page")
Calm == Cardinality({t \in Numbers : row[t].state \in {"done", "gone"}}) < MaxRemovals

NewTask(r) ==
  \E t \in Numbers, g \in Groups, plain \in BOOLEAN :
    /\ Reading
    /\ row[t].state = "none" /\ \A u \in Numbers : u < t => row[u].state # "none"
    /\ row' = [row EXCEPT ![t] = [state |-> "open", group |-> g, plain |-> plain]]
    /\ recent' = <<t>> \o recent
    /\ Once(r, "newTask")

FinishTask(r) ==
  \E t \in Open :
    /\ Reading /\ Calm
    /\ row' = [row EXCEPT ![t].state = "done"]
    /\ recent' = <<t>> \o Remove(recent, t)
    /\ Once(r, "finishTask")

DropTask(r) ==
  \E t \in There :
    /\ Reading /\ Calm
    /\ row' = [row EXCEPT ![t].state = "gone"]
    /\ recent' = Remove(recent, t)
    /\ Once(r, "deleteTask")

PageStep(r) == AskWalk(r) \/ ReadPage(r) \/ NewTask(r) \/ FinishTask(r) \/ DropTask(r)

-----------------------------------------------------------------------------
\* The writes that may take an unread task to a page already read.
Shifting(v) == IF v.list \in {"getTasks", "getTasksGrouped", "findByOrganization"}
                 THEN {"deleteTask"} ELSE {"deleteTask", "finishTask"}

\* Lists whose pages are cut from other tasks than they count: ranked ones that
\* are narrowed, and the board as one sees it whose tasks only are counted.
Miscounts(v) == \/ v.cut = "rank" /\ v.narrow
                \/ v.list = "getTasksGroupedByStatus" /\ ~v.elevated

\* Whoever reads a list to its last page has seen every task that was in it
\* throughout, however many were created meanwhile, if none was finished or
\* deleted; and if nothing was created either, has seen each of them once and
\* as many as the total says.
PagesCoverList ==
  \A r \in Requests :
    At(r, "walk", "done") =>
      LET h == req[r].with IN
      /\ Alone(r, Shifting(h.view)) /\ ~Miscounts(h.view) => h.steady \subseteq h.seen
      /\ Alone(r, PageOps) /\ ~Miscounts(h.view) => ~h.twice /\ Cardinality(h.seen) = h.total
=============================================================================
