--------------------------- MODULE TaskView_proofs ---------------------------
(***************************************************************************)
(* For any tasks, pages of the application, calls at a time and acts of    *)
(* the user: once every call has been answered, what a tab shows is what   *)
(* the server holds, in every part that was not written out of order.      *)
(*                                                                         *)
(* A part may be wrong while a call is under way that will put it right or *)
(* record that it did not.  The invariant says for every part which calls  *)
(* these are.                                                              *)
(***************************************************************************)
EXTENDS TaskView, FiniteSetTheorems, WellFoundedInduction, TLAPS

Edits == {"update", "drag", "status", "assign", "bulk", "delete", "bulkdelete", "create",
          "subcreate", "subupdate", "subdelete"}
Creations == {"create", "subcreate"}
Deletions == {"delete", "bulkdelete", "subdelete"}
Calls == Loads \union Edits
Parts == {"list", "open", "panel", "chart", "board", "groups"}

\* What a call may load after its own answer.
Whole == {"list", "chart", "board", "groups"}
Nexts == {<<>>} \union {<<a>> : a \in Whole} \union {<<a, b>> : a, b \in Whole}

Copies == [column : Columns, edit : Nat]
RowsType == UNION {[ts -> Copies] : ts \in SUBSET Cards}
ListType == [query : Queries, rows : RowsType, pages : Nat]
OpenType == [task : Cards \union {0}, copy : Copies, kids : RowsType]
BoardType == [rows : RowsType, page : Nat]
GroupType == [rows : RowsType, page : Nat, pages : Nat, more : BOOLEAN]
ShownType ==
  [query : Queries, view : {"list", "kanban", "gantt", "groups"}, list : ListType, open : OpenType,
   panel : RowsType, chart : RowsType, board : [Columns -> BoardType], groups : [Columns -> GroupType]]

AnswerType(op) ==
  CASE op \in {"list", "chart"} -> ListType
    [] op = "board" -> [Columns -> BoardType]
    [] op = "more" -> BoardType
    [] op = "groups" -> [Columns -> GroupType]
    [] op = "turn" -> GroupType
    [] op = "open" -> OpenType
    [] OTHER -> RowsType
Answers == RowsType \union ListType \union OpenType \union BoardType \union GroupType
           \union [Columns -> BoardType] \union [Columns -> GroupType]
WithType ==
  [query : Queries, tasks : SUBSET Cards, column : Columns, page : Nat \ {0}, answer : Answers, next : Nexts]
CallType ==
  [op : Calls, step : {"sent", "answered", "failed"}, with : WithType, over : SUBSET (Parts \union {"write"})]

\* What the record x of a call holds.
CallOK(x) ==
  x.op \in Calls =>
    /\ x.op \in {"open", "panel"} => \E t \in Cards : x.with.tasks = {t}
    /\ x.step = "sent" => DOMAIN x.with.answer = {}
    /\ x.step = "answered" => x.with.answer \in AnswerType(x.op)
    /\ x.op \in Edits => x.with.answer \in RowsType

ViewTyped ==
  /\ req \in [Requests -> {Idle} \union CallType]
  /\ \A r \in Requests : CallOK(req[r])
  /\ card \in [Cards -> [live : BOOLEAN, column : Columns, edit : Nat]]
  /\ shown \in ShownType /\ behind \subseteq Parts /\ acts \in Nat

-----------------------------------------------------------------------------
\* An answer is what the server would still say, unless it has written since.
StillSo(op, w) ==
  /\ op \in Loads => w.answer = AnswerFor(op, w)
  /\ op = "open" => \A t \in w.tasks : card[t].live
  /\ op \in Edits =>
       \A t \in DOMAIN w.answer :
         IF op \in Deletions THEN ~card[t].live ELSE card[t].live /\ w.answer[t] = Copy(t)
Known(r) ==
  \A op \in Calls, w \in {req[r].with} :
    req[r].op = op /\ req[r].step = "answered" /\ "write" \notin req[r].over => StillSo(op, w)

\* The calls that will put something right, or record that they did not.
Editing == \E r \in Requests : req[r].op \in Edits
Loading(op) == \E r \in Requests : req[r].op = op
Turning(c) == \E r \in Requests : req[r].op = "turn" /\ req[r].with.column = c
Covered(t) == \E r \in Requests : req[r].op \in Edits \ Creations /\ t \in DOMAIN req[r].with.answer

\* A row is right, or an edit of it is on its way back.
Right(t, copy) == card[t].live /\ copy = Copy(t)
RowsHeld(rows) == \A t \in DOMAIN rows : Right(t, rows[t]) \/ Covered(t)

ListHeld == "list" \notin behind => RowsHeld(shown.list.rows)
PanelHeld == "panel" \notin behind => RowsHeld(shown.panel)
OpenHeld ==
  "open" \notin behind /\ shown.open.task # 0 => Right(shown.open.task, shown.open.copy) \/ Covered(shown.open.task)
QueryHeld ==
  "list" \notin behind /\ shown.view = "list" => shown.list.query = shown.query \/ Loading("list")

ChartRight == shown.chart = Rows(PageOf(Wanted(shown.query), shown.query.page))
ChartHeld ==
  "chart" \notin behind /\ shown.view = "gantt" /\ shown.query.site = "project" =>
    ChartRight \/ Loading("chart") \/ Editing

BoardRight(c) ==
  shown.board[c].rows = Rows(UNION {PageOf(InColumn(OnBoard(shown.query), c), p) : p \in 1..shown.board[c].page})
BoardHeld ==
  "board" \notin behind /\ shown.view = "kanban" =>
    (\A c \in Columns : BoardRight(c)) \/ Loading("board") \/ Editing
MoreOK(r) ==
  req[r].op = "more" /\ "board" \notin req[r].over /\ "board" \notin behind =>
    req[r].with.page \in {1, shown.board[req[r].with.column].page + 1}

GroupRight(c) ==
  shown.groups[c].more => PagesOf(InColumn(Wanted(shown.query), c)) < shown.groups[c].pages
GroupsHeld ==
  "groups" \notin behind /\ shown.view = "groups" =>
    (\A c \in Columns : GroupRight(c) \/ Turning(c)) \/ Loading("groups") \/ Editing
TurnOK(r) ==
  req[r].op = "turn" /\ "groups" \notin req[r].over /\ "groups" \notin behind =>
    req[r].with.page <= shown.groups[req[r].with.column].pages

CallsHeld == \A r \in Requests : Known(r) /\ MoreOK(r) /\ TurnOK(r)

ViewInv ==
  /\ ViewTyped /\ CallsHeld /\ ListHeld /\ PanelHeld /\ OpenHeld /\ QueryHeld
  /\ ChartHeld /\ BoardHeld /\ GroupsHeld

-----------------------------------------------------------------------------
\* Rows.
LEMMA Facts ==
  /\ Cards \subseteq Nat /\ 0 \notin Cards /\ IsFiniteSet(Cards) /\ Under \subseteq Cards
  /\ First \in Columns /\ PerPage \in Nat /\ PerPage >= 1
  /\ Top \in Cards \ Under /\ Top \notin Unmade
<1>1. PICK t \in Cards \ (Under \union Unmade) : \A u \in Cards \ Under : t <= u
  BY ViewAssumption
<1>2. Top \in Cards \ Under /\ \A u \in Cards \ Under : Top <= u
  BY <1>1, Zenon DEF Top
<1>3. Cards \subseteq Nat /\ 0 \notin Cards
  BY ViewAssumption
<1>4. Top = t
  BY <1>1, <1>2, <1>3
<1> QED
  BY <1>1, <1>2, <1>3, <1>4, ViewAssumption

LEMMA RowsAre ==
  /\ \A x \in RowsType : DOMAIN x \subseteq Cards /\ x \in [DOMAIN x -> Copies]
  /\ \A S \in SUBSET Cards : \A x \in [S -> Copies] : x \in RowsType
<1>1. ASSUME NEW x \in RowsType PROVE DOMAIN x \subseteq Cards /\ x \in [DOMAIN x -> Copies]
  <2>1. PICK S \in SUBSET Cards : x \in [S -> Copies]
    BY DEF RowsType
  <2> QED
    BY <2>1
<1> QED
  BY <1>1 DEF RowsType

CardsTyped == card \in [Cards -> [live : BOOLEAN, column : Columns, edit : Nat]]

LEMMA RowsOf ==
  ASSUME CardsTyped, NEW ts \in SUBSET Cards
  PROVE  Rows(ts) \in RowsType /\ DOMAIN Rows(ts) = ts /\ \A t \in ts : Rows(ts)[t] = Copy(t)
<1>1. DOMAIN Rows(ts) = ts /\ \A t \in ts : Rows(ts)[t] = Copy(t)
  BY DEF Rows
<1>2. \A t \in ts : Copy(t) \in Copies
  BY DEF CardsTyped, Copy, Copies
<1>3. Rows(ts) \in [ts -> Copies]
  BY <1>2 DEF Rows
<1> QED
  BY <1>1, <1>3, RowsAre

LEMMA NoRowsIs == NoRows \in RowsType /\ DOMAIN NoRows = {}
<1>1. NoRows \in [{} -> Copies] /\ DOMAIN NoRows = {}
  BY DEF NoRows, Rows
<1> QED
  BY <1>1, RowsAre

LEMMA PatchedRows ==
  ASSUME NEW rows \in RowsType, NEW new \in RowsType
  PROVE  /\ Patched(rows, new) \in RowsType /\ DOMAIN Patched(rows, new) = DOMAIN rows
         /\ \A t \in DOMAIN rows :
              Patched(rows, new)[t] = IF t \in DOMAIN new THEN new[t] ELSE rows[t]
<1>1. /\ DOMAIN rows \in SUBSET Cards /\ rows \in [DOMAIN rows -> Copies]
      /\ new \in [DOMAIN new -> Copies]
  BY RowsAre
<1>2. Patched(rows, new) \in [DOMAIN rows -> Copies]
  BY <1>1 DEF Patched
<1>3. Patched(rows, new) \in RowsType
  BY <1>1, <1>2, RowsAre
<1> QED
  BY <1>3 DEF Patched

LEMMA WithoutRows ==
  ASSUME NEW rows \in RowsType, NEW ts
  PROVE  /\ Without(rows, ts) \in RowsType /\ DOMAIN Without(rows, ts) = DOMAIN rows \ ts
         /\ \A t \in DOMAIN rows \ ts : Without(rows, ts)[t] = rows[t]
<1>1. DOMAIN rows \in SUBSET Cards /\ rows \in [DOMAIN rows -> Copies]
  BY RowsAre
<1>2. Without(rows, ts) = [t \in DOMAIN rows \ ts |-> rows[t]]
  BY DEF Without, Restrict
<1>3. Without(rows, ts) \in [DOMAIN rows \ ts -> Copies] /\ DOMAIN rows \ ts \in SUBSET Cards
  BY <1>1, <1>2
<1>4. Without(rows, ts) \in RowsType
  BY <1>3, RowsAre
<1> QED
  BY <1>2, <1>4

LEMMA OverlaidRows ==
  ASSUME NEW rows \in RowsType, NEW new \in RowsType
  PROVE  /\ Overlaid(new, rows) \in RowsType /\ DOMAIN Overlaid(new, rows) = DOMAIN new \union DOMAIN rows
         /\ \A t \in DOMAIN Overlaid(new, rows) :
              Overlaid(new, rows)[t] = IF t \in DOMAIN new THEN new[t] ELSE rows[t]
<1>1. /\ DOMAIN rows \in SUBSET Cards /\ rows \in [DOMAIN rows -> Copies]
      /\ DOMAIN new \in SUBSET Cards /\ new \in [DOMAIN new -> Copies]
  BY RowsAre
<1>2. Overlaid(new, rows) \in [DOMAIN new \union DOMAIN rows -> Copies]
  BY <1>1 DEF Overlaid
<1>3. DOMAIN new \union DOMAIN rows \in SUBSET Cards
  BY <1>1
<1>4. Overlaid(new, rows) \in RowsType
  BY <1>2, <1>3, RowsAre
<1> QED
  BY <1>4 DEF Overlaid

-----------------------------------------------------------------------------
\* What the server answers.
LEMMA Served ==
  ASSUME CardsTyped
  PROVE  /\ \A q : Wanted(q) \in SUBSET Cards /\ \A t \in Wanted(q) : card[t].live
         /\ \A ts, p : PageOf(ts, p) \subseteq ts
         /\ \A ts, c : InColumn(ts, c) \subseteq ts
         /\ \A q : OnBoard(q) \in SUBSET Cards
         /\ \A t : Kids(t) \in SUBSET Cards /\ \A u \in Kids(t) : card[u].live
         /\ \A ts \in SUBSET Cards : PagesOf(ts) \in Nat
<1>1. \A q : Wanted(q) \in SUBSET Cards /\ \A t \in Wanted(q) : card[t].live
  BY DEF Wanted
<1>2. ASSUME NEW ts \in SUBSET Cards PROVE PagesOf(ts) \in Nat
  <2>1. Cardinality(ts) \in Nat
    BY Facts, FS_Subset, FS_CardinalityType
  <2>2. Cardinality(ts) + PerPage - 1 \in Nat
    BY <2>1, Facts
  <2>3. \A n \in Nat, k \in Nat : k >= 1 => n \div k \in Nat
    BY Z3
  <2> QED
    BY <2>2, <2>3, Facts DEF PagesOf
<1> QED
  BY <1>1, <1>2, Facts, Zenon DEF PageOf, InColumn, OnBoard, Kids

LEMMA QueryFacts ==
  ASSUME NEW q \in Queries
  PROVE  /\ Unfiltered(q) \in Queries /\ q.site \in DOMAIN Scope /\ q.page \in Nat \ {0}
         /\ Unfiltered(q).site = q.site /\ Unfiltered(q).only = {}
<1>1. q.site \in DOMAIN Scope /\ q.page \in {1, 2}
  BY DEF Queries
<1>2. Unfiltered(q) = [q EXCEPT !.only = {}]
  BY DEF Unfiltered
<1>3. Unfiltered(q) \in Queries /\ Unfiltered(q).site = q.site /\ Unfiltered(q).only = {}
  BY <1>2 DEF Queries
<1> QED
  BY <1>1, <1>3

LEMMA ListForType ==
  ASSUME CardsTyped, NEW q \in Queries
  PROVE  /\ ListFor(q) \in ListType /\ ListFor(q).query = q
         /\ ListFor(q).rows = Rows(PageOf(Wanted(q), q.page))
         /\ \A t \in DOMAIN ListFor(q).rows : Right(t, ListFor(q).rows[t])
<1>1. PICK ts \in SUBSET Cards : ts = PageOf(Wanted(q), q.page) /\ ts \subseteq Wanted(q)
  BY Served
<1>2. PagesOf(Wanted(q)) \in Nat
  BY Served
<1>3. ListFor(q) = [query |-> q, rows |-> Rows(ts), pages |-> PagesOf(Wanted(q))]
  BY <1>1 DEF ListFor
<1>4. ListFor(q).rows = Rows(ts) /\ ListFor(q).query = q
  BY <1>3
<1>5. \A t \in ts : card[t].live
  BY <1>1, Served
<1>6. Rows(ts) \in RowsType /\ DOMAIN Rows(ts) = ts /\ \A t \in ts : Rows(ts)[t] = Copy(t)
  BY RowsOf
<1>7. ListFor(q) \in ListType
  BY <1>2, <1>3, <1>6 DEF ListType
<1> QED
  BY <1>1, <1>4, <1>5, <1>6, <1>7 DEF Right

LEMMA BoardForType ==
  ASSUME CardsTyped, NEW q \in Queries, NEW c \in Columns, NEW p \in Nat
  PROVE  /\ BoardFor(q, c, p) \in BoardType /\ BoardFor(q, c, p).page = p
         /\ BoardFor(q, c, p).rows = Rows(PageOf(InColumn(OnBoard(q), c), p))
<1>1. PICK ts \in SUBSET Cards : ts = PageOf(InColumn(OnBoard(q), c), p)
  BY Served
<1>2. BoardFor(q, c, p) = [rows |-> Rows(ts), page |-> p] /\ Rows(ts) \in RowsType
  BY <1>1, RowsOf DEF BoardFor
<1> QED
  BY <1>1, <1>2 DEF BoardType

LEMMA GroupForType ==
  ASSUME CardsTyped, NEW q \in Queries, NEW c \in Columns, NEW p \in Nat
  PROVE  /\ GroupFor(q, c, p) \in GroupType /\ ~GroupFor(q, c, p).more
         /\ GroupFor(q, c, p).rows = Rows(PageOf(InColumn(Wanted(q), c), p))
<1>1. PICK us \in SUBSET Cards : us = InColumn(Wanted(q), c)
  BY Served
<1>2. PICK ts \in SUBSET Cards : ts = PageOf(us, p)
  BY <1>1, Served
<1>3. /\ GroupFor(q, c, p) = [rows |-> Rows(ts), page |-> p, pages |-> PagesOf(us), more |-> FALSE]
      /\ Rows(ts) \in RowsType /\ PagesOf(us) \in Nat
  BY <1>1, <1>2, RowsOf, Served DEF GroupFor
<1> QED
  BY <1>1, <1>2, <1>3 DEF GroupType

LEMMA OpenForType ==
  ASSUME CardsTyped, NEW t \in Cards
  PROVE  [task |-> t, copy |-> Copy(t), kids |-> Rows(Kids(t))] \in OpenType
<1>1. Copy(t) \in Copies
  BY DEF CardsTyped, Copy, Copies
<1>2. Kids(t) \in SUBSET Cards
  BY Served
<1>3. Rows(Kids(t)) \in RowsType
  BY <1>2, RowsOf
<1> QED
  BY <1>1, <1>3 DEF OpenType

LEMMA NoParts ==
  NoBoard \in BoardType /\ NoBoard.page = 0 /\ NoBoard.rows = NoRows /\ NoGroup \in GroupType /\ ~NoGroup.more
BY NoRowsIs DEF NoBoard, NoGroup, BoardType, GroupType

-----------------------------------------------------------------------------
\* Operations and the parts they write.
LEMMA Operations ==
  /\ Loads \intersect Edits = {} /\ "idle" \notin Calls /\ Whole \subseteq Loads
  /\ Creations \subseteq Edits /\ Deletions \subseteq Edits
  /\ \A op \in Calls : PartsOf(op) \subseteq Parts
  /\ PartsOf("list") = {"list"} /\ PartsOf("chart") = {"list", "chart"} /\ PartsOf("board") = {"board"}
  /\ PartsOf("more") = {"board"} /\ PartsOf("groups") = {"groups"} /\ PartsOf("turn") = {"groups"}
  /\ PartsOf("open") = {"open"} /\ PartsOf("panel") = {"panel"}
BY DEF Loads, Edits, Calls, Whole, Creations, Deletions, PartsOf, Parts

LEMMA EditParts ==
  /\ \A op \in Edits :
       /\ Untold(op) \subseteq Parts /\ {"chart", "board", "groups"} \subseteq Untold(op)
       /\ {"chart", "board", "groups"} \intersect PartsOf(op) = {}
       /\ "list" \in PartsOf(op) <=> op \notin {"subupdate", "subdelete", "subcreate"}
       /\ "list" \in Untold(op) <=> op \in {"subupdate", "subdelete", "subcreate"}
       /\ "panel" \in PartsOf(op) <=> op \notin {"status", "assign", "bulk", "create"}
       /\ "panel" \in Untold(op) <=> op \in {"status", "assign", "bulk"}
       /\ "open" \in PartsOf(op) <=> op # "create"
       /\ "open" \notin Untold(op)
<1>1. ASSUME NEW op \in {"update", "drag", "delete", "bulkdelete"}
      PROVE  PartsOf(op) = {"list", "panel", "open"} /\ Untold(op) = {"chart", "board", "groups"}
  BY DEF PartsOf, Untold
<1>2. ASSUME NEW op \in {"status", "assign", "bulk"}
      PROVE  PartsOf(op) = {"list", "open"} /\ Untold(op) = {"chart", "board", "groups", "panel"}
  BY DEF PartsOf, Untold
<1>3. ASSUME NEW op \in {"subupdate", "subdelete", "subcreate"}
      PROVE  PartsOf(op) = {"panel", "open"} /\ Untold(op) = {"chart", "board", "groups", "list"}
  BY DEF PartsOf, Untold
<1>4. PartsOf("create") = {"list"} /\ Untold("create") = {"chart", "board", "groups"}
  BY DEF PartsOf, Untold
<1> QED
  BY <1>1, <1>2, <1>3, <1>4 DEF Edits, Parts

LEMMA AnswerTypes ==
  /\ \A op : AnswerType(op) \in {ListType, [Columns -> BoardType], BoardType, [Columns -> GroupType],
                                GroupType, OpenType, RowsType}
  /\ AnswerType("list") = ListType /\ AnswerType("chart") = ListType
  /\ AnswerType("board") = [Columns -> BoardType] /\ AnswerType("more") = BoardType
  /\ AnswerType("groups") = [Columns -> GroupType] /\ AnswerType("turn") = GroupType
  /\ AnswerType("open") = OpenType /\ AnswerType("panel") = RowsType
  /\ \A op \in Edits : AnswerType(op) = RowsType
<1>1. \A op \in Edits : op \notin {"list", "chart", "board", "more", "groups", "turn", "open"}
  BY DEF Edits
<1> QED
  BY <1>1, Zenon DEF AnswerType

LEMMA AnAnswer == \A op : AnswerType(op) \subseteq Answers
<1>1. ASSUME NEW S \in {ListType, [Columns -> BoardType], BoardType, [Columns -> GroupType],
                        GroupType, OpenType, RowsType}
      PROVE  S \subseteq Answers
  BY Zenon DEF Answers
<1> QED
  BY <1>1, AnswerTypes, Zenon

LEMMA AnswerForIs ==
  ASSUME NEW w
  PROVE  /\ AnswerFor("list", w) = ListFor(w.query) /\ AnswerFor("chart", w) = ChartFor(w.query)
         /\ AnswerFor("board", w) = [c \in Columns |-> BoardFor(w.query, c, 1)]
         /\ AnswerFor("more", w) = BoardFor(w.query, w.column, w.page)
         /\ AnswerFor("groups", w) = [c \in Columns |-> GroupFor(w.query, c, 1)]
         /\ AnswerFor("turn", w) = GroupFor(w.query, w.column, w.page)
         /\ \A t : w.tasks = {t} =>
              AnswerFor("open", w) = [task |-> t, copy |-> Copy(t), kids |-> Rows(Kids(t))]
         /\ AnswerFor("panel", w) = Rows(Kids(Top))
<1>1. ASSUME NEW t, w.tasks = {t} PROVE (CHOOSE u \in w.tasks : TRUE) = t
  BY <1>1
<1>2. AnswerFor("panel", w) = Rows(Kids(Top))
  BY DEF AnswerFor
<1>3. /\ AnswerFor("list", w) = ListFor(w.query) /\ AnswerFor("chart", w) = ChartFor(w.query)
      /\ AnswerFor("board", w) = [c \in Columns |-> BoardFor(w.query, c, 1)]
      /\ AnswerFor("more", w) = BoardFor(w.query, w.column, w.page)
  BY DEF AnswerFor
<1>4. /\ AnswerFor("groups", w) = [c \in Columns |-> GroupFor(w.query, c, 1)]
      /\ AnswerFor("turn", w) = GroupFor(w.query, w.column, w.page)
  BY DEF AnswerFor
<1>5. LET t == CHOOSE u \in w.tasks : TRUE
      IN AnswerFor("open", w) = [task |-> t, copy |-> Copy(t), kids |-> Rows(Kids(t))]
  BY DEF AnswerFor
<1> QED
  BY <1>1, <1>2, <1>3, <1>4, <1>5

LEMMA ChartForIs ==
  ASSUME NEW q \in Queries
  PROVE  \E u \in Queries : ChartFor(q) = ListFor(u) /\ (q.site # "workspace" => u = q)
<1>1. Unfiltered(q) \in Queries
  BY QueryFacts
<1> QED
  BY <1>1 DEF ChartFor

LEMMA AnswerForType ==
  ASSUME CardsTyped, NEW op \in Loads, NEW w \in WithType,
         op \in {"open", "panel"} => \E t \in Cards : w.tasks = {t}
  PROVE  AnswerFor(op, w) \in AnswerType(op) /\ AnswerFor(op, w) \in Answers
<1>1. w.query \in Queries /\ w.column \in Columns /\ w.page \in Nat
  BY DEF WithType
<1>2. 1 \in Nat
  OBVIOUS
<1>3. AnswerFor(op, w) \in AnswerType(op)
  <2>1. CASE op = "list"
    BY <1>1, <2>1, AnswerForIs, AnswerTypes, ListForType, Zenon
  <2>2. CASE op = "chart"
    <3>1. PICK u \in Queries : ChartFor(w.query) = ListFor(u)
      BY <1>1, ChartForIs, Zenon
    <3> QED
      BY <2>2, <3>1, AnswerForIs, AnswerTypes, ListForType, Zenon
  <2>3. CASE op = "board"
    <3>1. [c \in Columns |-> BoardFor(w.query, c, 1)] \in [Columns -> BoardType]
      BY <1>1, <1>2, BoardForType
    <3> QED
      BY <2>3, <3>1, AnswerForIs, AnswerTypes, Zenon
  <2>4. CASE op = "more"
    <3>1. BoardFor(w.query, w.column, w.page) \in BoardType
      BY <1>1, BoardForType, Zenon
    <3> QED
      BY <2>4, <3>1, AnswerForIs, AnswerTypes, Zenon
  <2>5. CASE op = "groups"
    <3>1. [c \in Columns |-> GroupFor(w.query, c, 1)] \in [Columns -> GroupType]
      BY <1>1, <1>2, GroupForType
    <3> QED
      BY <2>5, <3>1, AnswerForIs, AnswerTypes, Zenon
  <2>6. CASE op = "turn"
    <3>1. GroupFor(w.query, w.column, w.page) \in GroupType
      BY <1>1, GroupForType, Zenon
    <3> QED
      BY <2>6, <3>1, AnswerForIs, AnswerTypes, Zenon
  <2>7. CASE op = "open"
    <3>1. PICK t \in Cards : w.tasks = {t}
      BY <2>7
    <3>2. [task |-> t, copy |-> Copy(t), kids |-> Rows(Kids(t))] \in OpenType
      BY OpenForType
    <3>3. AnswerFor("open", w) = [task |-> t, copy |-> Copy(t), kids |-> Rows(Kids(t))]
      BY <3>1, AnswerForIs, Zenon
    <3> QED
      BY <2>7, <3>2, <3>3, AnswerTypes
  <2>8. CASE op = "panel"
    <3>1. Kids(Top) \in SUBSET Cards
      BY Served
    <3>2. Rows(Kids(Top)) \in RowsType
      BY <3>1, RowsOf, Zenon
    <3> QED
      BY <2>8, <3>2, AnswerForIs, AnswerTypes, Zenon
  <2> QED
    BY <2>1, <2>2, <2>3, <2>4, <2>5, <2>6, <2>7, <2>8 DEF Loads
<1> QED
  BY <1>3, AnAnswer, Zenon

\* While the tasks stay, so does what the server says of them.
LEMMA SameCards ==
  ASSUME card' = card
  PROVE  /\ CardsTyped' <=> CardsTyped
         /\ \A op, w : AnswerFor(op, w)' = AnswerFor(op, w)
         /\ \A t : Copy(t)' = Copy(t)
         /\ \A t, c : Right(t, c)' <=> Right(t, c)
         /\ \A q : Wanted(q)' = Wanted(q) /\ OnBoard(q)' = OnBoard(q)
         /\ \A ts, c : InColumn(ts, c)' = InColumn(ts, c)
         /\ \A ts : Rows(ts)' = Rows(ts)
<1>1. CardsTyped' <=> CardsTyped
  BY DEF CardsTyped
<1>2. \A t : Copy(t)' = Copy(t)
  BY DEF Copy
<1>3. \A q : Wanted(q)' = Wanted(q)
  BY DEF Wanted
<1>4. \A q : OnBoard(q)' = OnBoard(q)
  BY <1>3 DEF OnBoard
<1>5. \A ts, c : InColumn(ts, c)' = InColumn(ts, c)
  BY DEF InColumn
<1>6. \A ts : Rows(ts)' = Rows(ts)
  BY DEF Rows, Copy
<1>7. \A t : Kids(t)' = Kids(t)
  BY DEF Kids
<1>8. \A q : ListFor(q)' = ListFor(q)
  BY <1>3, <1>6 DEF ListFor
<1>9. \A q : ChartFor(q)' = ChartFor(q)
  BY <1>8 DEF ChartFor
<1>10. \A q, c, p : BoardFor(q, c, p)' = BoardFor(q, c, p) /\ GroupFor(q, c, p)' = GroupFor(q, c, p)
  BY <1>3, <1>4, <1>5, <1>6 DEF BoardFor, GroupFor
<1>11. \A op, w : AnswerFor(op, w)' = AnswerFor(op, w)
  BY <1>2, <1>6, <1>7, <1>8, <1>9, <1>10 DEF AnswerFor
<1>12. \A t, c : Right(t, c)' <=> Right(t, c)
  BY <1>2 DEF Right
<1> QED
  BY <1>1, <1>2, <1>3, <1>4, <1>5, <1>6, <1>11, <1>12

-----------------------------------------------------------------------------
\* Pages.
Before(S, t) == {u \in S : u < t}

LEMMA Counts ==
  ASSUME NEW S \in SUBSET Cards
  PROVE  IsFiniteSet(S) /\ Cardinality(S) \in Nat
BY Facts, FS_Subset, FS_CardinalityType

LEMMA FewerBefore ==
  ASSUME NEW S \in SUBSET Cards, NEW T \in SUBSET S, NEW x \in S, x \notin T
  PROVE  Cardinality(T) < Cardinality(S)
<1>1. IsFiniteSet(S) /\ Cardinality(S) \in Nat /\ Cardinality(T) \in Nat
  BY Counts
<1>2. Cardinality(T) <= Cardinality(S) /\ (Cardinality(S) = Cardinality(T) => S = T)
  BY <1>1, FS_Subset
<1> QED
  BY <1>1, <1>2

LEMMA PlaceType ==
  ASSUME NEW S \in SUBSET Cards, NEW t \in S
  PROVE  Cardinality(Before(S, t)) \in Nat /\ Cardinality(Before(S, t)) < Cardinality(S)
<1>1. t \in Nat
  BY Facts
<1>2. Before(S, t) \in SUBSET S /\ t \notin Before(S, t)
  BY <1>1 DEF Before
<1> QED
  BY <1>2, FewerBefore, Counts

LEMMA InOrder ==
  ASSUME NEW S \in SUBSET Cards, NEW a \in S, NEW b \in S, a < b
  PROVE  Cardinality(Before(S, a)) < Cardinality(Before(S, b))
<1>1. a \in Nat /\ b \in Nat /\ \A u \in S : u \in Nat
  BY Facts
<1>2. \A u \in S : u < a => u < b
  BY <1>1
<1>3. Before(S, b) \in SUBSET Cards /\ Before(S, a) \in SUBSET Before(S, b)
  BY <1>2 DEF Before
<1>4. a \in Before(S, b) /\ a \notin Before(S, a)
  BY <1>1 DEF Before
<1> QED
  BY <1>3, <1>4, FewerBefore

\* Tasks have places of their own, so every place below their number is taken.
LEMMA EveryPlace ==
  ASSUME NEW S \in SUBSET Cards, NEW n \in Nat, n < Cardinality(S)
  PROVE  \E t \in S : Cardinality(Before(S, t)) = n
<1>1. PICK N \in Nat : N = Cardinality(S)
  BY Counts
<1>2. PICK c \in Int : c = N - 1
  BY <1>1
<1>3. PICK f : f = [t \in S |-> Cardinality(Before(S, t))]
  OBVIOUS
<1> DEFINE T == 0 .. c
<1>4. IsFiniteSet(T) /\ Cardinality(T) = IF 0 > c THEN 0 ELSE c - 0 + 1
  <2>1. 0 \in Int
    OBVIOUS
  <2> QED
    BY <2>1, FS_Interval, Zenon
<1>5. Cardinality(T) = N /\ n \in T
  BY <1>1, <1>2, <1>4
<1>6. \A t \in S : f[t] \in T
  BY <1>1, <1>2, <1>3, PlaceType
<1>7. f \in [S -> T]
  BY <1>3, <1>6
<1>8. ASSUME NEW a \in S, NEW b \in S, f[a] = f[b] PROVE a = b
  <2>1. a \in Nat /\ b \in Nat /\ f[a] \in Nat /\ f[b] \in Nat
    BY <1>3, Facts, PlaceType
  <2>2. ~(a < b) /\ ~(b < a)
    BY <1>3, <1>8, <2>1, InOrder
  <2> QED
    BY <2>1, <2>2
<1> HIDE DEF T
<1>9. f \in Injection(S, T)
  BY <1>7, <1>8 DEF Injection, IsInjective
<1>10. f \in Surjection(S, T)
  BY <1>1, <1>4, <1>5, <1>9, Counts, FS_Injection
<1>11. \E t \in S : f[t] = n
  BY <1>5, <1>10 DEF Surjection
<1> QED
  BY <1>3, <1>11

\* A page that is empty is past the last.
LEMMA PastTheLast ==
  ASSUME NEW S \in SUBSET Cards, NEW p \in Nat, p >= 1, PageOf(S, p) = {}
  PROVE  PagesOf(S) < p
<1>1. PICK N \in Nat : N = Cardinality(S)
  BY Counts
<1>2. PICK P \in Nat : P = PerPage /\ P >= 1
  BY Facts
<1>3. PagesOf(S) = (N + P - 1) \div P
  BY <1>1, <1>2 DEF PagesOf
<1>4. PICK n \in Nat : n = (p - 1) * P /\ n \div P = p - 1
  <2>1. PICK k \in Nat : k = p - 1
    OBVIOUS
  <2>2. k * P \in Nat /\ (k * P) \div P = k
    BY <1>2, <2>1, Z3
  <2> QED
    BY <2>1, <2>2
<1>5. ~(n < N)
  <2>1. ASSUME n < N PROVE FALSE
    <3>1. PICK t \in S : Cardinality(Before(S, t)) = n
      BY <1>1, <2>1, EveryPlace
    <3>2. t \in PageOf(S, p)
      BY <1>2, <1>4, <3>1 DEF PageOf, Before
    <3> QED
      BY <3>2
  <2> QED
    BY <2>1
<1>6. (N + P - 1) \div P < p
  <2>1. N <= (p - 1) * P
    BY <1>4, <1>5
  <2>2. (p - 1) * P = p * P - P /\ p * P \in Nat
    BY <1>2, Z3
  <2>3. PICK m \in Nat : m = N + P - 1
    BY <1>2
  <2>4. PICK k \in Nat : k = p * P
    BY <2>2
  <2>5. m < k
    BY <1>2, <2>1, <2>2, <2>3, <2>4
  <2>6. m < p * P => m \div P < p
    BY <1>2, <2>3, Z3
  <2> QED
    BY <2>3, <2>4, <2>5, <2>6
<1> QED
  BY <1>3, <1>6

-----------------------------------------------------------------------------
\* Calls.  What a step does to those it does not serve:
Others(r) ==
  \A q \in Requests \ {r} :
    /\ req'[q].op = req[q].op /\ req'[q].step = req[q].step /\ req'[q].with = req[q].with
    /\ req[q].over \subseteq req'[q].over

\* Only the call that ended no longer excuses what it excused ...
LEMMA Excuses ==
  ASSUME NEW r \in Requests, Others(r)
  PROVE  /\ Editing => Editing' \/ req[r].op \in Edits
         /\ \A op : Loading(op) => Loading(op)' \/ req[r].op = op
         /\ \A c : Turning(c) => Turning(c)' \/ (req[r].op = "turn" /\ req[r].with.column = c)
         /\ \A t : Covered(t) =>
              Covered(t)' \/ (req[r].op \in Edits \ Creations /\ t \in DOMAIN req[r].with.answer)
<1>1. Editing => Editing' \/ req[r].op \in Edits
  BY DEF Editing, Others
<1>2. \A op : Loading(op) => Loading(op)' \/ req[r].op = op
  BY DEF Loading, Others
<1>3. \A c : Turning(c) => Turning(c)' \/ (req[r].op = "turn" /\ req[r].with.column = c)
  BY DEF Turning, Others
<1>4. \A t : Covered(t) =>
        Covered(t)' \/ (req[r].op \in Edits \ Creations /\ t \in DOMAIN req[r].with.answer)
  BY DEF Covered, Others
<1> QED
  BY <1>1, <1>2, <1>3, <1>4

\* ... and nothing is lost where none has.
Goes(r) ==
  \/ req[r].op = "idle"
  \/ /\ req'[r].op = req[r].op /\ req'[r].with.column = req[r].with.column
     /\ req[r].op \in Edits => DOMAIN req[r].with.answer \subseteq DOMAIN req'[r].with.answer

Excused ==
  /\ Editing => Editing'
  /\ \A op \in Calls : Loading(op) => Loading(op)'
  /\ \A c : Turning(c) => Turning(c)'
  /\ \A t : Covered(t) => Covered(t)'

LEMMA StillExcused ==
  ASSUME NEW r \in Requests, Others(r), Goes(r)
  PROVE  Excused
<1>1. CASE req[r].op = "idle"
  <2>1. req[r].op \notin Edits /\ req[r].op \notin Calls /\ req[r].op # "turn"
    BY <1>1 DEF Edits, Calls, Loads
  <2> QED
    BY <2>1, Excuses DEF Excused
<1>2. CASE req[r].op # "idle"
  <2>1. /\ req'[r].op = req[r].op /\ req'[r].with.column = req[r].with.column
        /\ req[r].op \in Edits => DOMAIN req[r].with.answer \subseteq DOMAIN req'[r].with.answer
    BY <1>2 DEF Goes
  <2>2. req[r].op \in Edits => Editing'
    BY <2>1 DEF Editing
  <2>3. \A op : req[r].op = op => Loading(op)'
    BY <2>1 DEF Loading
  <2>4. \A c : req[r].op = "turn" /\ req[r].with.column = c => Turning(c)'
    BY <2>1 DEF Turning
  <2>5. \A t : req[r].op \in Edits \ Creations /\ t \in DOMAIN req[r].with.answer => Covered(t)'
    BY <2>1 DEF Covered
  <2> QED
    BY <2>2, <2>3, <2>4, <2>5, Excuses DEF Excused
<1> QED
  BY <1>1, <1>2

\* What another call knows stays known, unless there is a write.
LEMMA KnownKept ==
  ASSUME NEW r \in Requests, Others(r), NEW q \in Requests \ {r}, Known(q),
         card' = card \/ (req[q].op # "idle" => "write" \in req'[q].over)
  PROVE  Known(q)'
<1>1. /\ req'[q].op = req[q].op /\ req'[q].step = req[q].step /\ req'[q].with = req[q].with
      /\ req[q].over \subseteq req'[q].over
  BY DEF Others
<1> SUFFICES ASSUME NEW op \in Calls, NEW w, w = req[q].with, req[q].op = op, req[q].step = "answered",
                    "write" \notin req'[q].over
             PROVE  StillSo(op, w)'
  BY <1>1 DEF Known
<1>2. card' = card
  BY Operations
<1>3. "write" \notin req[q].over
  BY <1>1
<1>4. /\ AnswerFor(op, w)' = AnswerFor(op, w)
      /\ \A t : Copy(t)' = Copy(t)
  BY <1>2, SameCards
<1>5. StillSo(op, w)
  BY <1>3 DEF Known
<1> QED
  BY <1>2, <1>4, <1>5 DEF StillSo

-----------------------------------------------------------------------------
\* What a step leaves right that does not write it.
LEMMA ListSame ==
  ASSUME ListHeld, card' = card, \A t : Covered(t) => Covered(t)',
         "list" \in behind => "list" \in behind', shown'.list.rows = shown.list.rows
  PROVE  ListHeld'
<1>1. \A t : Copy(t)' = Copy(t)
  BY SameCards
<1> QED
  BY <1>1 DEF ListHeld, RowsHeld, Right

LEMMA PanelSame ==
  ASSUME PanelHeld, card' = card, \A t : Covered(t) => Covered(t)',
         "panel" \in behind => "panel" \in behind', shown'.panel = shown.panel
  PROVE  PanelHeld'
<1>1. \A t : Copy(t)' = Copy(t)
  BY SameCards
<1> QED
  BY <1>1 DEF PanelHeld, RowsHeld, Right

LEMMA OpenSame ==
  ASSUME OpenHeld, card' = card, \A t : Covered(t) => Covered(t)',
         "open" \in behind => "open" \in behind',
         shown'.open.task = shown.open.task, shown'.open.copy = shown.open.copy
  PROVE  OpenHeld'
<1>1. \A t : Copy(t)' = Copy(t)
  BY SameCards
<1>2. \A t : t = shown.open.task => (Covered(t) => Covered(shown.open.task)')
  BY DEF Covered
<1> QED
  BY <1>1, <1>2 DEF OpenHeld, Right

LEMMA QuerySame ==
  ASSUME QueryHeld, Loading("list") => Loading("list")', "list" \in behind => "list" \in behind',
         shown'.list.query = shown.list.query, shown'.query = shown.query, shown'.view = shown.view
  PROVE  QueryHeld'
BY DEF QueryHeld

LEMMA ChartSame ==
  ASSUME ChartHeld, card' = card, Loading("chart") => Loading("chart")', Editing => Editing',
         "chart" \in behind => "chart" \in behind', shown'.chart = shown.chart,
         shown'.query = shown.query, shown'.view = shown.view
  PROVE  ChartHeld'
<1>1. ChartRight => ChartRight'
  BY SameCards DEF ChartRight
<1> QED
  BY <1>1 DEF ChartHeld

\* The board has no filters: it is the same for every query of a page.
LEMMA OneBoard ==
  ASSUME NEW q \in Queries, NEW u \in Queries, q.site = u.site
  PROVE  OnBoard(q) = OnBoard(u)
<1>1. Unfiltered(q).site = Unfiltered(u).site /\ Unfiltered(q).only = {} /\ Unfiltered(u).only = {}
  BY QueryFacts
<1>2. Wanted(Unfiltered(q)) = Wanted(Unfiltered(u))
  BY <1>1 DEF Wanted
<1> QED
  BY <1>2 DEF OnBoard

LEMMA BoardSame ==
  ASSUME BoardHeld, card' = card, Loading("board") => Loading("board")', Editing => Editing',
         "board" \in behind => "board" \in behind', shown'.board = shown.board,
         shown.query \in Queries, shown'.query \in Queries,
         shown'.query.site = shown.query.site, shown'.view = shown.view
  PROVE  BoardHeld'
<1>1. OnBoard(shown.query)' = OnBoard(shown.query)
  <2>1. OnBoard(shown'.query) = OnBoard(shown.query)
    BY OneBoard
  <2> QED
    BY <2>1, SameCards
<1>2. ASSUME NEW c \in Columns, BoardRight(c) PROVE BoardRight(c)'
  <2>1. InColumn(OnBoard(shown.query), c)' = InColumn(OnBoard(shown.query), c)
    BY <1>1, SameCards
  <2> QED
    BY <1>2, <2>1, SameCards DEF BoardRight
<1> QED
  BY <1>2 DEF BoardHeld

LEMMA GroupsSame ==
  ASSUME GroupsHeld, card' = card, Loading("groups") => Loading("groups")', Editing => Editing',
         "groups" \in behind => "groups" \in behind', shown'.groups = shown.groups,
         \A c : Turning(c) => Turning(c)',
         shown'.query = shown.query, shown'.view = shown.view
  PROVE  GroupsHeld'
<1>1. ASSUME NEW c \in Columns, GroupRight(c) PROVE GroupRight(c)'
  <2>1. InColumn(Wanted(shown.query), c)' = InColumn(Wanted(shown.query), c)
    BY SameCards
  <2> QED
    BY <1>1, <2>1 DEF GroupRight
<1> QED
  BY <1>1 DEF GroupsHeld

LEMMA MoreKept ==
  ASSUME NEW r \in Requests, Others(r), NEW q \in Requests \ {r}, MoreOK(q),
         \/ "board" \in behind'
         \/ shown'.board = shown.board /\ ("board" \in behind => "board" \in behind')
         \/ req[q].op # "idle" => "board" \in req'[q].over
  PROVE  MoreOK(q)'
BY DEF MoreOK, Others

LEMMA TurnKept ==
  ASSUME NEW r \in Requests, Others(r), NEW q \in Requests \ {r}, TurnOK(q),
         req[q].op = "turn" => req[q].with.column \in Columns,
         \/ "groups" \in behind'
         \/ /\ \A c \in Columns : shown'.groups[c].pages = shown.groups[c].pages
            /\ "groups" \in behind => "groups" \in behind'
         \/ req[q].op # "idle" => "groups" \in req'[q].over
  PROVE  TurnOK(q)'
<1>1. /\ req'[q].op = req[q].op /\ req'[q].step = req[q].step /\ req'[q].with = req[q].with
      /\ req[q].over \subseteq req'[q].over
  BY DEF Others
<1> QED
  BY <1>1 DEF TurnOK

-----------------------------------------------------------------------------
\* The records of the calls.
LEMMA ACall ==
  ASSUME ViewTyped, NEW r \in Requests
  PROVE  /\ req[r] \in {Idle} \union CallType /\ CallOK(req[r])
         /\ req[r].op # "idle" =>
              /\ req[r] \in CallType /\ req[r].op \in Calls /\ req[r].with \in WithType
              /\ req[r].step \in {"sent", "answered", "failed"} /\ req[r].over \subseteq Parts \union {"write"}
         /\ req[r].op = "idle" => req[r] = Idle
<1>1. req[r] \in {Idle} \union CallType /\ CallOK(req[r])
  BY DEF ViewTyped
<1>2. Idle.op = "idle"
  BY DEF Idle
<1>3. \A x \in CallType :
        /\ x.op \in Calls /\ x.with \in WithType /\ x.step \in {"sent", "answered", "failed"}
        /\ x.over \subseteq Parts \union {"write"}
  BY DEF CallType
<1> QED
  BY <1>1, <1>2, <1>3, Operations

LEMMA WithIs ==
  ASSUME NEW w \in WithType
  PROVE  /\ w.query \in Queries /\ w.tasks \in SUBSET Cards /\ w.column \in Columns /\ w.page \in Nat
         /\ w.page >= 1 /\ w.answer \in Answers /\ w.next \in Nexts
BY DEF WithType

\* Slot r goes on with the record x, and the others hear of parts.
Serves(r, x, parts) ==
  req' = [q \in Requests |->
           IF q = r THEN x
           ELSE IF Active(q) THEN [req[q] EXCEPT !.over = @ \union parts] ELSE req[q]]

LEMMA Serving ==
  ASSUME ViewTyped, NEW r \in Requests, NEW x \in {Idle} \union CallType, CallOK(x),
         NEW parts \in SUBSET (Parts \union {"write"}), Serves(r, x, parts)
  PROVE  /\ req' \in [Requests -> {Idle} \union CallType] /\ \A q \in Requests : CallOK(req'[q])
         /\ Others(r) /\ req'[r] = x
         /\ \A q \in Requests \ {r} : req[q].op # "idle" => parts \subseteq req'[q].over
<1>1. req'[r] = x /\ DOMAIN req' = Requests
  BY DEF Serves
<1>2. ASSUME NEW q \in Requests \ {r}
      PROVE  /\ req'[q] \in {Idle} \union CallType /\ CallOK(req'[q])
             /\ req'[q].op = req[q].op /\ req'[q].step = req[q].step /\ req'[q].with = req[q].with
             /\ req[q].over \subseteq req'[q].over
             /\ req[q].op # "idle" => parts \subseteq req'[q].over
  <2>1. CASE req[q].op = "idle"
    <3>1. req'[q] = req[q]
      BY <2>1 DEF Serves, Active
    <3> QED
      BY <2>1, <3>1, ACall
  <2>2. CASE req[q].op # "idle"
    <3>1. req'[q] = [req[q] EXCEPT !.over = @ \union parts]
      BY <2>2 DEF Serves, Active
    <3>2. req[q] \in CallType /\ req[q].over \subseteq Parts \union {"write"} /\ CallOK(req[q])
      BY <2>2, ACall
    <3>3. /\ req'[q].op = req[q].op /\ req'[q].step = req[q].step /\ req'[q].with = req[q].with
          /\ req'[q].over = req[q].over \union parts /\ req'[q] \in CallType
      BY <3>1, <3>2 DEF CallType
    <3>4. CallOK(req'[q])
      BY <3>2, <3>3 DEF CallOK
    <3> QED
      BY <3>3, <3>4
  <2> QED
    BY <2>1, <2>2
<1>3. \A q \in Requests : req'[q] \in {Idle} \union CallType /\ CallOK(req'[q])
  BY <1>1, <1>2
<1>4. Others(r)
  BY <1>2 DEF Others
<1>5. req' = [q \in Requests |-> req'[q]]
  BY DEF Serves
<1>6. req' \in [Requests -> {Idle} \union CallType]
  BY <1>3, <1>5
<1> QED
  BY <1>1, <1>2, <1>3, <1>4, <1>6

LEMMA ServesAlone ==
  ASSUME ViewTyped, NEW r \in Requests, NEW x, req' = [req EXCEPT ![r] = x]
  PROVE  Serves(r, x, {})
<1>1. ASSUME NEW q \in Requests PROVE Active(q) => req[q] = [req[q] EXCEPT !.over = @ \union {}]
  <2>1. ASSUME req[q] \in CallType PROVE req[q] = [req[q] EXCEPT !.over = @ \union {}]
    BY <2>1 DEF CallType
  <2> QED
    BY <2>1, ACall DEF Active
<1>2. req = [q \in Requests |-> req[q]]
  BY DEF ViewTyped
<1>3. req' = [q \in Requests |-> IF q = r THEN x ELSE req[q]]
  BY <1>2
<1> QED
  BY <1>1, <1>3 DEF Serves

-----------------------------------------------------------------------------
\* What the user does.
LEMMA CallMade ==
  ASSUME NEW q \in Queries, NEW ts \in SUBSET Cards, NEW c \in Columns, NEW p \in Nat \ {0}, NEW n \in Nexts
  PROVE  /\ [Call(q, ts, c, p) EXCEPT !.next = n] \in WithType
         /\ [Call(q, ts, c, p) EXCEPT !.next = n].answer = NoRows
         /\ [Call(q, ts, c, p) EXCEPT !.next = n].tasks = ts
         /\ Call(q, ts, c, p) \in WithType /\ Call(q, ts, c, p).answer = NoRows
         /\ Call(q, ts, c, p).tasks = ts /\ Call(q, ts, c, p).page = p /\ Call(q, ts, c, p).column = c
         /\ Call(q, ts, c, p).query = q
<1>1. NoRows \in Answers
  BY NoRowsIs DEF Answers
<1>2. <<>> \in Nexts
  BY DEF Nexts
<1> QED
  BY <1>1, <1>2 DEF Call, WithType

Asks(r, op, w) ==
  /\ op \in Calls /\ w \in WithType /\ w.answer = NoRows
  /\ op \in {"open", "panel"} => \E t \in Cards : w.tasks = {t}

LEMMA Asking ==
  ASSUME ViewInv, NEW r \in Requests, NEW op, NEW w, Asks(r, op, w), Send(r, op, w), card' = card
  PROVE  /\ req' \in [Requests -> {Idle} \union CallType] /\ \A q \in Requests : CallOK(req'[q])
         /\ Others(r) /\ Excused /\ acts' \in Nat
         /\ req'[r].op = op /\ req'[r].with = w /\ req'[r].step = "sent"
         /\ \A q \in Requests : Known(q)'
         /\ \A q \in Requests \ {r} : MoreOK(q) /\ TurnOK(q)
         /\ \A q \in Requests : req[q].op = "turn" => req[q].with.column \in Columns
<1> DEFINE x == [op |-> op, step |-> "sent", with |-> w, over |-> {}]
<1>1. ViewTyped /\ CallsHeld
  BY DEF ViewInv
<1>2. req' = [req EXCEPT ![r] = x] /\ req[r].op = "idle" /\ acts' = acts + 1
  BY DEF Send, Ask, Act, Active
<1>3. x \in CallType /\ x.op = op /\ x.with = w /\ x.step = "sent"
  BY DEF CallType, Asks
<1>4. CallOK(x)
  BY <1>3, NoRowsIs DEF CallOK, Asks
<1> HIDE DEF x
<1>5. Serves(r, x, {})
  BY <1>1, <1>2, ServesAlone
<1>6. {} \in SUBSET (Parts \union {"write"})
  OBVIOUS
<1>7. /\ req' \in [Requests -> {Idle} \union CallType] /\ \A q \in Requests : CallOK(req'[q])
      /\ Others(r) /\ req'[r] = x
  BY <1>1, <1>3, <1>4, <1>5, <1>6, Serving
<1>8. Excused
  BY <1>2, <1>7, StillExcused DEF Goes
<1>9. ASSUME NEW q \in Requests PROVE Known(q)'
  <2>1. CASE q = r
    BY <1>3, <1>7, <2>1 DEF Known
  <2>2. CASE q # r
    BY <1>1, <1>7, <2>2, KnownKept DEF CallsHeld
  <2> QED
    BY <2>1, <2>2
<1>10. \A q \in Requests : req[q].op = "turn" => req[q].with.column \in Columns
  BY <1>1, ACall, WithIs
<1>11. acts' \in Nat
  BY <1>1, <1>2 DEF ViewTyped
<1> QED
  BY <1>1, <1>3, <1>7, <1>8, <1>9, <1>10, <1>11 DEF CallsHeld

\* What is only sent changes nothing on the screen.
LEMMA OnlyAsked ==
  ASSUME ViewInv, NEW r \in Requests, NEW op, NEW w, Asks(r, op, w), Send(r, op, w),
         UNCHANGED <<card, shown, behind>>,
         op = "more" => w.page \in {1, shown.board[w.column].page + 1}, op # "turn"
  PROVE  ViewInv'
<1>1. /\ card' = card /\ shown' = shown /\ behind' = behind
      /\ ViewTyped /\ CallsHeld /\ ListHeld /\ PanelHeld /\ OpenHeld /\ QueryHeld
      /\ ChartHeld /\ BoardHeld /\ GroupsHeld
  BY DEF ViewInv
<1>2. /\ req' \in [Requests -> {Idle} \union CallType] /\ \A q \in Requests : CallOK(req'[q])
      /\ Others(r) /\ Excused /\ acts' \in Nat
      /\ req'[r].op = op /\ req'[r].with = w /\ req'[r].step = "sent"
      /\ \A q \in Requests : Known(q)'
      /\ \A q \in Requests \ {r} : MoreOK(q) /\ TurnOK(q)
      /\ \A q \in Requests : req[q].op = "turn" => req[q].with.column \in Columns
  BY <1>1, Asking
<1>3. ViewTyped'
  BY <1>1, <1>2 DEF ViewTyped
<1>4. CallsHeld'
  <2>1. MoreOK(r)' /\ TurnOK(r)'
    BY <1>1, <1>2 DEF MoreOK, TurnOK
  <2>2. \A q \in Requests \ {r} : MoreOK(q)' /\ TurnOK(q)'
    BY <1>1, <1>2, MoreKept, TurnKept
  <2> QED
    BY <1>2, <2>1, <2>2 DEF CallsHeld
<1>5. /\ \A t : Covered(t) => Covered(t)'
      /\ \A c : Turning(c) => Turning(c)'
      /\ Editing => Editing'
      /\ \A a \in {"list", "chart", "board", "groups"} : Loading(a) => Loading(a)'
  BY <1>2, Operations DEF Excused, Calls, Whole
<1>6. ListHeld' /\ PanelHeld' /\ OpenHeld' /\ QueryHeld'
  BY <1>1, <1>5, ListSame, PanelSame, OpenSame, QuerySame
<1>7. ChartHeld' /\ GroupsHeld'
  BY <1>1, <1>5, ChartSame, GroupsSame
<1>8. BoardHeld'
  <2>1. shown.query \in Queries /\ shown'.query \in Queries
    BY <1>1 DEF ViewTyped, ShownType
  <2> QED
    BY <1>1, <1>5, <2>1, BoardSame
<1> QED
  BY <1>3, <1>4, <1>6, <1>7, <1>8 DEF ViewInv

LEMMA ScreenType ==
  ASSUME ViewTyped
  PROVE  /\ shown.query \in Queries /\ shown.view \in {"list", "kanban", "gantt", "groups"}
         /\ shown.list \in ListType /\ shown.list.rows \in RowsType /\ shown.list.query \in Queries
         /\ shown.open \in OpenType /\ shown.open.task \in Cards \union {0} /\ shown.open.copy \in Copies
         /\ shown.open.kids \in RowsType /\ shown.panel \in RowsType /\ shown.chart \in RowsType
         /\ shown.board \in [Columns -> BoardType] /\ shown.groups \in [Columns -> GroupType]
         /\ \A c \in Columns : shown.board[c].page \in Nat /\ shown.groups[c].pages \in Nat
         /\ DOMAIN shown.list.rows \subseteq Cards /\ DOMAIN shown.panel \subseteq Cards
         /\ DOMAIN shown.chart \subseteq Cards
<1>1. /\ shown.query \in Queries /\ shown.view \in {"list", "kanban", "gantt", "groups"}
      /\ shown.list \in ListType /\ shown.open \in OpenType /\ shown.panel \in RowsType
      /\ shown.chart \in RowsType /\ shown.board \in [Columns -> BoardType]
      /\ shown.groups \in [Columns -> GroupType]
  BY DEF ViewTyped, ShownType
<1>2. shown.list.rows \in RowsType /\ shown.list.query \in Queries
  BY <1>1 DEF ListType
<1>3. /\ shown.open.task \in Cards \union {0} /\ shown.open.copy \in Copies
      /\ shown.open.kids \in RowsType
  BY <1>1 DEF OpenType
<1>4. \A c \in Columns : shown.board[c].page \in Nat /\ shown.groups[c].pages \in Nat
  BY <1>1 DEF BoardType, GroupType
<1> QED
  BY <1>1, <1>2, <1>3, <1>4, RowsAre

LEMMA LoaderIs ==
  /\ \A q \in Queries : ViewsOf(q.site) \subseteq {"list", "kanban", "gantt", "groups"}
  /\ \A q \in Queries : \A v \in {"list", "kanban", "gantt", "groups"} :
       /\ Loader(q, v) \in Whole
       /\ v = "list" => Loader(q, v) = "list"
       /\ q.site = "project" \/ v # shown.view \/ q.site # shown.query.site =>
            Loader(q, v) = CASE v = "list" -> "list" [] v = "kanban" -> "board"
                             [] v = "gantt" -> "chart" [] v = "groups" -> "groups"
BY DEF ViewsOf, Loader, Whole

LEMMA AgainKeeps ==
  ASSUME ViewInv, NEW r \in Requests, Again(r)
  PROVE  ViewInv'
<1>1. ViewTyped
  BY DEF ViewInv
<1> DEFINE op == Loader(shown.query, shown.view)
<1>2. op \in Whole
  BY <1>1, LoaderIs, ScreenType
<1> HIDE DEF op
<1>3. op \in Calls /\ op \notin {"open", "panel", "more", "turn"}
  BY <1>2 DEF Whole, Calls, Loads
<1>4. Plain \in WithType /\ Plain.answer = NoRows
  <2>1. NoRows \in Answers /\ <<>> \in Nexts
    BY NoRowsIs DEF Answers, Nexts
  <2> QED
    BY <1>1, <2>1, ScreenType, Facts DEF Plain, Call, WithType
<1>5. Asks(r, op, Plain)
  BY <1>3, <1>4 DEF Asks
<1>6. Send(r, op, Plain) /\ UNCHANGED <<card, shown, behind>>
  BY DEF Again, op
<1> QED
  BY <1>3, <1>5, <1>6, OnlyAsked

LEMMA MoreKeeps ==
  ASSUME ViewInv, NEW r \in Requests, More(r)
  PROVE  ViewInv'
<1>1. ViewTyped
  BY DEF ViewInv
<1>2. PICK c \in Columns : \E p \in {1, shown.board[c].page + 1} :
        Send(r, "more", Call(shown.query, {}, c, p)) /\ UNCHANGED <<card, shown, behind>>
  BY DEF More
<1>3. PICK p \in {1, shown.board[c].page + 1} :
        Send(r, "more", Call(shown.query, {}, c, p)) /\ UNCHANGED <<card, shown, behind>>
  BY <1>2
<1>call. PICK w : w = Call(shown.query, {}, c, p) /\ Send(r, "more", w)
  BY <1>3
<1>4. p \in Nat \ {0}
  BY <1>1, ScreenType
<1>5. w \in WithType /\ w.answer = NoRows /\ w.page = p /\ w.column = c
  <2>1. NoRows \in Answers /\ <<>> \in Nexts
    BY NoRowsIs DEF Answers, Nexts
  <2> QED
    BY <1>1, <1>4, <1>call, <2>1, ScreenType DEF Call, WithType
<1>6. Asks(r, "more", w)
  BY <1>5 DEF Asks, Calls, Loads
<1> QED
  BY <1>3, <1>call, <1>5, <1>6, OnlyAsked

\* Every other call of the user's is about tasks that are on the screen.
LEMMA AboutTasks ==
  ASSUME ViewInv, NEW r \in Requests, NEW op \in Calls \ {"more", "turn"}, NEW ts \in SUBSET Cards,
         NEW c \in Columns, NEW n \in Nexts,
         Send(r, op, [Call(shown.query, ts, c, 1) EXCEPT !.next = n]),
         UNCHANGED <<card, shown, behind>>,
         op \in {"open", "panel"} => \E t \in Cards : ts = {t}
  PROVE  ViewInv'
<1>1. ViewTyped
  BY DEF ViewInv
<1>2. PICK w : w = [Call(shown.query, ts, c, 1) EXCEPT !.next = n]
  OBVIOUS
<1>3. 1 \in Nat \ {0}
  OBVIOUS
<1>4. w \in WithType /\ w.answer = NoRows /\ w.tasks = ts
  BY <1>1, <1>2, <1>3, CallMade, ScreenType
<1>5. Asks(r, op, w)
  BY <1>4 DEF Asks
<1> QED
  BY <1>2, <1>5, OnlyAsked

LEMMA NoNext ==
  ASSUME NEW q, NEW ts, NEW c, NEW p
  PROVE  <<>> \in Nexts /\ Call(q, ts, c, p) = [Call(q, ts, c, p) EXCEPT !.next = <<>>]
BY DEF Call, Nexts

LEMMA OneTask ==
  ASSUME ViewTyped, NEW t \in Cards, NEW w, w = Call(shown.query, {t}, First, 1)
  PROVE  w \in WithType /\ w.answer = NoRows /\ w.tasks = {t}
<1>1. NoRows \in Answers /\ <<>> \in Nexts
  BY NoRowsIs DEF Answers, Nexts
<1> QED
  BY <1>1, ScreenType, Facts DEF Call, WithType

LEMMA OpenTaskKeeps ==
  ASSUME ViewInv, NEW r \in Requests, OpenTask(r)
  PROVE  ViewInv'
<1>1. ViewTyped
  BY DEF ViewInv
<1>2. PICK t \in DOMAIN shown.list.rows \union DOMAIN shown.panel, op \in {"open", "panel"} :
        Send(r, op, Call(shown.query, {t}, First, 1)) /\ UNCHANGED <<card, shown, behind>>
  BY DEF OpenTask
<1>call. PICK w : w = Call(shown.query, {t}, First, 1) /\ Send(r, op, w)
  BY <1>2
<1>3. t \in Cards /\ op \in Calls \ {"more", "turn"}
  BY <1>1, ScreenType DEF Calls, Loads
<1>4. Asks(r, op, w)
  BY <1>1, <1>3, <1>call, OneTask DEF Asks
<1> QED
  BY <1>2, <1>3, <1>call, <1>4, OnlyAsked

LEMMA EditKeeps ==
  ASSUME ViewInv, NEW r \in Requests, Edit(r)
  PROVE  ViewInv'
<1>1. ViewTyped
  BY DEF ViewInv
<1>2. PICK op \in {"update", "status", "assign", "delete"} \union Bulk, c \in Columns, ts \in SUBSET OnScreen :
        Send(r, op, Call(shown.query, ts, c, 1)) /\ UNCHANGED <<card, shown, behind>>
  BY DEF Edit
<1>3. ts \in SUBSET Cards
  BY <1>1, ScreenType DEF OnScreen
<1>4. op \in Calls \ {"more", "turn"} /\ op \notin {"open", "panel"}
  BY DEF Bulk, Calls, Edits
<1>5. Send(r, op, [Call(shown.query, ts, c, 1) EXCEPT !.next = <<>>]) /\ <<>> \in Nexts
  BY <1>2, NoNext
<1> QED
  BY <1>2, <1>3, <1>4, <1>5, AboutTasks

LEMMA EditSubtaskKeeps ==
  ASSUME ViewInv, NEW r \in Requests, EditSubtask(r)
  PROVE  ViewInv'
<1>1. ViewTyped
  BY DEF ViewInv
<1>2. PICK t \in DOMAIN shown.panel, op \in {"subupdate", "subdelete"} :
        Send(r, op, Call(shown.query, {t}, First, 1)) /\ UNCHANGED <<card, shown, behind>>
  BY DEF EditSubtask
<1>call. PICK w : w = Call(shown.query, {t}, First, 1) /\ Send(r, op, w)
  BY <1>2
<1>3. t \in Cards /\ op \in Calls \ {"more", "turn"}
  BY <1>1, ScreenType DEF Calls, Edits
<1>4. Asks(r, op, w)
  BY <1>1, <1>3, <1>call, OneTask DEF Asks
<1> QED
  BY <1>2, <1>3, <1>call, <1>4, OnlyAsked

LEMMA AddKeeps ==
  ASSUME ViewInv, NEW r \in Requests, Add(r)
  PROVE  ViewInv'
<1>1. ViewTyped
  BY DEF ViewInv
<1>2. PICK op \in {"create", "subcreate"} :
        /\ Send(r, op, IF op = "create" THEN [Plain EXCEPT !.next = Refresh] ELSE Plain)
        /\ UNCHANGED <<card, shown, behind>>
  BY DEF Add
<1>3. Refresh \in Nexts /\ <<>> \in Nexts /\ {} \in SUBSET Cards
  <2>1. Loader(shown.query, shown.view) \in Whole
    BY <1>1, LoaderIs, ScreenType
  <2>2. "list" \in Whole /\ "board" \in Whole
    BY DEF Whole
  <2> QED
    BY <2>1, <2>2 DEF Refresh, Nexts
<1>4. \E n \in Nexts : Send(r, op, [Call(shown.query, {}, First, 1) EXCEPT !.next = n])
  BY <1>2, <1>3, NoNext DEF Plain
<1>5. op \in Calls \ {"more", "turn"} /\ op \notin {"open", "panel"}
  BY DEF Calls, Edits
<1> QED
  BY <1>2, <1>3, <1>4, <1>5, AboutTasks, Facts

\* Whatever the page then shows, its effect loads, unless it is the board, which
\* is the same for every query of the page.
LEMMA ChooseKeeps ==
  ASSUME ViewInv, NEW r \in Requests, Choose(r)
  PROVE  ViewInv'
<1>1. /\ ViewTyped /\ CallsHeld /\ ListHeld /\ PanelHeld /\ OpenHeld /\ QueryHeld
      /\ ChartHeld /\ BoardHeld /\ GroupsHeld
  BY DEF ViewInv
<1>2. PICK q, v :
        /\ q \in Queries /\ v \in ViewsOf(q.site)
        /\ q.site # shown.query.site => q.only = {} /\ v = "list"
        /\ v = "groups" => q.page = 1
        /\ Send(r, Loader(q, v), Call(q, {}, First, 1))
        /\ shown' = IF q.site = shown.query.site
                    THEN [shown EXCEPT !.query = q, !.view = v]
                    ELSE [shown EXCEPT !.query = q, !.view = v, !.chart = NoRows,
                                       !.board = [c \in Columns |-> NoBoard],
                                       !.groups = [c \in Columns |-> NoGroup]]
        /\ behind' = behind \union (IF q.site = shown.query.site THEN {} ELSE {"chart", "board", "groups"})
        /\ UNCHANGED card
  BY DEF Choose
<1>3. PICK op, w :
        /\ q \in Queries
        /\ op = Loader(q, v) /\ w = Call(q, {}, First, 1) /\ Send(r, op, w)
  BY <1>2
<1>4. v \in {"list", "kanban", "gantt", "groups"} /\ (v = "groups" => q.site = "project")
  BY <1>2 DEF ViewsOf
<1>5. /\ op \in Whole
      /\ v = "list" => op = "list"
      /\ q.site = "project" \/ v # shown.view \/ q.site # shown.query.site =>
           op = CASE v = "list" -> "list" [] v = "kanban" -> "board"
                  [] v = "gantt" -> "chart" [] v = "groups" -> "groups"
  <2>1. /\ Loader(q, v) \in Whole
        /\ v = "list" => Loader(q, v) = "list"
        /\ q.site = "project" \/ v # shown.view \/ q.site # shown.query.site =>
             Loader(q, v) = CASE v = "list" -> "list" [] v = "kanban" -> "board"
                              [] v = "gantt" -> "chart" [] v = "groups" -> "groups"
    BY <1>3, <1>4, LoaderIs, Zenon
  <2> QED
    BY <1>3, <2>1
<1>6. Asks(r, op, w)
  <2>1. NoRows \in Answers /\ <<>> \in Nexts
    BY NoRowsIs DEF Answers, Nexts
  <2>2. w \in WithType /\ w.answer = NoRows
    BY <1>3, <2>1, Facts DEF Call, WithType
  <2> QED
    BY <1>5, <2>2 DEF Asks, Whole, Calls, Loads
<1>7. /\ req' \in [Requests -> {Idle} \union CallType] /\ \A u \in Requests : CallOK(req'[u])
      /\ Others(r) /\ Excused /\ acts' \in Nat
      /\ req'[r].op = op /\ req'[r].with = w /\ req'[r].step = "sent"
      /\ \A u \in Requests : Known(u)'
      /\ \A u \in Requests \ {r} : MoreOK(u) /\ TurnOK(u)
      /\ \A u \in Requests : req[u].op = "turn" => req[u].with.column \in Columns
  BY <1>1, <1>2, <1>3, <1>6, Asking
<1>8. /\ shown'.query = q /\ shown'.view = v /\ shown'.list = shown.list
      /\ shown'.open = shown.open /\ shown'.panel = shown.panel
      /\ q.site = shown.query.site =>
           shown'.chart = shown.chart /\ shown'.board = shown.board /\ shown'.groups = shown.groups
      /\ q.site # shown.query.site => v = "list" /\ {"chart", "board", "groups"} \subseteq behind'
      /\ behind \subseteq behind' /\ behind' \subseteq Parts
      /\ shown' \in ShownType
  <2>1. shown \in ShownType /\ behind \subseteq Parts
    BY <1>1 DEF ViewTyped
  <2>2. CASE q.site = shown.query.site
    BY <1>2, <1>4, <2>1, <2>2 DEF ShownType
  <2>3. CASE q.site # shown.query.site
    <3>1. [c \in Columns |-> NoBoard] \in [Columns -> BoardType] /\ [c \in Columns |-> NoGroup] \in [Columns -> GroupType]
      BY NoParts
    <3> QED
      BY <1>2, <1>4, <2>1, <2>3, <3>1, NoRowsIs DEF ShownType, Parts
  <2> QED
    BY <2>2, <2>3
<1>9. card' = card /\ ViewTyped'
  BY <1>1, <1>2, <1>7, <1>8 DEF ViewTyped
<1>10. CallsHeld'
  <2>1. MoreOK(r)' /\ TurnOK(r)'
    BY <1>5, <1>7 DEF MoreOK, TurnOK, Whole
  <2>2. ASSUME NEW u \in Requests \ {r} PROVE MoreOK(u)' /\ TurnOK(u)'
    BY <1>7, <1>8, MoreKept, TurnKept
  <2> QED
    BY <1>7, <2>1, <2>2 DEF CallsHeld
<1>11. /\ \A t : Covered(t) => Covered(t)'
       /\ Editing => Editing'
       /\ Loading("board") => Loading("board")'
  BY <1>7, Operations DEF Excused, Calls, Whole
<1>12. ListHeld' /\ PanelHeld' /\ OpenHeld'
  BY <1>1, <1>8, <1>9, <1>11, ListSame, PanelSame, OpenSame
<1>13. Loading(op)'
  BY <1>7 DEF Loading
<1>14. QueryHeld'
  BY <1>5, <1>8, <1>13 DEF QueryHeld
<1>15. ChartHeld'
  BY <1>4, <1>5, <1>8, <1>13 DEF ChartHeld
<1>16. GroupsHeld'
  BY <1>4, <1>5, <1>8, <1>13 DEF GroupsHeld
<1>17. BoardHeld'
  <2>1. CASE q.site # shown.query.site
    BY <1>8, <2>1 DEF BoardHeld
  <2>2. CASE v = "kanban" /\ q.site = shown.query.site /\ v = shown.view
    <3>1. shown.query \in Queries /\ shown'.query \in Queries
      BY <1>1, <1>3, <1>8, ScreenType
    <3>2. /\ "board" \in behind => "board" \in behind'
          /\ shown'.board = shown.board /\ shown'.query.site = shown.query.site /\ shown'.view = shown.view
      BY <1>8, <2>2
    <3> QED
      BY <1>1, <1>9, <1>11, <3>1, <3>2, BoardSame, Zenon
  <2>3. CASE v = "kanban" /\ v # shown.view
    BY <1>5, <1>13, <2>3 DEF BoardHeld
  <2>4. CASE v # "kanban"
    BY <1>8, <2>4 DEF BoardHeld
  <2> QED
    BY <2>1, <2>2, <2>3, <2>4
<1> QED
  BY <1>9, <1>10, <1>12, <1>14, <1>15, <1>16, <1>17 DEF ViewInv

\* A group is locked while one of its pages is loaded, and the call unlocks it.
LEMMA TurnKeeps ==
  ASSUME ViewInv, NEW r \in Requests, Turn(r)
  PROVE  ViewInv'
<1>1. /\ ViewTyped /\ CallsHeld /\ ListHeld /\ PanelHeld /\ OpenHeld /\ QueryHeld
      /\ ChartHeld /\ BoardHeld /\ GroupsHeld
  BY DEF ViewInv
<1>2. PICK c, p, w :
        /\ c \in Columns /\ p \in 1 .. shown.groups[c].pages
        /\ w = Call(shown.query, {}, c, p) /\ Send(r, "turn", w)
        /\ shown' = [shown EXCEPT !.groups[c].more = TRUE]
        /\ UNCHANGED <<card, behind>>
  BY DEF Turn
<1>3. c \in Columns /\ p \in Nat \ {0} /\ p <= shown.groups[c].pages
  BY <1>1, <1>2, ScreenType
<1>4. Asks(r, "turn", w) /\ w.column = c /\ w.page = p
  <2>1. NoRows \in Answers /\ <<>> \in Nexts
    BY NoRowsIs DEF Answers, Nexts
  <2>2. w \in WithType /\ w.answer = NoRows /\ w.column = c /\ w.page = p
    BY <1>1, <1>2, <1>3, <2>1, ScreenType DEF Call, WithType
  <2> QED
    BY <2>2 DEF Asks, Calls, Loads
<1>5. /\ req' \in [Requests -> {Idle} \union CallType] /\ \A u \in Requests : CallOK(req'[u])
      /\ Others(r) /\ Excused /\ acts' \in Nat
      /\ req'[r].op = "turn" /\ req'[r].with = w /\ req'[r].step = "sent"
      /\ \A u \in Requests : Known(u)'
      /\ \A u \in Requests \ {r} : MoreOK(u) /\ TurnOK(u)
      /\ \A u \in Requests : req[u].op = "turn" => req[u].with.column \in Columns
  BY <1>1, <1>2, <1>4, Asking
<1>6. /\ shown' \in ShownType
      /\ shown'.query = shown.query /\ shown'.view = shown.view /\ shown'.list = shown.list
      /\ shown'.open = shown.open /\ shown'.panel = shown.panel
      /\ shown'.chart = shown.chart /\ shown'.board = shown.board
      /\ \A a \in Columns : shown'.groups[a].pages = shown.groups[a].pages
      /\ \A a \in Columns \ {c} : shown'.groups[a] = shown.groups[a]
  <2>1. shown \in ShownType /\ shown.groups \in [Columns -> GroupType]
    BY <1>1, ScreenType DEF ViewTyped
  <2>2. [shown.groups EXCEPT ![c].more = TRUE] \in [Columns -> GroupType]
    BY <1>3, <2>1 DEF GroupType
  <2>3. shown' = [shown EXCEPT !.groups = [shown.groups EXCEPT ![c].more = TRUE]]
    BY <1>2
  <2>4. shown'.groups = [shown.groups EXCEPT ![c].more = TRUE]
    BY <2>1, <2>3 DEF ShownType
  <2>5. /\ \A a \in Columns : shown'.groups[a].pages = shown.groups[a].pages
        /\ \A a \in Columns \ {c} : shown'.groups[a] = shown.groups[a]
    BY <1>3, <2>1, <2>4 DEF GroupType
  <2> QED
    BY <2>1, <2>2, <2>3, <2>5 DEF ShownType
<1>7. card' = card /\ behind' = behind /\ ViewTyped'
  BY <1>1, <1>2, <1>5, <1>6 DEF ViewTyped
<1>8. CallsHeld'
  <2>1. MoreOK(r)' /\ TurnOK(r)'
    BY <1>3, <1>4, <1>5, <1>6 DEF MoreOK, TurnOK
  <2>2. ASSUME NEW u \in Requests \ {r} PROVE MoreOK(u)' /\ TurnOK(u)'
    BY <1>5, <1>6, <1>7, MoreKept, TurnKept
  <2> QED
    BY <1>5, <2>1, <2>2 DEF CallsHeld
<1>9. /\ \A t : Covered(t) => Covered(t)'
      /\ \A a : Turning(a) => Turning(a)'
      /\ Editing => Editing'
      /\ \A a \in {"list", "chart", "board", "groups"} : Loading(a) => Loading(a)'
  BY <1>5, Operations DEF Excused, Calls, Whole
<1>10. ListHeld' /\ PanelHeld' /\ OpenHeld' /\ QueryHeld' /\ ChartHeld'
  BY <1>1, <1>6, <1>7, <1>9, ListSame, PanelSame, OpenSame, QuerySame, ChartSame
<1>11. BoardHeld'
  <2>1. shown.query \in Queries /\ shown'.query \in Queries
    BY <1>1, <1>6, ScreenType
  <2> QED
    BY <1>1, <1>6, <1>7, <1>9, <2>1, BoardSame
<1>12. GroupsHeld'
  <2>1. Turning(c)'
    BY <1>4, <1>5 DEF Turning
  <2>2. ASSUME NEW a \in Columns \ {c}, GroupRight(a) PROVE GroupRight(a)'
    <3>1. InColumn(Wanted(shown.query), a)' = InColumn(Wanted(shown.query), a)
      BY <1>6, <1>7, SameCards
    <3> QED
      BY <1>6, <2>2, <3>1 DEF GroupRight
  <2> QED
    BY <1>1, <1>6, <1>7, <1>9, <2>1, <2>2 DEF GroupsHeld
<1> QED
  BY <1>7, <1>8, <1>10, <1>11, <1>12 DEF ViewInv

LEMMA DragKeeps ==
  ASSUME ViewInv, NEW r \in Requests, Drag(r)
  PROVE  ViewInv'
<1>1. /\ ViewTyped /\ CallsHeld /\ ListHeld /\ PanelHeld /\ OpenHeld /\ QueryHeld
      /\ ChartHeld /\ BoardHeld /\ GroupsHeld
  BY DEF ViewInv
<1>2. PICK t, w :
        /\ t \in DOMAIN shown.chart
        /\ w = [Call(shown.query, {t}, First, 1) EXCEPT !.next = <<"chart">>] /\ Send(r, "drag", w)
        /\ shown' = [shown EXCEPT !.chart[t].edit = @ + 1]
        /\ behind' = behind \union {"chart"} /\ card' = card
  BY DEF Drag
<1>3. t \in Cards
  BY <1>1, <1>2, ScreenType
<1>4. Asks(r, "drag", w)
  <2>1. NoRows \in Answers /\ <<"chart">> \in Nexts
    BY NoRowsIs DEF Answers, Nexts, Whole
  <2>2. w \in WithType /\ w.answer = NoRows
    BY <1>1, <1>2, <1>3, <2>1, ScreenType, Facts DEF Call, WithType
  <2> QED
    BY <2>2 DEF Asks, Calls, Edits
<1>5. /\ req' \in [Requests -> {Idle} \union CallType] /\ \A u \in Requests : CallOK(req'[u])
      /\ Others(r) /\ Excused /\ acts' \in Nat
      /\ req'[r].op = "drag" /\ req'[r].with = w /\ req'[r].step = "sent"
      /\ \A u \in Requests : Known(u)'
      /\ \A u \in Requests \ {r} : MoreOK(u) /\ TurnOK(u)
      /\ \A u \in Requests : req[u].op = "turn" => req[u].with.column \in Columns
  BY <1>1, <1>2, <1>4, Asking
<1>6. /\ shown' \in ShownType
      /\ shown'.query = shown.query /\ shown'.view = shown.view /\ shown'.list = shown.list
      /\ shown'.open = shown.open /\ shown'.panel = shown.panel
      /\ shown'.board = shown.board /\ shown'.groups = shown.groups
  <2>1. shown \in ShownType /\ shown.chart \in RowsType
    BY <1>1, ScreenType DEF ViewTyped
  <2>2. shown.chart \in [DOMAIN shown.chart -> Copies] /\ DOMAIN shown.chart \in SUBSET Cards
    BY <2>1, RowsAre
  <2>3. [shown.chart EXCEPT ![t].edit = @ + 1] \in [DOMAIN shown.chart -> Copies]
    BY <1>2, <2>2 DEF Copies
  <2>4. [shown.chart EXCEPT ![t].edit = @ + 1] \in RowsType
    BY <2>2, <2>3, RowsAre
  <2>5. shown' = [shown EXCEPT !.chart = [shown.chart EXCEPT ![t].edit = @ + 1]]
    BY <1>2
  <2> QED
    BY <2>1, <2>4, <2>5 DEF ShownType
<1>7. /\ card' = card /\ behind \subseteq behind' /\ "chart" \in behind'
      /\ \A a \in Parts : a # "chart" => (a \in behind <=> a \in behind')
      /\ ViewTyped'
  BY <1>1, <1>2, <1>5, <1>6 DEF ViewTyped, Parts
<1>8. CallsHeld'
  <2>1. MoreOK(r)' /\ TurnOK(r)'
    BY <1>5 DEF MoreOK, TurnOK
  <2>2. ASSUME NEW u \in Requests \ {r} PROVE MoreOK(u)' /\ TurnOK(u)'
    BY <1>5, <1>6, <1>7, MoreKept, TurnKept
  <2> QED
    BY <1>5, <2>1, <2>2 DEF CallsHeld
<1>9. /\ \A a : Covered(a) => Covered(a)'
      /\ \A a : Turning(a) => Turning(a)'
      /\ Editing => Editing'
      /\ \A a \in {"list", "chart", "board", "groups"} : Loading(a) => Loading(a)'
  BY <1>5, Operations DEF Excused, Calls, Whole
<1>10. ListHeld' /\ PanelHeld' /\ OpenHeld' /\ QueryHeld'
  BY <1>1, <1>6, <1>7, <1>9, ListSame, PanelSame, OpenSame, QuerySame
<1>11. ChartHeld'
  BY <1>7 DEF ChartHeld
<1>12. BoardHeld'
  <2>1. shown.query \in Queries /\ shown'.query \in Queries
    BY <1>1, <1>6, ScreenType
  <2> QED
    BY <1>1, <1>6, <1>7, <1>9, <2>1, BoardSame
<1>13. GroupsHeld'
  BY <1>1, <1>6, <1>7, <1>9, GroupsSame
<1> QED
  BY <1>7, <1>8, <1>10, <1>11, <1>12, <1>13 DEF ViewInv

LEMMA CloseTaskKeeps ==
  ASSUME ViewInv, CloseTask
  PROVE  ViewInv'
<1>1. /\ ViewTyped /\ CallsHeld /\ ListHeld /\ PanelHeld /\ OpenHeld /\ QueryHeld
      /\ ChartHeld /\ BoardHeld /\ GroupsHeld
  BY DEF ViewInv
<1>2. /\ card' = card /\ behind' = behind /\ req' = req /\ acts' = acts + 1
      /\ shown' = [shown EXCEPT !.open.task = 0, !.open.kids = NoRows]
  BY DEF CloseTask, Act
<1>3. /\ shown' \in ShownType
      /\ shown'.query = shown.query /\ shown'.view = shown.view /\ shown'.list = shown.list
      /\ shown'.open.task = 0 /\ shown'.panel = shown.panel /\ shown'.chart = shown.chart
      /\ shown'.board = shown.board /\ shown'.groups = shown.groups
  <2>1. shown \in ShownType /\ shown.open \in OpenType
    BY <1>1, ScreenType DEF ViewTyped
  <2> DEFINE o == [shown.open EXCEPT !.task = 0, !.kids = NoRows]
  <2>2. o \in OpenType /\ o.task = 0
    BY <2>1, NoRowsIs DEF OpenType
  <2>3. shown' = [shown EXCEPT !.open = o]
    BY <1>2, <2>1 DEF ShownType, OpenType
  <2> HIDE DEF o
  <2> QED
    BY <2>1, <2>2, <2>3 DEF ShownType
<1>4. ViewTyped'
  BY <1>1, <1>2, <1>3 DEF ViewTyped
<1>5. /\ \A t : Covered(t)' = Covered(t)
      /\ \A c : Turning(c)' = Turning(c)
      /\ Editing' = Editing
      /\ \A op : Loading(op)' = Loading(op)
  BY <1>2 DEF Covered, Turning, Editing, Loading
<1>6. CallsHeld'
  <2>1. ASSUME NEW r \in Requests PROVE Known(r)' /\ MoreOK(r)' /\ TurnOK(r)'
    <3>1. Known(r) /\ MoreOK(r) /\ TurnOK(r)
      BY <1>1 DEF CallsHeld
    <3>2. Known(r)'
      BY <1>2, <3>1, SameCards DEF Known, StillSo
    <3> QED
      BY <1>2, <1>3, <3>1, <3>2 DEF MoreOK, TurnOK
  <2> QED
    BY <2>1 DEF CallsHeld
<1>7. ListHeld' /\ PanelHeld' /\ QueryHeld' /\ ChartHeld' /\ GroupsHeld'
  BY <1>1, <1>2, <1>3, <1>5, ListSame, PanelSame, QuerySame, ChartSame, GroupsSame
<1>8. OpenHeld'
  BY <1>3 DEF OpenHeld
<1>9. BoardHeld'
  <2>1. shown.query \in Queries /\ shown'.query \in Queries
    BY <1>1, <1>3, ScreenType
  <2> QED
    BY <1>1, <1>2, <1>3, <1>5, <2>1, BoardSame
<1> QED
  BY <1>4, <1>6, <1>7, <1>8, <1>9 DEF ViewInv

-----------------------------------------------------------------------------
\* What the server does.
LEMMA OnlyMoved ==
  ASSUME ViewInv, NEW r \in Requests, Others(r), Goes(r), UNCHANGED <<card, shown, behind, acts>>,
         req' \in [Requests -> {Idle} \union CallType], \A q \in Requests : CallOK(req'[q]), Known(r)',
         req'[r].op = req[r].op, req'[r].with.page = req[r].with.page,
         req'[r].with.column = req[r].with.column,
         \A part \in Parts : part \in req[r].over => part \in req'[r].over
  PROVE  ViewInv'
<1>1. /\ card' = card /\ shown' = shown /\ behind' = behind /\ acts' = acts
      /\ ViewTyped /\ CallsHeld /\ ListHeld /\ PanelHeld /\ OpenHeld /\ QueryHeld
      /\ ChartHeld /\ BoardHeld /\ GroupsHeld
  BY DEF ViewInv
<1>2. ViewTyped'
  BY <1>1 DEF ViewTyped
<1>3. Excused
  BY StillExcused
<1>4. CallsHeld'
  <2>1. MoreOK(r)' /\ TurnOK(r)'
    BY <1>1 DEF MoreOK, TurnOK, CallsHeld, Parts
  <2>2. ASSUME NEW u \in Requests \ {r} PROVE MoreOK(u)' /\ TurnOK(u)' /\ Known(u)'
    <3>1. req[u].op = "turn" => req[u].with.column \in Columns
      BY <1>1, ACall, WithIs
    <3> QED
      BY <1>1, <3>1, MoreKept, TurnKept, KnownKept DEF CallsHeld
  <2> QED
    BY <2>1, <2>2 DEF CallsHeld
<1>5. /\ \A t : Covered(t) => Covered(t)'
      /\ \A c : Turning(c) => Turning(c)'
      /\ Editing => Editing'
      /\ \A a \in {"list", "chart", "board", "groups"} : Loading(a) => Loading(a)'
  BY <1>3, Operations DEF Excused, Calls, Whole
<1>6. ListHeld' /\ PanelHeld' /\ OpenHeld' /\ QueryHeld' /\ ChartHeld' /\ GroupsHeld'
  BY <1>1, <1>5, ListSame, PanelSame, OpenSame, QuerySame, ChartSame, GroupsSame
<1>7. BoardHeld'
  <2>1. shown.query \in Queries /\ shown'.query \in Queries
    BY <1>1, ScreenType
  <2> QED
    BY <1>1, <1>5, <2>1, BoardSame
<1> QED
  BY <1>2, <1>4, <1>6, <1>7 DEF ViewInv

LEMMA FailKeeps ==
  ASSUME ViewInv, NEW r \in Requests, Fail(r)
  PROVE  ViewInv'
<1>1. ViewTyped
  BY DEF ViewInv
<1> DEFINE x == [req[r] EXCEPT !.step = "failed"]
<1>2. req' = [req EXCEPT ![r] = x] /\ UNCHANGED <<card, shown, behind, acts>> /\ req[r].op # "idle"
  BY DEF Fail, Active
<1>3. req[r] \in CallType /\ CallOK(req[r])
  BY <1>1, <1>2, ACall
<1>4. /\ x \in CallType /\ x.op = req[r].op /\ x.with = req[r].with /\ x.over = req[r].over
      /\ x.step = "failed"
  BY <1>3 DEF CallType
<1> HIDE DEF x
<1>5. CallOK(x)
  BY <1>3, <1>4 DEF CallOK
<1>6. Serves(r, x, {}) /\ {} \in SUBSET (Parts \union {"write"})
  BY <1>1, <1>2, ServesAlone
<1>7. /\ req' \in [Requests -> {Idle} \union CallType] /\ \A q \in Requests : CallOK(req'[q])
      /\ Others(r) /\ req'[r] = x
  BY <1>1, <1>4, <1>5, <1>6, Serving
<1>8. Known(r)'
  BY <1>4, <1>7 DEF Known
<1>9. Goes(r)
  BY <1>4, <1>7 DEF Goes
<1> QED
  BY <1>2, <1>4, <1>7, <1>8, <1>9, OnlyMoved

\* The answer of a load does not depend on what stood in its place.
LEMMA SameAnswer ==
  ASSUME NEW op, NEW w, NEW z, z.query = w.query, z.tasks = w.tasks, z.column = w.column, z.page = w.page
  PROVE  AnswerFor(op, z) = AnswerFor(op, w)
BY DEF AnswerFor

LEMMA ReadKeeps ==
  ASSUME ViewInv, NEW r \in Requests, Read(r)
  PROVE  ViewInv'
<1>1. ViewTyped
  BY DEF ViewInv
<1>2. PICK op, w, a :
        /\ op = req[r].op /\ w = req[r].with /\ a = AnswerFor(op, w)
        /\ op \in Loads /\ (op \in {"open", "panel"} => \A t \in w.tasks : card[t].live)
        /\ req' = [req EXCEPT ![r].step = "answered", ![r].over = @ \ {"write"},
                              ![r].with = [w EXCEPT !.answer = a]]
        /\ UNCHANGED <<card, shown, behind, acts>>
  BY DEF Read
<1>3. req[r].op # "idle" /\ req[r] \in CallType /\ CallOK(req[r]) /\ w \in WithType
  BY <1>1, <1>2, ACall, Operations DEF Calls
<1>4. op \in Calls /\ op \notin Edits /\ (op \in {"open", "panel"} => \E t \in Cards : w.tasks = {t})
  BY <1>2, <1>3, Operations DEF CallOK, Calls
<1>5. a \in AnswerType(op) /\ a \in Answers
  BY <1>1, <1>2, <1>3, <1>4, AnswerForType DEF CardsTyped, ViewTyped
<1> DEFINE z == [w EXCEPT !.answer = a]
           x == [req[r] EXCEPT !.step = "answered", !.over = @ \ {"write"}, !.with = z]
<1>6. /\ z \in WithType /\ z.answer = a /\ z.query = w.query /\ z.tasks = w.tasks
      /\ z.column = w.column /\ z.page = w.page
  BY <1>3, <1>5 DEF WithType
<1>7. req' = [req EXCEPT ![r] = x]
  BY <1>1, <1>2 DEF ViewTyped
<1> HIDE DEF z
<1>8. x \in CallType /\ x.op = op /\ x.with = z /\ x.over = req[r].over \ {"write"} /\ x.step = "answered"
  BY <1>2, <1>3, <1>4, <1>6 DEF CallType
<1> HIDE DEF x
<1>9. CallOK(x)
  BY <1>4, <1>5, <1>6, <1>8 DEF CallOK
<1>10. Serves(r, x, {}) /\ {} \in SUBSET (Parts \union {"write"})
  BY <1>1, <1>7, ServesAlone
<1>11. /\ req' \in [Requests -> {Idle} \union CallType] /\ \A q \in Requests : CallOK(req'[q])
       /\ Others(r) /\ req'[r] = x
  BY <1>1, <1>8, <1>9, <1>10, Serving
<1>12. StillSo(op, z)
  BY <1>2, <1>4, <1>6, SameAnswer DEF StillSo
<1>13. Known(r)'
  <2>1. card' = card
    BY <1>2
  <2>2. \A o, v : AnswerFor(o, v)' = AnswerFor(o, v)
    BY <2>1, SameCards
  <2>3. StillSo(op, z)'
    <3> SUFFICES ASSUME NEW v, v = z PROVE StillSo(op, v)'
      BY DEF z
    <3> QED
      BY <1>4, <1>12, <2>1, <2>2 DEF StillSo
  <2> QED
    BY <1>8, <1>11, <2>3 DEF Known
<1>14. Goes(r)
  BY <1>2, <1>4, <1>6, <1>8, <1>11 DEF Goes
<1>15. \A part \in Parts : part \in req[r].over => part \in req'[r].over
  BY <1>8, <1>11 DEF Parts
<1> QED
  BY <1>2, <1>6, <1>8, <1>11, <1>13, <1>14, <1>15, OnlyMoved

\* What a write makes of a task.
LEMMA WrittenIs ==
  ASSUME CardsTyped, NEW op \in Edits, NEW t \in Cards, NEW c \in Columns,
         op \notin Creations => card[t].live
  PROVE  /\ Written(op, t, c) \in [live : BOOLEAN, column : Columns, edit : Nat]
         /\ Written(op, t, c).live <=> op \notin Deletions
<1>1. card[t] \in [live : BOOLEAN, column : Columns, edit : Nat]
  BY DEF CardsTyped
<1>2. CASE op \in Deletions
  BY <1>1, <1>2 DEF Written, Deletions
<1>3. CASE op \in Creations
  BY <1>3, Facts DEF Written, Deletions, Creations
<1>4. CASE op \in {"status", "bulk"}
  BY <1>1, <1>4 DEF Written, Deletions, Creations
<1>5. CASE op \in {"update", "drag", "assign", "subupdate"}
  BY <1>1, <1>5 DEF Written, Deletions, Creations
<1> QED
  BY <1>2, <1>3, <1>4, <1>5 DEF Edits, Deletions, Creations

LEMMA HandleKeeps ==
  ASSUME ViewInv, NEW r \in Requests, Handle(r)
  PROVE  ViewInv'
<1>1. /\ ViewTyped /\ CallsHeld /\ ListHeld /\ PanelHeld /\ OpenHeld /\ QueryHeld
      /\ ChartHeld /\ BoardHeld /\ GroupsHeld
  BY DEF ViewInv
<1> DEFINE op == req[r].op
           w == req[r].with
           New(ts) == [t \in Cards |-> IF t \in ts THEN Written(op, t, w.column) ELSE card[t]]
           Kept(ts) == [t \in ts |-> [column |-> New(ts)[t].column, edit |-> New(ts)[t].edit]]
<1>1a. PICK ts \in SUBSET Cards :
        /\ req[r].step = "sent" /\ op \notin Loads /\ ts # {}
        /\ IF op \in {"create", "subcreate"}
           THEN \E t \in Cards : ts = {t} /\ ~card[t].live /\ (t \in Under <=> op = "subcreate")
           ELSE ts \subseteq w.tasks /\ \A t \in ts : card[t].live
        /\ card' = New(ts)
        /\ req' = [q \in Requests |->
                     IF q = r THEN [req[r] EXCEPT !.step = "answered", !.over = {},
                                                  !.with = [w EXCEPT !.answer = Kept(ts)]]
                     ELSE IF Active(q) THEN [req[q] EXCEPT !.over = @ \union {"write"}] ELSE req[q]]
        /\ UNCHANGED <<shown, behind, acts>>
  BY Zenon DEF Handle
<1> DEFINE copies == Kept(ts)
<1>2. /\ op = req[r].op /\ w = req[r].with
      /\ req[r].step = "sent" /\ op \notin Loads
      /\ IF op \in Creations THEN \A t \in ts : ~card[t].live ELSE \A t \in ts : card[t].live
      /\ card' = [t \in Cards |-> IF t \in ts THEN Written(op, t, w.column) ELSE card[t]]
      /\ copies = [t \in ts |-> [column |-> card'[t].column, edit |-> card'[t].edit]]
      /\ req' = [q \in Requests |->
                   IF q = r THEN [req[r] EXCEPT !.step = "answered", !.over = {},
                                                !.with = [w EXCEPT !.answer = copies]]
                   ELSE IF Active(q) THEN [req[q] EXCEPT !.over = @ \union {"write"}] ELSE req[q]]
      /\ UNCHANGED <<shown, behind, acts>>
  <2>1. IF op \in Creations THEN \A t \in ts : ~card[t].live ELSE \A t \in ts : card[t].live
    BY <1>1a DEF Creations
  <2>2. card' = New(ts)
    BY <1>1a
  <2>3. copies = [t \in ts |-> [column |-> card'[t].column, edit |-> card'[t].edit]]
    BY <2>2
  <2> HIDE DEF copies
  <2> QED
    BY <1>1a, <2>1, <2>2, <2>3 DEF copies
<1> HIDE DEF op, w, copies, New, Kept
<1>3. /\ req[r].op # "idle" /\ req[r] \in CallType /\ CallOK(req[r]) /\ w \in WithType
      /\ op \in Edits /\ op \in Calls
  <2>1. req[r].op # "idle"
    <3>1. Idle.step # "sent"
      BY DEF Idle
    <3> QED
      BY <1>1, <1>2, <3>1, ACall
  <2> QED
    BY <1>1, <1>2, <2>1, ACall DEF Calls
<1>4. CardsTyped /\ w.column \in Columns
  BY <1>1, <1>3, WithIs DEF CardsTyped, ViewTyped
<1>5. \A t \in ts : /\ Written(op, t, w.column) \in [live : BOOLEAN, column : Columns, edit : Nat]
                    /\ Written(op, t, w.column).live <=> op \notin Deletions
  BY <1>2, <1>3, <1>4, WrittenIs
<1>6. /\ card' \in [Cards -> [live : BOOLEAN, column : Columns, edit : Nat]]
      /\ \A t \in ts : card'[t].live <=> op \notin Deletions
      /\ \A t \in Cards \ ts : card'[t] = card[t]
  BY <1>2, <1>4, <1>5 DEF CardsTyped
<1>7. /\ copies \in RowsType /\ DOMAIN copies = ts
      /\ \A t \in ts : copies[t] = [column |-> card'[t].column, edit |-> card'[t].edit]
  <2>1. \A t \in ts : [column |-> card'[t].column, edit |-> card'[t].edit] \in Copies
    BY <1>2, <1>6 DEF Copies
  <2>2. copies \in [ts -> Copies]
    BY <1>2, <2>1
  <2> QED
    BY <1>2, <2>2, RowsAre
<1> DEFINE z == [w EXCEPT !.answer = copies]
           x == [req[r] EXCEPT !.step = "answered", !.over = {}, !.with = z]
<1>8. z \in WithType /\ z.answer = copies /\ z.tasks = w.tasks /\ z.column = w.column
  <2>1. copies \in Answers
    BY <1>7 DEF Answers
  <2> QED
    BY <1>3, <2>1 DEF WithType
<1>9. Serves(r, x, {"write"}) /\ {"write"} \in SUBSET (Parts \union {"write"})
  BY <1>2 DEF Serves
<1> HIDE DEF z
<1>10. x \in CallType /\ x.op = op /\ x.with = z /\ x.over = {} /\ x.step = "answered"
  BY <1>2, <1>3, <1>8 DEF CallType
<1> HIDE DEF x
<1>11. CallOK(x)
  BY <1>3, <1>7, <1>8, <1>10, AnswerTypes, Operations DEF CallOK, Loads
<1>12. /\ req' \in [Requests -> {Idle} \union CallType] /\ \A q \in Requests : CallOK(req'[q])
       /\ Others(r) /\ req'[r] = x
       /\ \A q \in Requests \ {r} : req[q].op # "idle" => "write" \in req'[q].over
  BY <1>1, <1>9, <1>10, <1>11, Serving
<1>13. ViewTyped'
  BY <1>1, <1>2, <1>6, <1>12 DEF ViewTyped
<1>13a. PICK o, v : o = op /\ v = z
  OBVIOUS
<1>14. StillSo(o, v)'
  <2>1. \A t \in ts : IF op \in Deletions THEN ~card'[t].live
                      ELSE card'[t].live /\ copies[t] = Copy(t)'
    BY <1>6, <1>7 DEF Copy
  <2> QED
    BY <1>13a, <1>2, <1>3, <1>7, <1>8, <2>1 DEF StillSo, Loads
<1>15. CallsHeld'
  <2>1. Known(r)'
    BY <1>13a, <1>10, <1>12, <1>14 DEF Known
  <2>2. MoreOK(r)' /\ TurnOK(r)'
    BY <1>2, <1>10, <1>12 DEF MoreOK, TurnOK, Loads
  <2>3. ASSUME NEW u \in Requests \ {r} PROVE MoreOK(u)' /\ TurnOK(u)' /\ Known(u)'
    <3>1. req[u].op = "turn" => req[u].with.column \in Columns
      BY <1>1, ACall, WithIs
    <3>2. shown' = shown /\ behind' = behind
      BY <1>2
    <3> QED
      BY <1>1, <1>12, <3>1, <3>2, MoreKept, TurnKept, KnownKept DEF CallsHeld
  <2> QED
    BY <2>1, <2>2, <2>3 DEF CallsHeld
<1>16. Excused
  <2>1. DOMAIN req[r].with.answer = {}
    BY <1>2, <1>3 DEF CallOK
  <2>2. Goes(r)
    BY <1>2, <1>8, <1>10, <1>12, <2>1 DEF Goes
  <2> QED
    BY <1>12, <2>2, StillExcused
\* A row of a task that was not there was an edit's already.
<1>17. ASSUME NEW t \in Cards, NEW copy, Right(t, copy) \/ Covered(t)
       PROVE  Right(t, copy)' \/ Covered(t)'
  <2>1. CASE Covered(t)
    BY <1>16, <2>1 DEF Excused
  <2>2. CASE Right(t, copy) /\ t \notin ts
    BY <1>6, <2>2 DEF Right, Copy
  <2>3. CASE Right(t, copy) /\ t \in ts
    <3>1. op \notin Creations
      BY <1>2, <2>3 DEF Right
    <3> QED
      BY <1>3, <1>7, <1>8, <1>10, <1>12, <2>3, <3>1 DEF Covered
  <2> QED
    BY <1>17, <2>1, <2>2, <2>3
<1>18. Editing'
  BY <1>3, <1>10, <1>12 DEF Editing
<1>19. shown' = shown /\ behind' = behind
  BY <1>2
<1>20. ListHeld' /\ PanelHeld'
  <2>1. DOMAIN shown.list.rows \subseteq Cards /\ DOMAIN shown.panel \subseteq Cards
    BY <1>1, ScreenType
  <2>2. ASSUME NEW rows, DOMAIN rows \subseteq Cards, RowsHeld(rows) PROVE RowsHeld(rows)'
    BY <1>17, <2>2 DEF RowsHeld
  <2>3. RowsHeld(shown.list.rows) => RowsHeld(shown.list.rows)'
    BY <1>19, <2>1, <2>2
  <2>4. RowsHeld(shown.panel) => RowsHeld(shown.panel)'
    BY <1>19, <2>1, <2>2
  <2> QED
    BY <1>1, <1>19, <2>3, <2>4 DEF ListHeld, PanelHeld
<1>21. OpenHeld'
  <2> SUFFICES ASSUME "open" \notin behind, NEW t \in Cards, t = shown.open.task, NEW copy, copy = shown.open.copy
               PROVE  Right(t, copy)' \/ Covered(t)'
    <3>1. shown.open.task \in Cards \union {0}
      BY <1>1, ScreenType
    <3> QED
      BY <1>19, <3>1 DEF OpenHeld, Right, Covered
  <2>1. t # 0
    BY Facts
  <2>2. Right(t, copy) \/ Covered(t)
    BY <1>1, <2>1 DEF OpenHeld
  <2> QED
    BY <1>17, <2>2
<1>22. QueryHeld'
  BY <1>1, <1>16, <1>19, QuerySame DEF Excused, Calls, Loads
<1>23. ChartHeld' /\ BoardHeld' /\ GroupsHeld'
  BY <1>18 DEF ChartHeld, BoardHeld, GroupsHeld
<1> QED
  BY <1>13, <1>15, <1>20, <1>21, <1>22, <1>23 DEF ViewInv

-----------------------------------------------------------------------------
\* The answer comes back.  What is so once the call of slot r has ended:
Ended(r, parts) ==
  /\ req' \in [Requests -> {Idle} \union CallType] /\ \A q \in Requests : CallOK(req'[q])
  /\ Others(r) /\ req'[r].op \notin {"more", "turn"}
  /\ \A q \in Requests \ {r} : req[q].op # "idle" => parts \subseteq req'[q].over
  /\ \A q \in Requests : Known(q)'

LEMMA NextCalls ==
  ASSUME NEW n \in Nexts, n # <<>>
  PROVE  Head(n) \in Whole /\ Tail(n) \in Nexts
<1>1. CASE n \in {<<a>> : a \in Whole}
  <2>1. PICK a \in Whole : n = <<a>>
    BY <1>1
  <2>2. Head(n) = a /\ Tail(n) = <<>>
    BY <2>1
  <2> QED
    BY <2>2 DEF Nexts
<1>2. CASE n \in {<<a, b>> : a, b \in Whole}
  <2>1. PICK a \in Whole, b \in Whole : n = <<a, b>>
    BY <1>2
  <2>2. Head(n) = a /\ Tail(n) = <<b>>
    BY <2>1
  <2> QED
    BY <2>2 DEF Nexts
<1> QED
  BY <1>1, <1>2 DEF Nexts

LEMMA NextAsked ==
  ASSUME NEW q \in Queries, NEW n \in Nexts, NEW v, v = [Call(q, {}, First, 1) EXCEPT !.next = n]
  PROVE  v \in WithType /\ v.answer = NoRows
<1>1. NoRows \in Answers
  BY NoRowsIs DEF Answers
<1>2. v = [query |-> q, tasks |-> {}, column |-> First, page |-> 1, answer |-> NoRows, next |-> n]
  BY DEF Call
<1>3. {} \in SUBSET Cards /\ First \in Columns /\ 1 \in Nat \ {0}
  BY Facts
<1> QED
  BY <1>1, <1>2, <1>3 DEF WithType

LEMMA Finished ==
  ASSUME ViewInv, NEW r \in Requests, req[r].op # "idle", NEW parts \in SUBSET Parts, NEW next \in Nexts,
         Finish(r, parts, next), card' = card
  PROVE  Ended(r, parts)
<1>1. ViewTyped /\ CallsHeld
  BY DEF ViewInv
<1>2. PICK w : w = req[r].with /\ w \in WithType
  BY <1>1, ACall
<1> DEFINE x == IF next = <<>> THEN Idle
                ELSE [op |-> Head(next), step |-> "sent", over |-> {},
                      with |-> [Call(w.query, {}, First, 1) EXCEPT !.next = Tail(next)]]
<1>3. /\ x \in {Idle} \union CallType /\ CallOK(x) /\ x.op \notin {"more", "turn"}
      /\ x.step # "answered"
  <2>1. CASE next = <<>>
    <3>1. x = Idle
      BY <2>1
    <3>2. Idle.op = "idle" /\ Idle.step = ""
      BY DEF Idle
    <3>3. CallOK(Idle)
      BY <3>2, Operations DEF CallOK
    <3> HIDE DEF x
    <3> QED
      BY <3>1, <3>2, <3>3
  <2>2. CASE next # <<>>
    <3>1. PICK o, n : o = Head(next) /\ n = Tail(next) /\ o \in Whole /\ n \in Nexts
      BY <2>2, NextCalls
    <3>2. PICK v : v = [Call(w.query, {}, First, 1) EXCEPT !.next = n]
      OBVIOUS
    <3>3. v \in WithType /\ v.answer = NoRows
      <4>1. NoRows \in Answers /\ w.query \in Queries
        BY <1>2, NoRowsIs, WithIs DEF Answers
      <4> QED
        BY <3>1, <3>2, <4>1, NextAsked
    <3>4. x = [op |-> o, step |-> "sent", over |-> {}, with |-> v]
      BY <2>2, <3>1, <3>2
    <3> HIDE DEF x
    <3>5. o \in Calls /\ o \notin {"open", "panel", "more", "turn"} /\ o \notin Edits
      BY <3>1 DEF Whole, Calls, Loads, Edits
    <3>6. x.op = o /\ x.step = "sent" /\ x.with = v /\ x \in CallType
      BY <3>3, <3>4, <3>5 DEF CallType
    <3>7. CallOK(x)
      BY <3>3, <3>5, <3>6, NoRowsIs DEF CallOK
    <3> QED
      BY <3>5, <3>6, <3>7
  <2> QED
    BY <2>1, <2>2
<1>4. Serves(r, x, parts)
  BY <1>2 DEF Serves, Finish
<1> HIDE DEF x
<1>5. parts \in SUBSET (Parts \union {"write"})
  OBVIOUS
<1>6. /\ req' \in [Requests -> {Idle} \union CallType] /\ \A q \in Requests : CallOK(req'[q])
      /\ Others(r) /\ req'[r] = x
      /\ \A q \in Requests \ {r} : req[q].op # "idle" => parts \subseteq req'[q].over
  BY <1>1, <1>3, <1>4, <1>5, Serving
<1>7. ASSUME NEW q \in Requests PROVE Known(q)'
  <2>1. CASE q = r
    BY <1>3, <1>6, <2>1 DEF Known
  <2>2. CASE q # r
    BY <1>1, <1>6, <2>2, KnownKept DEF CallsHeld
  <2> QED
    BY <2>1, <2>2
<1> QED
  BY <1>3, <1>6, <1>7 DEF Ended

LEMMA CallsStillHeld ==
  ASSUME ViewInv, NEW r \in Requests, NEW parts, Ended(r, parts),
         \/ "board" \in behind' \union parts
         \/ shown'.board = shown.board /\ ("board" \in behind => "board" \in behind'),
         \/ "groups" \in behind' \union parts
         \/ /\ \A c \in Columns : shown'.groups[c].pages = shown.groups[c].pages
            /\ "groups" \in behind => "groups" \in behind'
  PROVE  CallsHeld'
<1>1. ViewTyped /\ CallsHeld
  BY DEF ViewInv
<1>2. MoreOK(r)' /\ TurnOK(r)'
  BY DEF MoreOK, TurnOK, Ended
<1>3. ASSUME NEW u \in Requests \ {r} PROVE MoreOK(u)' /\ TurnOK(u)'
  <2>1. MoreOK(u) /\ TurnOK(u) /\ (req[u].op = "turn" => req[u].with.column \in Columns)
    BY <1>1, ACall, WithIs DEF CallsHeld
  <2>2. Others(r) /\ (req[u].op # "idle" => parts \subseteq req'[u].over)
    BY DEF Ended
  <2>3. MoreOK(u)'
    BY <2>1, <2>2, MoreKept
  <2>4. TurnOK(u)'
    BY <2>1, <2>2, TurnKept
  <2> QED
    BY <2>3, <2>4
<1> QED
  BY <1>2, <1>3 DEF CallsHeld, Ended

\* What an answer that is not late says.
LEMMA OnTime ==
  ASSUME ViewInv, NEW r \in Requests, req[r].step = "answered", ~Late(r),
         NEW op, NEW w, op = req[r].op, w = req[r].with, op \in Calls
  PROVE  /\ StillSo(op, w) /\ req[r].over \intersect PartsOf(op) = {}
         /\ op \in Loads \ {"open", "panel"} => w.query = shown.query
         /\ op = "chart" => shown.view = "gantt"
<1>1. Known(r)
  BY DEF ViewInv, CallsHeld
<1>2. req[r].over \intersect (PartsOf(op) \union {"write"}) = {}
  BY DEF Late
<1> QED
  BY <1>1, <1>2 DEF Known, Late

\* What is so after any load: the parts it does not write are as behind as they
\* were, and one that it writes is not behind only if the answer was not late.
LoadEnded(r, op, w) ==
  /\ op = req[r].op /\ w = req[r].with /\ op \in Loads /\ op \in Calls /\ w \in WithType
  /\ w.answer \in AnswerType(op)
  /\ op \in {"open", "panel"} => \E t \in Cards : w.tasks = {t}
  /\ Ended(r, PartsOf(op)) /\ card' = card /\ acts' = acts /\ behind' \subseteq Parts
  /\ \A p \in Parts \ PartsOf(op) : p \in behind => p \in behind'
  /\ op \in {"more", "turn"} => behind \subseteq behind'
  /\ \A p \in PartsOf(op) : p \notin behind' =>
       /\ StillSo(op, w) /\ p \notin req[r].over
       /\ op \notin {"open", "panel"} => w.query = shown.query
       /\ op = "chart" => shown.view = "gantt"
  /\ Editing => Editing'
  /\ \A t : Covered(t) => Covered(t)'
  /\ \A o \in Whole \ {op} : Loading(o) => Loading(o)'
  /\ \A c : Turning(c) => Turning(c)' \/ (op = "turn" /\ w.column = c)

LEMMA LoadEnds ==
  ASSUME ViewInv, NEW r \in Requests, Loaded(r), NEW op, NEW w, op = req[r].op, w = req[r].with
  PROVE  LoadEnded(r, op, w)
<1>1. ViewTyped
  BY DEF ViewInv
<1>2. /\ req[r].step = "answered" /\ op \in Loads
      /\ behind' = (behind \ (PartsOf(op) \ (IF op \in {"more", "turn"} THEN PartsOf(op) ELSE {})))
                     \union (IF Late(r) THEN PartsOf(op) ELSE {})
      /\ Finish(r, PartsOf(op), w.next) /\ card' = card /\ acts' = acts
  BY DEF Loaded
<1>3. op \in Calls /\ op \notin Edits /\ req[r].op # "idle" /\ PartsOf(op) \in SUBSET Parts
  BY <1>2, Operations DEF Calls
<1>4. /\ w \in WithType /\ w.answer \in AnswerType(op) /\ w.next \in Nexts
      /\ op \in {"open", "panel"} => \E t \in Cards : w.tasks = {t}
  BY <1>1, <1>2, <1>3, ACall, WithIs DEF CallOK
<1>5. Ended(r, PartsOf(op)) /\ Others(r)
  BY <1>2, <1>3, <1>4, Finished DEF Ended
<1>6. behind \subseteq Parts
  BY <1>1 DEF ViewTyped
<1>7. /\ behind' \subseteq Parts
      /\ \A p \in Parts \ PartsOf(op) : p \in behind => p \in behind'
      /\ op \in {"more", "turn"} => behind \subseteq behind'
      /\ Late(r) => PartsOf(op) \subseteq behind'
  BY <1>2, <1>3, <1>6
<1>8. ASSUME NEW p \in PartsOf(op), p \notin behind'
      PROVE  /\ StillSo(op, w) /\ p \notin req[r].over
             /\ op \notin {"open", "panel"} => w.query = shown.query
             /\ op = "chart" => shown.view = "gantt"
  <2>1. ~Late(r)
    BY <1>7, <1>8
  <2> QED
    BY <1>2, <1>3, <2>1, OnTime
<1>9. /\ Editing => Editing'
      /\ \A t : Covered(t) => Covered(t)'
      /\ \A o \in Whole \ {op} : Loading(o) => Loading(o)'
      /\ \A c : Turning(c) => Turning(c)' \/ (op = "turn" /\ w.column = c)
  BY <1>3, <1>5, Excuses
<1> QED
  BY <1>2, <1>3, <1>4, <1>5, <1>7, <1>8, <1>9 DEF LoadEnded

\* Writing one part of what is shown.
LEMMA Puts ==
  ASSUME NEW s \in ShownType
  PROVE  /\ \A a \in ListType :
              LET z == [s EXCEPT !.list = a] IN
              /\ z \in ShownType /\ z.list = a /\ z.query = s.query /\ z.view = s.view /\ z.open = s.open
              /\ z.panel = s.panel /\ z.chart = s.chart /\ z.board = s.board /\ z.groups = s.groups
         /\ \A a \in OpenType :
              LET z == [s EXCEPT !.open = a] IN
              /\ z \in ShownType /\ z.open = a /\ z.query = s.query /\ z.view = s.view /\ z.list = s.list
              /\ z.panel = s.panel /\ z.chart = s.chart /\ z.board = s.board /\ z.groups = s.groups
         /\ \A a \in RowsType :
              LET z == [s EXCEPT !.panel = a] IN
              /\ z \in ShownType /\ z.panel = a /\ z.query = s.query /\ z.view = s.view /\ z.list = s.list
              /\ z.open = s.open /\ z.chart = s.chart /\ z.board = s.board /\ z.groups = s.groups
         /\ \A a \in RowsType :
              LET z == [s EXCEPT !.chart = a] IN
              /\ z \in ShownType /\ z.chart = a /\ z.query = s.query /\ z.view = s.view /\ z.list = s.list
              /\ z.open = s.open /\ z.panel = s.panel /\ z.board = s.board /\ z.groups = s.groups
         /\ \A a \in [Columns -> BoardType] :
              LET z == [s EXCEPT !.board = a] IN
              /\ z \in ShownType /\ z.board = a /\ z.query = s.query /\ z.view = s.view /\ z.list = s.list
              /\ z.open = s.open /\ z.panel = s.panel /\ z.chart = s.chart /\ z.groups = s.groups
         /\ \A a \in [Columns -> GroupType] :
              LET z == [s EXCEPT !.groups = a] IN
              /\ z \in ShownType /\ z.groups = a /\ z.query = s.query /\ z.view = s.view /\ z.list = s.list
              /\ z.open = s.open /\ z.panel = s.panel /\ z.chart = s.chart /\ z.board = s.board
BY DEF ShownType

LEMMA ListLoaded ==
  ASSUME ViewInv, NEW r \in Requests, Loaded(r), req[r].op = "list"
  PROVE  ViewInv'
<1>1. /\ ViewTyped /\ CallsHeld /\ ListHeld /\ PanelHeld /\ OpenHeld /\ QueryHeld
      /\ ChartHeld /\ BoardHeld /\ GroupsHeld
  BY DEF ViewInv
<1>2. PICK w : w = req[r].with
  OBVIOUS
<1>3. LoadEnded(r, "list", w)
  BY <1>2, LoadEnds
<1>4. shown' = [shown EXCEPT !.list = w.answer]
  BY <1>2 DEF Loaded
<1>5. w.answer \in ListType /\ card' = card /\ Ended(r, {"list"}) /\ w \in WithType
  BY <1>3, AnswerTypes, Operations DEF LoadEnded
<1>6. /\ shown' \in ShownType /\ shown'.list = w.answer /\ shown'.query = shown.query
      /\ shown'.view = shown.view /\ shown'.open = shown.open /\ shown'.panel = shown.panel
      /\ shown'.chart = shown.chart /\ shown'.board = shown.board /\ shown'.groups = shown.groups
  BY <1>1, <1>4, <1>5, Puts DEF ViewTyped
<1>7. /\ \A p \in {"open", "panel", "chart", "board", "groups"} : p \in behind => p \in behind'
      /\ Editing => Editing'
      /\ \A t : Covered(t) => Covered(t)'
      /\ \A o \in {"chart", "board", "groups"} : Loading(o) => Loading(o)'
      /\ \A c : Turning(c) => Turning(c)'
  BY <1>3, Operations DEF LoadEnded, Parts, Whole
<1>8. ViewTyped'
  BY <1>1, <1>3, <1>5, <1>6 DEF ViewTyped, LoadEnded, Ended
<1>9. CallsHeld'
  BY <1>5, <1>6, <1>7, CallsStillHeld
<1>10. "list" \notin behind' => w.query = shown.query /\ w.answer = ListFor(w.query)
  <2>1. "list" \notin behind' => StillSo("list", w) /\ w.query = shown.query
    BY <1>3, Operations DEF LoadEnded
  <2>2. StillSo("list", w) => w.answer = ListFor(w.query)
    BY AnswerForIs DEF StillSo, Loads
  <2> QED
    BY <2>1, <2>2
<1>11. ListHeld' /\ QueryHeld'
  <2>1. w.query \in Queries /\ CardsTyped
    BY <1>1, <1>5, WithIs DEF CardsTyped, ViewTyped
  <2>2. ListFor(w.query).query = w.query /\ \A t \in DOMAIN ListFor(w.query).rows : Right(t, ListFor(w.query).rows[t])
    BY <2>1, ListForType
  <2>3. ListHeld'
    <3>1. \A t, c : Right(t, c) => Right(t, c)'
      BY <1>5, SameCards
    <3> QED
      BY <1>6, <1>10, <2>2, <3>1 DEF ListHeld, RowsHeld, Right
  <2>4. QueryHeld'
    BY <1>6, <1>10, <2>2 DEF QueryHeld
  <2> QED
    BY <2>3, <2>4
<1>12. PanelHeld' /\ OpenHeld' /\ ChartHeld' /\ GroupsHeld'
  BY <1>1, <1>5, <1>6, <1>7, PanelSame, OpenSame, ChartSame, GroupsSame
<1>13. BoardHeld'
  <2>1. shown.query \in Queries /\ shown'.query \in Queries
    BY <1>1, <1>6, ScreenType
  <2> QED
    BY <1>1, <1>5, <1>6, <1>7, <2>1, BoardSame
<1> QED
  BY <1>8, <1>9, <1>11, <1>12, <1>13 DEF ViewInv

LEMMA RightKept ==
  ASSUME card' = card
  PROVE  \A t : Copy(t)' = Copy(t)
BY SameCards

LEMMA ChartLoaded ==
  ASSUME ViewInv, NEW r \in Requests, Loaded(r), req[r].op = "chart"
  PROVE  ViewInv'
<1>1. /\ ViewTyped /\ CallsHeld /\ ListHeld /\ PanelHeld /\ OpenHeld /\ QueryHeld
      /\ ChartHeld /\ BoardHeld /\ GroupsHeld
  BY DEF ViewInv
<1>2. PICK w : w = req[r].with
  OBVIOUS
<1>3. LoadEnded(r, "chart", w)
  BY <1>2, LoadEnds
<1>4. shown' = [shown EXCEPT !.list = w.answer, !.chart = IF SamePage(r) THEN w.answer.rows ELSE @]
  BY <1>2 DEF Loaded
<1>5. w.answer \in ListType /\ card' = card /\ Ended(r, {"list", "chart"}) /\ w \in WithType
  BY <1>3, AnswerTypes, Operations DEF LoadEnded
<1>6. /\ shown' \in ShownType /\ shown'.list = w.answer
      /\ shown'.chart = (IF SamePage(r) THEN w.answer.rows ELSE shown.chart)
      /\ shown'.query = shown.query
      /\ shown'.view = shown.view /\ shown'.open = shown.open /\ shown'.panel = shown.panel
      /\ shown'.board = shown.board /\ shown'.groups = shown.groups
  <2>1. w.answer.rows \in RowsType /\ shown.chart \in RowsType
    BY <1>1, <1>5, ScreenType DEF ListType
  <2>2. PICK ch \in RowsType : ch = IF SamePage(r) THEN w.answer.rows ELSE shown.chart
    BY <2>1
  <2>3. shown' = [shown EXCEPT !.list = w.answer, !.chart = ch]
    BY <1>4, <2>2
  <2>4. shown \in ShownType
    BY <1>1 DEF ViewTyped
  <2> QED
    BY <1>5, <2>2, <2>3, <2>4 DEF ShownType
<1>7. /\ \A p \in {"open", "panel", "board", "groups"} : p \in behind => p \in behind'
      /\ Editing => Editing'
      /\ \A t : Covered(t) => Covered(t)'
      /\ \A o \in {"list", "board", "groups"} : Loading(o) => Loading(o)'
      /\ \A c : Turning(c) => Turning(c)'
  BY <1>3, Operations DEF LoadEnded, Parts, Whole
<1>8. ViewTyped'
  BY <1>1, <1>3, <1>5, <1>6 DEF ViewTyped, LoadEnded, Ended
<1>9. CallsHeld'
  BY <1>5, <1>6, <1>7, CallsStillHeld
<1>10. \A p \in {"list", "chart"} : p \notin behind' =>
         w.query = shown.query /\ shown.view = "gantt" /\ w.answer = ChartFor(w.query)
  <2>1. \A p \in {"list", "chart"} : p \notin behind' =>
          StillSo("chart", w) /\ w.query = shown.query /\ shown.view = "gantt"
    BY <1>3, Operations DEF LoadEnded
  <2>2. StillSo("chart", w) => w.answer = ChartFor(w.query)
    BY AnswerForIs DEF StillSo, Loads
  <2> QED
    BY <2>1, <2>2
<1>11. w.query \in Queries /\ CardsTyped
  BY <1>1, <1>5, WithIs DEF CardsTyped, ViewTyped
<1>12. PICK u \in Queries : ChartFor(w.query) = ListFor(u) /\ (w.query.site # "workspace" => u = w.query)
  BY <1>11, ChartForIs
<1>13. /\ ListFor(u).rows = Rows(PageOf(Wanted(u), u.page))
       /\ \A t \in DOMAIN ListFor(u).rows : Right(t, ListFor(u).rows[t])
  BY <1>11, ListForType
<1>14. ListHeld'
  <2>1. \A t : Copy(t)' = Copy(t)
    BY <1>5, RightKept
  <2> QED
    BY <1>5, <1>6, <1>10, <1>12, <1>13, <2>1 DEF ListHeld, RowsHeld, Right
<1>15. QueryHeld'
  BY <1>6, <1>10 DEF QueryHeld
<1>16. ChartHeld'
  <2> SUFFICES ASSUME "chart" \notin behind', shown.query.site = "project" PROVE ChartRight'
    BY <1>6 DEF ChartHeld
  <2>1. w.query = shown.query /\ w.answer = ListFor(w.query) /\ u = w.query
    BY <1>10, <1>12
  <2>2. shown'.chart = Rows(PageOf(Wanted(shown.query), shown.query.page))
    BY <1>2, <1>6, <1>13, <2>1 DEF SamePage
  <2>3. Rows(PageOf(Wanted(shown.query), shown.query.page))' = Rows(PageOf(Wanted(shown.query), shown.query.page))
    BY <1>5, <1>6, SameCards
  <2> QED
    BY <2>2, <2>3 DEF ChartRight
<1>17. PanelHeld' /\ OpenHeld' /\ GroupsHeld'
  BY <1>1, <1>5, <1>6, <1>7, PanelSame, OpenSame, GroupsSame
<1>18. BoardHeld'
  <2>1. shown.query \in Queries /\ shown'.query \in Queries
    BY <1>1, <1>6, ScreenType
  <2> QED
    BY <1>1, <1>5, <1>6, <1>7, <2>1, BoardSame
<1> QED
  BY <1>8, <1>9, <1>14, <1>15, <1>16, <1>17, <1>18 DEF ViewInv

LEMMA OpenLoaded ==
  ASSUME ViewInv, NEW r \in Requests, Loaded(r), req[r].op = "open"
  PROVE  ViewInv'
<1>1. /\ ViewTyped /\ CallsHeld /\ ListHeld /\ PanelHeld /\ OpenHeld /\ QueryHeld
      /\ ChartHeld /\ BoardHeld /\ GroupsHeld
  BY DEF ViewInv
<1>2. PICK w : w = req[r].with
  OBVIOUS
<1>3. LoadEnded(r, "open", w)
  BY <1>2, LoadEnds
<1>4. shown' = [shown EXCEPT !.open = w.answer]
  BY <1>2 DEF Loaded
<1>5. /\ w.answer \in OpenType /\ card' = card /\ Ended(r, {"open"}) /\ w \in WithType
      /\ \E t \in Cards : w.tasks = {t}
  BY <1>3, AnswerTypes, Operations DEF LoadEnded
<1>6. /\ shown' \in ShownType /\ shown'.open = w.answer /\ shown'.query = shown.query
      /\ shown'.view = shown.view /\ shown'.list = shown.list /\ shown'.panel = shown.panel
      /\ shown'.chart = shown.chart /\ shown'.board = shown.board /\ shown'.groups = shown.groups
  BY <1>1, <1>4, <1>5, Puts DEF ViewTyped
<1>7. /\ \A p \in {"list", "panel", "chart", "board", "groups"} : p \in behind => p \in behind'
      /\ Editing => Editing'
      /\ \A t : Covered(t) => Covered(t)'
      /\ \A o \in Whole : Loading(o) => Loading(o)'
      /\ \A c : Turning(c) => Turning(c)'
  BY <1>3, Operations DEF LoadEnded, Parts, Whole
<1>8. ViewTyped'
  BY <1>1, <1>3, <1>5, <1>6 DEF ViewTyped, LoadEnded, Ended
<1>9. CallsHeld'
  BY <1>5, <1>6, <1>7, CallsStillHeld
<1>10. OpenHeld'
  <2> SUFFICES ASSUME "open" \notin behind'
               PROVE  card'[w.answer.task].live /\ w.answer.copy = Copy(w.answer.task)'
    BY <1>6 DEF OpenHeld, Right
  <2>1. StillSo("open", w)
    BY <1>3, Operations DEF LoadEnded
  <2>2. PICK t \in Cards : w.tasks = {t}
    BY <1>5
  <2>3. w.answer = [task |-> t, copy |-> Copy(t), kids |-> Rows(Kids(t))] /\ card[t].live
    BY <2>1, <2>2, AnswerForIs DEF StillSo, Loads
  <2>4. w.answer.task = t /\ w.answer.copy = Copy(t)
    BY <2>3
  <2>5. Copy(t)' = Copy(t)
    BY <1>5, RightKept
  <2>6. Copy(w.answer.task)' = Copy(t)'
    <3>1. w.answer.task' = t
      BY <1>4, <1>6, <2>4
    <3> QED
      BY <1>5, <2>4 DEF Copy
  <2> QED
    BY <1>5, <2>3, <2>4, <2>5, <2>6
<1>11. ListHeld' /\ PanelHeld' /\ QueryHeld' /\ ChartHeld' /\ GroupsHeld'
  BY <1>1, <1>5, <1>6, <1>7, ListSame, PanelSame, QuerySame, ChartSame, GroupsSame DEF Whole
<1>12. BoardHeld'
  <2>1. shown.query \in Queries /\ shown'.query \in Queries
    BY <1>1, <1>6, ScreenType
  <2> QED
    BY <1>1, <1>5, <1>6, <1>7, <2>1, BoardSame DEF Whole
<1> QED
  BY <1>8, <1>9, <1>10, <1>11, <1>12 DEF ViewInv

LEMMA PanelLoaded ==
  ASSUME ViewInv, NEW r \in Requests, Loaded(r), req[r].op = "panel"
  PROVE  ViewInv'
<1>1. /\ ViewTyped /\ CallsHeld /\ ListHeld /\ PanelHeld /\ OpenHeld /\ QueryHeld
      /\ ChartHeld /\ BoardHeld /\ GroupsHeld
  BY DEF ViewInv
<1>2. PICK w : w = req[r].with
  OBVIOUS
<1>3. LoadEnded(r, "panel", w)
  BY <1>2, LoadEnds
<1>4. shown' = [shown EXCEPT !.panel = w.answer]
  BY <1>2 DEF Loaded
<1>5. w.answer \in RowsType /\ card' = card /\ Ended(r, {"panel"})
  BY <1>3, AnswerTypes, Operations DEF LoadEnded
<1>6. /\ shown' \in ShownType /\ shown'.panel = w.answer /\ shown'.query = shown.query
      /\ shown'.view = shown.view /\ shown'.list = shown.list /\ shown'.open = shown.open
      /\ shown'.chart = shown.chart /\ shown'.board = shown.board /\ shown'.groups = shown.groups
  BY <1>1, <1>4, <1>5, Puts DEF ViewTyped
<1>7. /\ \A p \in {"list", "open", "chart", "board", "groups"} : p \in behind => p \in behind'
      /\ Editing => Editing'
      /\ \A t : Covered(t) => Covered(t)'
      /\ \A o \in Whole : Loading(o) => Loading(o)'
      /\ \A c : Turning(c) => Turning(c)'
  BY <1>3, Operations DEF LoadEnded, Parts, Whole
<1>8. ViewTyped'
  BY <1>1, <1>3, <1>5, <1>6 DEF ViewTyped, LoadEnded, Ended
<1>9. CallsHeld'
  BY <1>5, <1>6, <1>7, CallsStillHeld
<1>10. PanelHeld'
  <2> SUFFICES ASSUME "panel" \notin behind' PROVE RowsHeld(shown.panel)'
    BY DEF PanelHeld
  <2>1. StillSo("panel", w)
    BY <1>3, Operations DEF LoadEnded
  <2>2. w.answer = Rows(Kids(Top))
    BY <2>1, AnswerForIs DEF StillSo, Loads
  <2>3. CardsTyped
    BY <1>1 DEF CardsTyped, ViewTyped
  <2>4. PICK ts \in SUBSET Cards : ts = Kids(Top) /\ \A t \in ts : card[t].live
    BY <2>3, Served
  <2>5. DOMAIN Rows(ts) = ts /\ \A t \in ts : Rows(ts)[t] = Copy(t)
    BY <2>3, RowsOf
  <2>6. \A t : Copy(t)' = Copy(t)
    BY <1>5, RightKept
  <2> QED
    BY <1>5, <1>6, <2>2, <2>4, <2>5, <2>6 DEF RowsHeld, Right
<1>11. ListHeld' /\ OpenHeld' /\ QueryHeld' /\ ChartHeld' /\ GroupsHeld'
  BY <1>1, <1>5, <1>6, <1>7, ListSame, OpenSame, QuerySame, ChartSame, GroupsSame DEF Whole
<1>12. BoardHeld'
  <2>1. shown.query \in Queries /\ shown'.query \in Queries
    BY <1>1, <1>6, ScreenType
  <2> QED
    BY <1>1, <1>5, <1>6, <1>7, <2>1, BoardSame DEF Whole
<1> QED
  BY <1>8, <1>9, <1>10, <1>11, <1>12 DEF ViewInv

LEMMA OverlaidIs ==
  ASSUME NEW ts \in SUBSET Cards, NEW us \in SUBSET Cards
  PROVE  Overlaid(Rows(ts), Rows(us)) = Rows(ts \union us)
<1>1. DOMAIN Rows(ts) = ts /\ DOMAIN Rows(us) = us
  BY DEF Rows
<1>2. /\ \A t \in ts : Rows(ts)[t] = Copy(t)
      /\ \A t \in us : Rows(us)[t] = Copy(t)
  BY DEF Rows
<1> QED
  BY <1>1, <1>2 DEF Overlaid, Rows

LEMMA OnePageMore ==
  ASSUME NEW S, NEW p \in Nat
  PROVE  /\ UNION {PageOf(S, i) : i \in 1 .. (p + 1)} = PageOf(S, p + 1) \union UNION {PageOf(S, i) : i \in 1 .. p}
         /\ UNION {PageOf(S, i) : i \in 1 .. 1} = PageOf(S, 1)
         /\ UNION {PageOf(S, i) : i \in 1 .. 0} = {}
<1>1. \A i : i \in 1 .. (p + 1) <=> i \in 1 .. p \/ i = p + 1
  OBVIOUS
<1>2. \A i : (i \in 1 .. 1 <=> i = 1) /\ i \notin 1 .. 0
  OBVIOUS
<1>3. UNION {PageOf(S, i) : i \in 1 .. (p + 1)} = PageOf(S, p + 1) \union UNION {PageOf(S, i) : i \in 1 .. p}
  BY <1>1, Zenon
<1>4. {PageOf(S, i) : i \in 1 .. 1} = {PageOf(S, 1)} /\ {PageOf(S, i) : i \in 1 .. 0} = {}
  BY <1>2
<1>5. \A T : UNION {T} = T
  OBVIOUS
<1>6. UNION {} = {}
  OBVIOUS
<1> QED
  BY <1>3, <1>4, <1>5, <1>6

LEMMA BoardLoaded ==
  ASSUME ViewInv, NEW r \in Requests, Loaded(r), req[r].op = "board"
  PROVE  ViewInv'
<1>1. /\ ViewTyped /\ CallsHeld /\ ListHeld /\ PanelHeld /\ OpenHeld /\ QueryHeld
      /\ ChartHeld /\ BoardHeld /\ GroupsHeld
  BY DEF ViewInv
<1>2. PICK w : w = req[r].with
  OBVIOUS
<1>3. LoadEnded(r, "board", w)
  BY <1>2, LoadEnds
<1>4. shown' = IF SamePage(r) THEN [shown EXCEPT !.board = w.answer] ELSE shown
  BY <1>2 DEF Loaded
<1>5. w.answer \in [Columns -> BoardType] /\ card' = card /\ Ended(r, {"board"}) /\ w \in WithType
  BY <1>3, AnswerTypes, Operations DEF LoadEnded
<1>6. /\ shown' \in ShownType /\ shown'.query = shown.query
      /\ SamePage(r) => shown'.board = w.answer
      /\ shown'.view = shown.view /\ shown'.list = shown.list /\ shown'.open = shown.open
      /\ shown'.panel = shown.panel /\ shown'.chart = shown.chart /\ shown'.groups = shown.groups
  BY <1>1, <1>4, <1>5, Puts DEF ViewTyped
<1>7. /\ \A p \in {"list", "open", "panel", "chart", "groups"} : p \in behind => p \in behind'
      /\ Editing => Editing'
      /\ \A t : Covered(t) => Covered(t)'
      /\ \A o \in {"list", "chart", "groups"} : Loading(o) => Loading(o)'
      /\ \A c : Turning(c) => Turning(c)'
  BY <1>3, Operations DEF LoadEnded, Parts, Whole
<1>8. ViewTyped'
  BY <1>1, <1>3, <1>5, <1>6 DEF ViewTyped, LoadEnded, Ended
<1>9. CallsHeld'
  BY <1>5, <1>6, <1>7, CallsStillHeld
<1>10. BoardHeld'
  <2> SUFFICES ASSUME "board" \notin behind', NEW c \in Columns PROVE BoardRight(c)'
    BY DEF BoardHeld
  <2>1. StillSo("board", w) /\ w.query = shown.query
    BY <1>3, Operations DEF LoadEnded
  <2>2. PICK q \in Queries : q = shown.query /\ CardsTyped
    BY <1>1, ScreenType DEF CardsTyped, ViewTyped
  <2>3. w.answer = [a \in Columns |-> BoardFor(q, a, 1)]
    <3>1. w.answer = AnswerFor("board", w)
      BY <2>1 DEF StillSo, Loads
    <3>2. AnswerFor("board", w) = [a \in Columns |-> BoardFor(w.query, a, 1)]
      BY AnswerForIs
    <3>3. w.query = q
      BY <2>1, <2>2
    <3> QED
      BY <3>1, <3>2, <3>3
  <2>4. shown'.board[c] = BoardFor(q, c, 1)
    BY <1>2, <1>6, <2>1, <2>3 DEF SamePage
  <2>5. 1 \in Nat
    OBVIOUS
  <2>6. shown'.board[c].page = 1 /\ shown'.board[c].rows = Rows(PageOf(InColumn(OnBoard(q), c), 1))
    BY <2>2, <2>4, <2>5, BoardForType
  <2>7. PageOf(InColumn(OnBoard(q), c), 1) = UNION {PageOf(InColumn(OnBoard(q), c), i) : i \in 1 .. shown'.board[c].page}
    BY <2>5, <2>6, OnePageMore
  <2>8. InColumn(OnBoard(shown.query), c)' = InColumn(OnBoard(q), c)
    BY <1>5, <1>6, <2>2, SameCards
  <2>9. \A ts : Rows(ts)' = Rows(ts)
    BY <1>5, SameCards
  <2> QED
    BY <2>6, <2>7, <2>8, <2>9 DEF BoardRight
<1>11. ListHeld' /\ PanelHeld' /\ OpenHeld' /\ QueryHeld' /\ ChartHeld' /\ GroupsHeld'
  BY <1>1, <1>5, <1>6, <1>7, ListSame, PanelSame, OpenSame, QuerySame, ChartSame, GroupsSame
<1> QED
  BY <1>8, <1>9, <1>10, <1>11 DEF ViewInv

LEMMA GroupsLoaded ==
  ASSUME ViewInv, NEW r \in Requests, Loaded(r), req[r].op = "groups"
  PROVE  ViewInv'
<1>1. /\ ViewTyped /\ CallsHeld /\ ListHeld /\ PanelHeld /\ OpenHeld /\ QueryHeld
      /\ ChartHeld /\ BoardHeld /\ GroupsHeld
  BY DEF ViewInv
<1>2. PICK w : w = req[r].with
  OBVIOUS
<1>3. LoadEnded(r, "groups", w)
  BY <1>2, LoadEnds
<1>4. shown' = IF SamePage(r) THEN [shown EXCEPT !.groups = w.answer] ELSE shown
  BY <1>2 DEF Loaded
<1>5. w.answer \in [Columns -> GroupType] /\ card' = card /\ Ended(r, {"groups"}) /\ w \in WithType
  BY <1>3, AnswerTypes, Operations DEF LoadEnded
<1>6. /\ shown' \in ShownType /\ shown'.query = shown.query
      /\ SamePage(r) => shown'.groups = w.answer
      /\ shown'.view = shown.view /\ shown'.list = shown.list /\ shown'.open = shown.open
      /\ shown'.panel = shown.panel /\ shown'.chart = shown.chart /\ shown'.board = shown.board
  BY <1>1, <1>4, <1>5, Puts DEF ViewTyped
<1>7. /\ \A p \in {"list", "open", "panel", "chart", "board"} : p \in behind => p \in behind'
      /\ Editing => Editing'
      /\ \A t : Covered(t) => Covered(t)'
      /\ \A o \in {"list", "chart", "board"} : Loading(o) => Loading(o)'
  BY <1>3, Operations DEF LoadEnded, Parts, Whole
<1>8. ViewTyped'
  BY <1>1, <1>3, <1>5, <1>6 DEF ViewTyped, LoadEnded, Ended
<1>9. CallsHeld'
  BY <1>5, <1>6, <1>7, CallsStillHeld
<1>10. GroupsHeld'
  <2> SUFFICES ASSUME "groups" \notin behind', NEW c \in Columns PROVE ~shown'.groups[c].more
    BY DEF GroupsHeld, GroupRight
  <2>1. StillSo("groups", w) /\ w.query = shown.query
    BY <1>3, Operations DEF LoadEnded
  <2>2. PICK q \in Queries : q = shown.query /\ CardsTyped
    BY <1>1, ScreenType DEF CardsTyped, ViewTyped
  <2>3. w.answer = [a \in Columns |-> GroupFor(q, a, 1)]
    <3>1. w.answer = AnswerFor("groups", w)
      BY <2>1 DEF StillSo, Loads
    <3>2. AnswerFor("groups", w) = [a \in Columns |-> GroupFor(w.query, a, 1)]
      BY AnswerForIs
    <3>3. w.query = q
      BY <2>1, <2>2
    <3> QED
      BY <3>1, <3>2, <3>3
  <2>4. shown'.groups[c] = GroupFor(q, c, 1)
    BY <1>2, <1>6, <2>1, <2>3 DEF SamePage
  <2>5. 1 \in Nat
    OBVIOUS
  <2> QED
    BY <2>2, <2>4, <2>5, GroupForType
<1>11. ListHeld' /\ PanelHeld' /\ OpenHeld' /\ QueryHeld' /\ ChartHeld'
  BY <1>1, <1>5, <1>6, <1>7, ListSame, PanelSame, OpenSame, QuerySame, ChartSame
<1>12. BoardHeld'
  <2>1. shown.query \in Queries /\ shown'.query \in Queries
    BY <1>1, <1>6, ScreenType
  <2> QED
    BY <1>1, <1>5, <1>6, <1>7, <2>1, BoardSame
<1> QED
  BY <1>8, <1>9, <1>10, <1>11, <1>12 DEF ViewInv

LEMMA WithMoreIs ==
  ASSUME ViewTyped, NEW w \in WithType, NEW a \in BoardType
  PROVE  /\ WithMore(w, a) \in [Columns -> BoardType]
         /\ w.page = 1 => WithMore(w, a)[w.column] = a
         /\ w.page # 1 => /\ WithMore(w, a)[w.column].page = a.page
                          /\ WithMore(w, a)[w.column].rows = Overlaid(a.rows, shown.board[w.column].rows)
         /\ \A c \in Columns \ {w.column} : WithMore(w, a)[c] \in {NoBoard, shown.board[c]}
<1>1. w.column \in Columns /\ shown.board \in [Columns -> BoardType] /\ NoBoard \in BoardType
  BY ScreenType, WithIs, NoParts
<1>2. PICK k : k = w.column /\ k \in Columns
  BY <1>1
<1>3. CASE w.page = 1 /\ w.query.site = "sprint"
  <2>1. WithMore(w, a) = [c \in Columns |-> IF c = k THEN a ELSE NoBoard]
    BY <1>2, <1>3 DEF WithMore
  <2> QED
    BY <1>1, <1>2, <1>3, <2>1
<1>4. CASE w.page = 1 /\ w.query.site # "sprint"
  <2>1. WithMore(w, a) = [shown.board EXCEPT ![k] = [a EXCEPT !.rows = a.rows]]
    BY <1>2, <1>4 DEF WithMore
  <2>2. [a EXCEPT !.rows = a.rows] = a
    BY DEF BoardType
  <2>3. WithMore(w, a) = [shown.board EXCEPT ![k] = a]
    BY <2>1, <2>2
  <2> QED
    BY <1>1, <1>2, <1>4, <2>3
<1>5. CASE w.page # 1
  <2>1. PICK o : o = Overlaid(a.rows, shown.board[k].rows)
    OBVIOUS
  <2>2. PICK b : b = [a EXCEPT !.rows = o]
    OBVIOUS
  <2>3. WithMore(w, a) = [shown.board EXCEPT ![k] = b]
    BY <1>2, <1>5, <2>1, <2>2 DEF WithMore
  <2>4. o \in RowsType
    <3>1. shown.board[k] \in BoardType
      BY <1>1, <1>2
    <3>2. a.rows \in RowsType /\ shown.board[k].rows \in RowsType
      BY <3>1 DEF BoardType
    <3> QED
      BY <2>1, <3>2, OverlaidRows
  <2>5. b \in BoardType /\ b.page = a.page /\ b.rows = o
    BY <2>2, <2>4 DEF BoardType
  <2> QED
    BY <1>1, <1>2, <1>5, <2>1, <2>3, <2>5
<1> QED
  BY <1>3, <1>4, <1>5

Shows(b, S) == b.rows = Rows(UNION {PageOf(S, p) : p \in 1 .. b.page})

\* One page more of a column, on a board that shows what it should.
LEMMA MoreShown ==
  ASSUME ViewTyped, NEW w \in WithType, w.query = shown.query, \A c \in Columns : BoardRight(c),
         w.page \in {1, shown.board[w.column].page + 1},
         NEW a, a = BoardFor(w.query, w.column, w.page), NEW c \in Columns
  PROVE  Shows(WithMore(w, a)[c], InColumn(OnBoard(shown.query), c))
<1>1. /\ CardsTyped /\ w.query \in Queries /\ w.column \in Columns /\ w.page \in Nat
      /\ shown.board \in [Columns -> BoardType] /\ \A k \in Columns : shown.board[k].page \in Nat
  BY WithIs, ScreenType DEF ViewTyped, CardsTyped
<1>2. PICK S : S = InColumn(OnBoard(shown.query), c)
  OBVIOUS
<1>3. /\ a \in BoardType /\ a.page = w.page
      /\ a.rows = Rows(PageOf(InColumn(OnBoard(shown.query), w.column), w.page))
  BY <1>1, BoardForType
<1>4. Shows(shown.board[c], S)
  BY <1>2 DEF BoardRight, Shows
<1>5. Shows(NoBoard, S)
  <2>1. UNION {PageOf(S, i) : i \in 1 .. 0} = {}
    BY <1>1, OnePageMore
  <2> QED
    BY <2>1, NoParts DEF Shows, NoRows
<1>6. CASE c # w.column
  <2>1. WithMore(w, a)[c] \in {NoBoard, shown.board[c]}
    BY <1>3, <1>6, WithMoreIs
  <2> QED
    BY <1>2, <1>4, <1>5, <2>1
<1>7. CASE c = w.column /\ w.page = 1
  <2>1. WithMore(w, a)[c] = a
    BY <1>3, <1>7, WithMoreIs
  <2>2. a.page = 1 /\ a.rows = Rows(PageOf(S, 1))
    BY <1>2, <1>3, <1>7
  <2>3. UNION {PageOf(S, i) : i \in 1 .. 1} = PageOf(S, 1)
    BY <1>1, OnePageMore
  <2>4. Shows(a, S)
    BY <2>2, <2>3 DEF Shows
  <2> QED
    BY <1>2, <2>1, <2>4
<1>8. CASE c = w.column /\ w.page # 1
  <2>1. PICK n \in Nat : n = shown.board[c].page /\ w.page = n + 1
    BY <1>1, <1>8
  <2>2. PICK b : b = WithMore(w, a)[c]
    OBVIOUS
  <2>3. b.page = n + 1 /\ b.rows = Overlaid(a.rows, shown.board[c].rows)
    BY <1>3, <1>8, <2>1, <2>2, WithMoreIs
  <2>4. PICK T : T = UNION {PageOf(S, i) : i \in 1 .. n}
    OBVIOUS
  <2>5. a.rows = Rows(PageOf(S, n + 1)) /\ shown.board[c].rows = Rows(T)
    BY <1>2, <1>3, <1>4, <1>8, <2>1, <2>4 DEF Shows
  <2>6. PageOf(S, n + 1) \in SUBSET Cards /\ T \in SUBSET Cards
    <3>1. S \in SUBSET Cards /\ \A p : PageOf(S, p) \subseteq S
      BY <1>1, <1>2, Served
    <3> QED
      BY <2>4, <3>1
  <2>7. b.rows = Rows(PageOf(S, n + 1) \union T)
    BY <2>3, <2>5, <2>6, OverlaidIs
  <2>8. UNION {PageOf(S, i) : i \in 1 .. (n + 1)} = PageOf(S, n + 1) \union T
    BY <2>4, OnePageMore
  <2>9. Shows(b, S)
    BY <2>3, <2>7, <2>8 DEF Shows
  <2> QED
    BY <1>2, <2>2, <2>9
<1> QED
  BY <1>6, <1>7, <1>8

LEMMA MoreLoaded ==
  ASSUME ViewInv, NEW r \in Requests, Loaded(r), req[r].op = "more"
  PROVE  ViewInv'
<1>1. /\ ViewTyped /\ CallsHeld /\ ListHeld /\ PanelHeld /\ OpenHeld /\ QueryHeld
      /\ ChartHeld /\ BoardHeld /\ GroupsHeld
  BY DEF ViewInv
<1>2. PICK w : w = req[r].with
  OBVIOUS
<1>3. LoadEnded(r, "more", w)
  BY <1>2, LoadEnds
<1>4. shown' = IF SamePage(r) THEN [shown EXCEPT !.board = WithMore(w, w.answer)] ELSE shown
  BY <1>2 DEF Loaded
<1>5. w.answer \in BoardType /\ card' = card /\ Ended(r, {"board"}) /\ w \in WithType
  BY <1>3, AnswerTypes, Operations DEF LoadEnded
<1>6. /\ shown' \in ShownType /\ shown'.query = shown.query
      /\ SamePage(r) => shown'.board = WithMore(w, w.answer)
      /\ shown'.view = shown.view /\ shown'.list = shown.list /\ shown'.open = shown.open
      /\ shown'.panel = shown.panel /\ shown'.chart = shown.chart /\ shown'.groups = shown.groups
  <2>1. WithMore(w, w.answer) \in [Columns -> BoardType]
    BY <1>1, <1>5, WithMoreIs
  <2> QED
    BY <1>1, <1>4, <2>1, Puts DEF ViewTyped
<1>7. /\ \A p \in {"list", "open", "panel", "chart", "groups"} : p \in behind => p \in behind'
      /\ Editing => Editing'
      /\ \A t : Covered(t) => Covered(t)'
      /\ \A o \in Whole : Loading(o) => Loading(o)'
      /\ \A c : Turning(c) => Turning(c)'
  BY <1>3, Operations DEF LoadEnded, Parts, Whole
<1>8. ViewTyped'
  BY <1>1, <1>3, <1>5, <1>6 DEF ViewTyped, LoadEnded, Ended
<1>9. CallsHeld'
  BY <1>5, <1>6, <1>7, CallsStillHeld
<1>10. BoardHeld'
  <2> SUFFICES ASSUME "board" \notin behind', shown.view = "kanban", \A c \in Columns : BoardRight(c), NEW c \in Columns
               PROVE  BoardRight(c)'
    <3>1. "board" \in behind => "board" \in behind'
      BY <1>3 DEF LoadEnded
    <3> QED
      BY <1>1, <1>6, <1>7, <3>1 DEF BoardHeld, Whole
  <2>1. StillSo("more", w) /\ w.query = shown.query /\ "board" \notin req[r].over /\ "board" \notin behind
    BY <1>3, Operations DEF LoadEnded
  <2>2. MoreOK(r)
    BY <1>1 DEF CallsHeld
  <2>3. w.page \in {1, shown.board[w.column].page + 1}
    BY <1>2, <2>1, <2>2 DEF MoreOK
  <2>4. w.answer = BoardFor(w.query, w.column, w.page)
    <3>1. w.answer = AnswerFor("more", w)
      BY <2>1 DEF StillSo, Loads
    <3> QED
      BY <3>1, AnswerForIs
  <2>5. Shows(WithMore(w, w.answer)[c], InColumn(OnBoard(shown.query), c))
    BY <1>1, <1>5, <2>1, <2>3, <2>4, MoreShown
  <2>6. shown'.board[c] = WithMore(w, w.answer)[c]
    BY <1>2, <1>6, <2>1 DEF SamePage
  <2>7. PICK S : S = InColumn(OnBoard(shown.query), c)
    OBVIOUS
  <2>8. InColumn(OnBoard(shown.query), c)' = S
    BY <1>5, <1>6, <2>7, SameCards
  <2>9. \A ts : Rows(ts)' = Rows(ts)
    BY <1>5, SameCards
  <2> QED
    BY <2>5, <2>6, <2>7, <2>8, <2>9 DEF BoardRight, Shows
<1>11. ListHeld' /\ PanelHeld' /\ OpenHeld' /\ QueryHeld' /\ ChartHeld' /\ GroupsHeld'
  BY <1>1, <1>5, <1>6, <1>7, ListSame, PanelSame, OpenSame, QuerySame, ChartSame, GroupsSame DEF Whole
<1> QED
  BY <1>8, <1>9, <1>10, <1>11 DEF ViewInv

\* A page of a group that came back empty is past the group's last: the group
\* stays locked, and had more pages before.
LEMMA TurnLoaded ==
  ASSUME ViewInv, NEW r \in Requests, Loaded(r), req[r].op = "turn"
  PROVE  ViewInv'
<1>1. /\ ViewTyped /\ CallsHeld /\ ListHeld /\ PanelHeld /\ OpenHeld /\ QueryHeld
      /\ ChartHeld /\ BoardHeld /\ GroupsHeld
  BY DEF ViewInv
<1>2. PICK w : w = req[r].with
  OBVIOUS
<1>3. LoadEnded(r, "turn", w)
  BY <1>2, LoadEnds
<1> DEFINE Put == SamePage(r) /\ w.answer.rows # NoRows /\ shown.groups[w.column].pages # 0
<1>4. shown' = IF Put THEN [shown EXCEPT !.groups[w.column] = w.answer] ELSE shown
  BY <1>2 DEF Loaded
<1> HIDE DEF Put
<1>5. /\ w.answer \in GroupType /\ card' = card /\ Ended(r, {"groups"}) /\ w \in WithType
      /\ w.query \in Queries /\ w.column \in Columns /\ w.page \in Nat /\ w.page >= 1
      /\ shown.groups \in [Columns -> GroupType] /\ CardsTyped
  BY <1>1, <1>3, AnswerTypes, Operations, WithIs, ScreenType DEF LoadEnded, ViewTyped, CardsTyped
<1>6. /\ shown' \in ShownType /\ shown'.query = shown.query
      /\ Put => shown'.groups = [shown.groups EXCEPT ![w.column] = w.answer]
      /\ ~Put => shown'.groups = shown.groups
      /\ shown'.view = shown.view /\ shown'.list = shown.list /\ shown'.open = shown.open
      /\ shown'.panel = shown.panel /\ shown'.chart = shown.chart /\ shown'.board = shown.board
  <2>1. PICK g : g = [shown.groups EXCEPT ![w.column] = w.answer]
    OBVIOUS
  <2>2. g \in [Columns -> GroupType]
    BY <1>5, <2>1
  <2>3. shown \in ShownType
    BY <1>1 DEF ViewTyped
  <2>4. Put => shown' = [shown EXCEPT !.groups = g]
    BY <1>4, <2>1
  <2> QED
    BY <1>4, <2>1, <2>2, <2>3, <2>4, Puts
<1>7. /\ \A p \in {"list", "open", "panel", "chart", "board"} : p \in behind => p \in behind'
      /\ Editing => Editing'
      /\ \A t : Covered(t) => Covered(t)'
      /\ \A o \in Whole : Loading(o) => Loading(o)'
      /\ \A c : Turning(c) => Turning(c)' \/ w.column = c
  BY <1>3, Operations DEF LoadEnded, Parts, Whole
<1>8. ViewTyped'
  BY <1>1, <1>3, <1>5, <1>6 DEF ViewTyped, LoadEnded, Ended
<1>9. CallsHeld'
  BY <1>5, <1>6, <1>7, CallsStillHeld
<1>10. GroupsHeld'
  <2> SUFFICES ASSUME "groups" \notin behind', shown.view = "groups",
                      \A c \in Columns : GroupRight(c) \/ Turning(c), NEW c \in Columns
               PROVE  GroupRight(c)' \/ Turning(c)'
    <3>1. "groups" \in behind => "groups" \in behind'
      BY <1>3 DEF LoadEnded
    <3> QED
      BY <1>1, <1>6, <1>7, <3>1 DEF GroupsHeld, Whole
  <2>1. StillSo("turn", w) /\ w.query = shown.query /\ "groups" \notin req[r].over /\ "groups" \notin behind
    BY <1>3, Operations DEF LoadEnded
  <2>2. PICK k : k = w.column /\ k \in Columns
    BY <1>5
  <2>3. PICK S : S = InColumn(Wanted(shown.query), k)
    OBVIOUS
  <2>4. w.answer = GroupFor(shown.query, k, w.page)
    <3>1. w.answer = AnswerFor("turn", w)
      BY <2>1 DEF StillSo, Loads
    <3>2. AnswerFor("turn", w) = GroupFor(w.query, w.column, w.page)
      BY AnswerForIs
    <3> QED
      BY <2>1, <2>2, <3>1, <3>2
  <2>5. ~w.answer.more /\ w.answer.rows = Rows(PageOf(S, w.page))
    BY <1>5, <2>1, <2>2, <2>3, <2>4, GroupForType
  <2>6. w.page <= shown.groups[k].pages /\ shown.groups[k].pages \in Nat
    <3>1. TurnOK(r)
      BY <1>1 DEF CallsHeld
    <3> QED
      BY <1>1, <1>2, <2>1, <2>2, <3>1, ScreenType DEF TurnOK
  <2>7. \A d : InColumn(Wanted(shown.query), d)' = InColumn(Wanted(shown.query), d)
    BY <1>5, <1>6, SameCards
  <2>8. \A ts : PagesOf(ts)' = PagesOf(ts)
    BY SameCards
  <2>9. CASE Put
    <3>1. shown'.groups[c] = IF c = k THEN w.answer ELSE shown.groups[c]
      BY <1>5, <1>6, <2>2, <2>9
    <3>2. CASE c = k
      BY <2>5, <3>1, <3>2 DEF GroupRight
    <3>3. CASE c # k
      <4>1. GroupRight(c) => GroupRight(c)'
        BY <2>7, <3>1, <3>3 DEF GroupRight, PagesOf
      <4> QED
        BY <1>7, <2>2, <3>3, <4>1
    <3> QED
      BY <3>2, <3>3
  <2>10. CASE ~Put
    <3>1. GroupRight(c) => GroupRight(c)'
      BY <1>6, <2>7, <2>10 DEF GroupRight, PagesOf
    <3>2. CASE c = k
      <4>1. SamePage(r) /\ shown.groups[k].pages # 0
        BY <1>2, <1>5, <2>1, <2>6 DEF SamePage
      <4>2. w.answer.rows = NoRows
        BY <2>2, <2>10, <4>1 DEF Put
      <4>3. S \in SUBSET Cards
        BY <1>5, <2>3, Served
      <4>4. PageOf(S, w.page) = {}
        <5>1. PICK T : T = PageOf(S, w.page) /\ T \in SUBSET Cards
          BY <1>5, <4>3, Served
        <5>2. DOMAIN Rows(T) = T
          BY <1>5, <5>1, RowsOf
        <5> QED
          BY <2>5, <4>2, <5>1, <5>2, NoRowsIs
      <4>5. PagesOf(S) < w.page
        BY <1>5, <4>3, <4>4, PastTheLast
      <4>6. PagesOf(S) \in Nat
        BY <1>5, <4>3, Served
      <4>7. GroupRight(c)
        BY <1>5, <2>3, <2>6, <3>2, <4>5, <4>6 DEF GroupRight
      <4> QED
        BY <3>1, <4>7
    <3>3. CASE c # k
      BY <1>7, <2>2, <3>1, <3>3
    <3> QED
      BY <3>2, <3>3
  <2> QED
    BY <2>9, <2>10
<1>11. ListHeld' /\ PanelHeld' /\ OpenHeld' /\ QueryHeld' /\ ChartHeld'
  BY <1>1, <1>5, <1>6, <1>7, ListSame, PanelSame, OpenSame, QuerySame, ChartSame DEF Whole
<1>12. BoardHeld'
  <2>1. shown.query \in Queries /\ shown'.query \in Queries
    BY <1>1, <1>6, ScreenType
  <2> QED
    BY <1>1, <1>5, <1>6, <1>7, <2>1, BoardSame DEF Whole
<1> QED
  BY <1>8, <1>9, <1>10, <1>11, <1>12 DEF ViewInv

-----------------------------------------------------------------------------
\* An edit that was answered: the parts it writes follow it, row by row.
Follow(z, rows, op, new) ==
  \A t \in DOMAIN z :
    \/ op \notin Deletions /\ t \in DOMAIN new /\ z[t] = new[t]
    \/ t \in DOMAIN rows /\ z[t] = rows[t] /\ (t \notin DOMAIN new \/ op \in Creations)

LEMMA FollowsEdit ==
  ASSUME NEW rows \in RowsType, NEW new \in RowsType, NEW op
  PROVE  /\ op \notin Deletions => Follow(Patched(rows, new), rows, op, new)
         /\ Follow(Without(rows, DOMAIN new), rows, op, new)
         /\ op \in Creations => Follow(Overlaid(new, rows), rows, op, new) /\ Follow(rows, rows, op, new)
<1>1. op \notin Deletions => Follow(Patched(rows, new), rows, op, new)
  BY PatchedRows DEF Follow
<1>2. Follow(Without(rows, DOMAIN new), rows, op, new)
  <2>1. PICK S, z : S = DOMAIN new /\ z = Without(rows, S)
    OBVIOUS
  <2>2. DOMAIN z = DOMAIN rows \ S /\ \A t \in DOMAIN z : z[t] = rows[t]
    BY <2>1 DEF Without, Restrict
  <2> QED
    BY <2>1, <2>2 DEF Follow
<1>3. op \in Creations => op \notin Deletions
  BY DEF Creations, Deletions
<1>4. op \in Creations => Follow(Overlaid(new, rows), rows, op, new)
  <2>1. PICK z : z = Overlaid(new, rows)
    OBVIOUS
  <2>2. DOMAIN z = DOMAIN new \union DOMAIN rows /\ \A t \in DOMAIN z : z[t] = IF t \in DOMAIN new THEN new[t] ELSE rows[t]
    BY <2>1 DEF Overlaid
  <2> QED
    BY <1>3, <2>1, <2>2 DEF Follow
<1>5. op \in Creations => Follow(rows, rows, op, new)
  BY DEF Follow
<1> QED
  BY <1>1, <1>2, <1>4, <1>5

LEMMA RowsFollow ==
  ASSUME card' = card, NEW rows, NEW z, NEW op, NEW new, RowsHeld(rows), Follow(z, rows, op, new),
         op \notin Deletions => \A t \in DOMAIN new : Right(t, new[t]),
         \A t : Covered(t) => Covered(t)' \/ (op \notin Creations /\ t \in DOMAIN new)
  PROVE  \A t \in DOMAIN z : Right(t, z[t])' \/ Covered(t)'
<1> SUFFICES ASSUME NEW t \in DOMAIN z PROVE Right(t, z[t])' \/ Covered(t)'
  OBVIOUS
<1>1. Right(t, z[t])' <=> Right(t, z[t])
  BY SameCards
<1>2. CASE op \notin Deletions /\ t \in DOMAIN new /\ z[t] = new[t]
  BY <1>1, <1>2
<1>3. CASE t \in DOMAIN rows /\ z[t] = rows[t] /\ (t \notin DOMAIN new \/ op \in Creations)
  BY <1>1, <1>3 DEF RowsHeld
<1> QED
  BY <1>2, <1>3 DEF Follow

LEMMA ListRows ==
  ASSUME NEW l \in ListType, NEW a \in RowsType
  PROVE  LET m == [l EXCEPT !.rows = a] IN m \in ListType /\ m.query = l.query /\ m.rows = a
BY DEF ListType

LEMMA OpenWrites ==
  ASSUME NEW o \in OpenType, NEW k \in RowsType
  PROVE  /\ \A c \in Copies :
              LET z == [o EXCEPT !.copy = c] IN z \in OpenType /\ z.task = o.task /\ z.copy = c
         /\ LET z == [o EXCEPT !.kids = k] IN z \in OpenType /\ z.task = o.task /\ z.copy = o.copy
         /\ LET z == [o EXCEPT !.task = 0, !.kids = k] IN z \in OpenType /\ z.task = 0
<1>1. ASSUME NEW c \in Copies
      PROVE  LET z == [o EXCEPT !.copy = c] IN z \in OpenType /\ z.task = o.task /\ z.copy = c
  BY DEF OpenType
<1>2. LET z == [o EXCEPT !.kids = k] IN z \in OpenType /\ z.task = o.task /\ z.copy = o.copy
  BY DEF OpenType
<1>3. LET z == [o EXCEPT !.task = 0, !.kids = k] IN z \in OpenType /\ z.task = 0
  BY DEF OpenType
<1> QED
  BY <1>1, <1>2, <1>3

EditShape(op, new) ==
  /\ shown' \in ShownType /\ shown'.query = shown.query /\ shown'.view = shown.view
  /\ shown'.list.query = shown.list.query
  /\ op \notin {"subupdate", "subdelete", "subcreate"} => Follow(shown'.list.rows, shown.list.rows, op, new)
  /\ op \notin {"status", "assign", "bulk"} => Follow(shown'.panel, shown.panel, op, new)
  /\ \/ shown'.open.task = 0 \/ "open" \in behind'
     \/ /\ shown'.open.task = shown.open.task /\ shown.open.task \in DOMAIN new
        /\ op \notin Deletions \union Creations /\ shown'.open.copy = new[shown.open.task]
     \/ /\ shown'.open.task = shown.open.task /\ shown'.open.copy = shown.open.copy
        /\ shown.open.task \notin DOMAIN new \/ op \in Creations

LEMMA MergedShape ==
  ASSUME ViewTyped, NEW op \in {"update", "drag"}, NEW new \in RowsType, shown' = Merged(new)
  PROVE  EditShape(op, new)
<1>1. /\ shown \in ShownType /\ shown.list \in ListType /\ shown.open \in OpenType
      /\ shown.list.rows \in RowsType /\ shown.panel \in RowsType /\ shown.open.kids \in RowsType
      /\ shown.open.task \in Cards \union {0}
  BY ScreenType DEF ViewTyped
<1>2. op \notin Deletions \union Creations
  BY DEF Deletions, Creations
<1>3. PICK l :
        /\ l = [shown.list EXCEPT !.rows = Patched(shown.list.rows, new)]
        /\ l \in ListType /\ l.query = shown.list.query /\ Follow(l.rows, shown.list.rows, op, new)
  <2>1. PICK a \in RowsType : a = Patched(shown.list.rows, new) /\ Follow(a, shown.list.rows, op, new)
    BY <1>1, <1>2, PatchedRows, FollowsEdit
  <2>2. PICK l : l = [shown.list EXCEPT !.rows = a]
    OBVIOUS
  <2>3. l \in ListType /\ l.query = shown.list.query /\ l.rows = a
    BY <1>1, <2>2, ListRows
  <2> QED
    BY <2>1, <2>2, <2>3
<1>4. PICK b \in RowsType : b = Patched(shown.panel, new) /\ Follow(b, shown.panel, op, new)
  BY <1>1, <1>2, PatchedRows, FollowsEdit
<1>5. PICK o :
        /\ o = IF IsOpen(DOMAIN new) THEN [shown.open EXCEPT !.copy = new[shown.open.task]]
               ELSE [shown.open EXCEPT !.kids = Patched(shown.open.kids, new)]
        /\ o \in OpenType /\ o.task = shown.open.task
        /\ o.copy = IF shown.open.task \in DOMAIN new THEN new[shown.open.task] ELSE shown.open.copy
  <2>1. CASE shown.open.task \in DOMAIN new
    <3>1. PICK c \in Copies : c = new[shown.open.task]
      BY <2>1, RowsAre
    <3>2. PICK o : o = [shown.open EXCEPT !.copy = c]
      OBVIOUS
    <3>3. o \in OpenType /\ o.task = shown.open.task /\ o.copy = c
      BY <1>1, <3>2, OpenWrites
    <3> QED
      BY <2>1, <3>1, <3>2, <3>3 DEF IsOpen
  <2>2. CASE shown.open.task \notin DOMAIN new
    <3>1. PICK k \in RowsType : k = Patched(shown.open.kids, new)
      BY <1>1, PatchedRows
    <3>2. PICK o : o = [shown.open EXCEPT !.kids = k]
      OBVIOUS
    <3>3. o \in OpenType /\ o.task = shown.open.task /\ o.copy = shown.open.copy
      BY <1>1, <3>2, OpenWrites
    <3> QED
      BY <2>2, <3>1, <3>2, <3>3 DEF IsOpen
  <2> QED
    BY <2>1, <2>2
<1>6. shown' = [shown EXCEPT !.list = l, !.panel = b, !.open = o]
  BY <1>3, <1>4, <1>5 DEF Merged
<1>7. /\ shown' \in ShownType /\ shown'.query = shown.query /\ shown'.view = shown.view
      /\ shown'.list = l /\ shown'.panel = b /\ shown'.open = o
  BY <1>1, <1>3, <1>4, <1>5, <1>6 DEF ShownType
<1> QED
  BY <1>2, <1>3, <1>4, <1>5, <1>7 DEF EditShape

LEMMA MergedRowShape ==
  ASSUME ViewTyped, NEW op \in {"status", "assign", "bulk"}, NEW new \in RowsType, shown' = MergedRow(new)
  PROVE  EditShape(op, new)
<1>1. /\ shown \in ShownType /\ shown.list \in ListType /\ shown.open \in OpenType
      /\ shown.list.rows \in RowsType /\ shown.panel \in RowsType /\ shown.open.kids \in RowsType
      /\ shown.open.task \in Cards \union {0}
  BY ScreenType DEF ViewTyped
<1>2. op \notin Deletions \union Creations
  BY DEF Deletions, Creations
<1>3. PICK l :
        /\ l = [shown.list EXCEPT !.rows = Patched(shown.list.rows, new)]
        /\ l \in ListType /\ l.query = shown.list.query /\ Follow(l.rows, shown.list.rows, op, new)
  <2>1. PICK a \in RowsType : a = Patched(shown.list.rows, new) /\ Follow(a, shown.list.rows, op, new)
    BY <1>1, <1>2, PatchedRows, FollowsEdit
  <2>2. PICK l : l = [shown.list EXCEPT !.rows = a]
    OBVIOUS
  <2>3. l \in ListType /\ l.query = shown.list.query /\ l.rows = a
    BY <1>1, <2>2, ListRows
  <2> QED
    BY <2>1, <2>2, <2>3
<1>4. PICK o :
        /\ o = IF IsOpen(DOMAIN new) THEN [shown.open EXCEPT !.copy = new[shown.open.task]] ELSE shown.open
        /\ o \in OpenType /\ o.task = shown.open.task
        /\ o.copy = IF shown.open.task \in DOMAIN new THEN new[shown.open.task] ELSE shown.open.copy
  <2>1. CASE shown.open.task \in DOMAIN new
    <3>1. PICK c \in Copies : c = new[shown.open.task]
      BY <2>1, RowsAre
    <3>2. PICK o : o = [shown.open EXCEPT !.copy = c]
      OBVIOUS
    <3>3. o \in OpenType /\ o.task = shown.open.task /\ o.copy = c
      BY <1>1, <3>2, OpenWrites
    <3> QED
      BY <2>1, <3>1, <3>2, <3>3 DEF IsOpen
  <2>2. CASE shown.open.task \notin DOMAIN new
    BY <1>1, <2>2 DEF IsOpen
  <2> QED
    BY <2>1, <2>2
<1>5. shown' = [shown EXCEPT !.list = l, !.open = o]
  BY <1>3, <1>4 DEF MergedRow
<1>6. /\ shown' \in ShownType /\ shown'.query = shown.query /\ shown'.view = shown.view
      /\ shown'.list = l /\ shown'.open = o
  BY <1>1, <1>3, <1>4, <1>5 DEF ShownType
<1> QED
  BY <1>2, <1>3, <1>4, <1>6 DEF EditShape

LEMMA MergedKidShape ==
  ASSUME ViewTyped, NEW new \in RowsType, shown' = MergedKid(new),
         IsOpen(DOMAIN new) => "open" \in behind'
  PROVE  EditShape("subupdate", new)
<1>1. /\ shown \in ShownType /\ shown.list \in ListType /\ shown.open \in OpenType
      /\ shown.list.rows \in RowsType /\ shown.panel \in RowsType /\ shown.open.kids \in RowsType
      /\ shown.open.task \in Cards \union {0}
  BY ScreenType DEF ViewTyped
<1>2. "subupdate" \notin Deletions
  BY DEF Deletions
<1>3. PICK b \in RowsType : b = Patched(shown.panel, new) /\ Follow(b, shown.panel, "subupdate", new)
  BY <1>1, <1>2, PatchedRows, FollowsEdit
<1>4. PICK o :
        /\ o = [shown.open EXCEPT !.kids = Patched(shown.open.kids, new)]
        /\ o \in OpenType /\ o.task = shown.open.task /\ o.copy = shown.open.copy
  <2>1. PICK k \in RowsType : k = Patched(shown.open.kids, new)
    BY <1>1, PatchedRows
  <2>2. PICK o : o = [shown.open EXCEPT !.kids = k]
    OBVIOUS
  <2>3. o \in OpenType /\ o.task = shown.open.task /\ o.copy = shown.open.copy
    BY <1>1, <2>2, OpenWrites
  <2> QED
    BY <2>1, <2>2, <2>3
<1>5. shown' = [shown EXCEPT !.panel = b, !.open = o]
  BY <1>3, <1>4 DEF MergedKid
<1>6. /\ shown' \in ShownType /\ shown'.query = shown.query /\ shown'.view = shown.view
      /\ shown'.list = shown.list /\ shown'.panel = b /\ shown'.open = o
  BY <1>1, <1>3, <1>4, <1>5 DEF ShownType
<1> QED
  BY <1>2, <1>3, <1>4, <1>6 DEF EditShape, IsOpen

LEMMA RemovedShape ==
  ASSUME ViewTyped, NEW op \in {"delete", "bulkdelete"}, NEW new \in RowsType, shown' = Removed(DOMAIN new)
  PROVE  EditShape(op, new)
<1>1. /\ shown \in ShownType /\ shown.list \in ListType /\ shown.open \in OpenType
      /\ shown.list.rows \in RowsType /\ shown.panel \in RowsType /\ shown.open.kids \in RowsType
      /\ shown.open.task \in Cards \union {0}
  BY ScreenType DEF ViewTyped
<1>2. PICK l :
        /\ l = [shown.list EXCEPT !.rows = Without(shown.list.rows, DOMAIN new)]
        /\ l \in ListType /\ l.query = shown.list.query /\ Follow(l.rows, shown.list.rows, op, new)
  <2>1. PICK a \in RowsType : a = Without(shown.list.rows, DOMAIN new) /\ Follow(a, shown.list.rows, op, new)
    BY <1>1, WithoutRows, FollowsEdit
  <2>2. PICK l : l = [shown.list EXCEPT !.rows = a]
    OBVIOUS
  <2>3. l \in ListType /\ l.query = shown.list.query /\ l.rows = a
    BY <1>1, <2>2, ListRows
  <2> QED
    BY <2>1, <2>2, <2>3
<1>3. PICK b \in RowsType : b = Without(shown.panel, DOMAIN new) /\ Follow(b, shown.panel, op, new)
  BY <1>1, WithoutRows, FollowsEdit
<1>4. PICK o :
        /\ o = IF IsOpen(DOMAIN new) THEN [shown.open EXCEPT !.task = 0, !.kids = NoRows]
               ELSE [shown.open EXCEPT !.kids = Without(shown.open.kids, DOMAIN new)]
        /\ o \in OpenType
        /\ shown.open.task \in DOMAIN new => o.task = 0
        /\ shown.open.task \notin DOMAIN new => o.task = shown.open.task /\ o.copy = shown.open.copy
  <2>1. PICK k \in RowsType, n \in RowsType : k = Without(shown.open.kids, DOMAIN new) /\ n = NoRows
    BY <1>1, NoRowsIs, WithoutRows
  <2>2. PICK o, p : o = [shown.open EXCEPT !.task = 0, !.kids = n] /\ p = [shown.open EXCEPT !.kids = k]
    OBVIOUS
  <2>3. /\ o \in OpenType /\ o.task = 0
        /\ p \in OpenType /\ p.task = shown.open.task /\ p.copy = shown.open.copy
    BY <1>1, <2>2, OpenWrites
  <2> QED
    BY <2>1, <2>2, <2>3 DEF IsOpen
<1>5. shown' = [shown EXCEPT !.list = l, !.panel = b, !.open = o]
  BY <1>2, <1>3, <1>4 DEF Removed
<1>6. /\ shown' \in ShownType /\ shown'.query = shown.query /\ shown'.view = shown.view
      /\ shown'.list = l /\ shown'.panel = b /\ shown'.open = o
  BY <1>1, <1>2, <1>3, <1>4, <1>5 DEF ShownType
<1> QED
  BY <1>2, <1>3, <1>4, <1>6 DEF EditShape

LEMMA RemovedKidShape ==
  ASSUME ViewTyped, NEW new \in RowsType, shown' = RemovedKid(DOMAIN new),
         IsOpen(DOMAIN new) => "open" \in behind'
  PROVE  EditShape("subdelete", new)
<1>1. /\ shown \in ShownType /\ shown.list \in ListType /\ shown.open \in OpenType
      /\ shown.list.rows \in RowsType /\ shown.panel \in RowsType /\ shown.open.kids \in RowsType
      /\ shown.open.task \in Cards \union {0}
  BY ScreenType DEF ViewTyped
<1>2. PICK b \in RowsType : b = Without(shown.panel, DOMAIN new) /\ Follow(b, shown.panel, "subdelete", new)
  BY <1>1, WithoutRows, FollowsEdit
<1>3. PICK o :
        /\ o = [shown.open EXCEPT !.kids = Without(shown.open.kids, DOMAIN new)]
        /\ o \in OpenType /\ o.task = shown.open.task /\ o.copy = shown.open.copy
  <2>1. PICK k \in RowsType : k = Without(shown.open.kids, DOMAIN new)
    BY <1>1, WithoutRows
  <2>2. PICK o : o = [shown.open EXCEPT !.kids = k]
    OBVIOUS
  <2>3. o \in OpenType /\ o.task = shown.open.task /\ o.copy = shown.open.copy
    BY <1>1, <2>2, OpenWrites
  <2> QED
    BY <2>1, <2>2, <2>3
<1>4. shown' = [shown EXCEPT !.panel = b, !.open = o]
  BY <1>2, <1>3 DEF RemovedKid
<1>5. /\ shown' \in ShownType /\ shown'.query = shown.query /\ shown'.view = shown.view
      /\ shown'.list = shown.list /\ shown'.panel = b /\ shown'.open = o
  BY <1>1, <1>2, <1>3, <1>4 DEF ShownType
<1> QED
  BY <1>2, <1>3, <1>5 DEF EditShape, IsOpen

LEMMA AddedShape ==
  ASSUME ViewTyped, NEW new \in RowsType
  PROVE  /\ shown' = Added(new) => EditShape("create", new)
         /\ shown' = AddedKid(new) => EditShape("subcreate", new)
<1>1. /\ shown \in ShownType /\ shown.list \in ListType /\ shown.open \in OpenType
      /\ shown.list.rows \in RowsType /\ shown.panel \in RowsType /\ shown.open.kids \in RowsType
      /\ shown.open.task \in Cards \union {0}
  BY ScreenType DEF ViewTyped
<1>2. {"create", "subcreate"} = Creations
  BY DEF Creations
<1>3. ASSUME shown' = Added(new) PROVE EditShape("create", new)
  <2>1. PICK l :
          /\ l = [shown.list EXCEPT !.rows = Overlaid(new, shown.list.rows)]
          /\ l \in ListType /\ l.query = shown.list.query /\ Follow(l.rows, shown.list.rows, "create", new)
    <3>1. PICK a \in RowsType : a = Overlaid(new, shown.list.rows) /\ Follow(a, shown.list.rows, "create", new)
      BY <1>1, <1>2, OverlaidRows, FollowsEdit
    <3>2. PICK l : l = [shown.list EXCEPT !.rows = a]
      OBVIOUS
    <3>3. l \in ListType /\ l.query = shown.list.query /\ l.rows = a
      BY <1>1, <3>2, ListRows
    <3> QED
      BY <3>1, <3>2, <3>3
  <2>2. /\ Follow(shown.panel, shown.panel, "create", new)
        /\ Follow(shown.list.rows, shown.list.rows, "create", new)
    BY <1>1, <1>2, FollowsEdit
  <2>3. shown' = shown \/ shown' = [shown EXCEPT !.list = l]
    BY <1>3, <2>1 DEF Added
  <2>4. /\ shown' \in ShownType /\ shown'.query = shown.query /\ shown'.view = shown.view
        /\ shown'.list \in {shown.list, l} /\ shown'.panel = shown.panel /\ shown'.open = shown.open
    BY <1>1, <2>1, <2>3 DEF ShownType
  <2> QED
    BY <1>2, <2>1, <2>2, <2>4 DEF EditShape
<1>4. ASSUME shown' = AddedKid(new) PROVE EditShape("subcreate", new)
  <2>1. PICK b \in RowsType : b = Overlaid(new, shown.panel) /\ Follow(b, shown.panel, "subcreate", new)
    BY <1>1, <1>2, OverlaidRows, FollowsEdit
  <2>2. shown' = [shown EXCEPT !.panel = b]
    BY <1>4, <2>1 DEF AddedKid
  <2>3. /\ shown' \in ShownType /\ shown'.query = shown.query /\ shown'.view = shown.view
        /\ shown'.list = shown.list /\ shown'.panel = b /\ shown'.open = shown.open
    BY <1>1, <2>2 DEF ShownType
  <2> QED
    BY <1>2, <2>1, <2>3 DEF EditShape
<1> QED
  BY <1>3, <1>4

LEMMA EditedKeeps ==
  ASSUME ViewInv, NEW r \in Requests, Edited(r)
  PROVE  ViewInv'
<1>1. /\ ViewTyped /\ CallsHeld /\ ListHeld /\ PanelHeld /\ OpenHeld /\ QueryHeld
      /\ ChartHeld /\ BoardHeld /\ GroupsHeld
  BY DEF ViewInv
<1>2. PICK op, w, new : op = req[r].op /\ w = req[r].with /\ new = w.answer
  OBVIOUS
<1>3. /\ req[r].step = "answered" /\ op \notin Loads
      /\ behind' = behind \union (IF Late(r) THEN PartsOf(op) ELSE {}) \union Untold(op)
                    \union (IF op \in {"subupdate", "subdelete"} /\ IsOpen(DOMAIN new) THEN {"open"} ELSE {})
      /\ Finish(r, PartsOf(op), w.next) /\ card' = card /\ acts' = acts
  BY <1>2 DEF Edited
<1>4. op \in Edits /\ op \in Calls /\ req[r].op # "idle"
  <2>1. req[r].op # "idle"
    <3>1. Idle.step = ""
      BY DEF Idle
    <3> QED
      BY <1>1, <1>3, <3>1, ACall
  <2> QED
    BY <1>1, <1>2, <1>3, <2>1, ACall DEF Calls
<1>5. w \in WithType /\ new \in RowsType /\ w.next \in Nexts /\ PartsOf(op) \in SUBSET Parts
  BY <1>1, <1>2, <1>4, ACall, WithIs, Operations DEF CallOK
<1>6. Ended(r, PartsOf(op)) /\ Others(r)
  BY <1>2, <1>3, <1>4, <1>5, Finished DEF Ended
<1>7. /\ behind \subseteq behind' /\ behind' \subseteq Parts /\ {"chart", "board", "groups"} \subseteq behind'
      /\ Untold(op) \subseteq behind'
      /\ Late(r) => PartsOf(op) \subseteq behind'
      /\ op \in {"subupdate", "subdelete"} /\ IsOpen(DOMAIN new) => "open" \in behind'
  <2>1. behind \subseteq Parts /\ "open" \in Parts
    BY <1>1 DEF ViewTyped, Parts
  <2>2. Untold(op) \subseteq Parts /\ {"chart", "board", "groups"} \subseteq Untold(op)
    BY <1>4, EditParts
  <2> QED
    BY <1>3, <1>5, <2>1, <2>2
<1>8. EditShape(op, new)
  <2>1. CASE op \in {"update", "drag"}
    <3>1. shown' = Merged(new)
      BY <1>2, <2>1 DEF Edited
    <3> QED
      BY <1>1, <1>5, <2>1, <3>1, MergedShape
  <2>2. CASE op \in {"status", "assign", "bulk"}
    <3>1. shown' = MergedRow(new)
      BY <1>2, <2>2 DEF Edited
    <3> QED
      BY <1>1, <1>5, <2>2, <3>1, MergedRowShape
  <2>3. CASE op = "subupdate"
    <3>1. shown' = MergedKid(new)
      BY <1>2, <2>3 DEF Edited
    <3> QED
      BY <1>1, <1>5, <1>7, <2>3, <3>1, MergedKidShape
  <2>4. CASE op \in {"delete", "bulkdelete"}
    <3>1. shown' = Removed(DOMAIN new)
      BY <1>2, <2>4 DEF Edited
    <3> QED
      BY <1>1, <1>5, <2>4, <3>1, RemovedShape
  <2>5. CASE op = "subdelete"
    <3>1. shown' = RemovedKid(DOMAIN new)
      BY <1>2, <2>5 DEF Edited
    <3> QED
      BY <1>1, <1>5, <1>7, <2>5, <3>1, RemovedKidShape
  <2>6. CASE op = "create"
    <3>1. shown' = Added(new)
      BY <1>2, <2>6 DEF Edited
    <3> QED
      BY <1>1, <1>5, <2>6, <3>1, AddedShape
  <2>7. CASE op = "subcreate"
    <3>1. shown' = AddedKid(new)
      BY <1>2, <2>7 DEF Edited
    <3> QED
      BY <1>1, <1>5, <2>7, <3>1, AddedShape
  <2> QED
    BY <1>4, <2>1, <2>2, <2>3, <2>4, <2>5, <2>6, <2>7 DEF Edits
<1>9. ViewTyped'
  BY <1>1, <1>3, <1>6, <1>7, <1>8 DEF ViewTyped, EditShape, Ended
<1>10. CallsHeld'
  BY <1>6, <1>7, CallsStillHeld
<1>11. ASSUME NEW p \in PartsOf(op), p \notin behind', op \notin Deletions, NEW t \in DOMAIN new
       PROVE  Right(t, new[t])
  <2>1. ~Late(r)
    BY <1>7, <1>11
  <2>2. StillSo(op, w)
    BY <1>2, <1>3, <1>4, <2>1, OnTime
  <2> QED
    BY <1>2, <1>4, <1>11, <2>2 DEF StillSo, Right
<1>12. \A t : Covered(t) => Covered(t)' \/ (op \notin Creations /\ t \in DOMAIN new)
  BY <1>2, <1>6, Excuses
<1>13. ListHeld'
  <2> SUFFICES ASSUME "list" \notin behind' PROVE RowsHeld(shown.list.rows)'
    BY DEF ListHeld
  <2>1. "list" \in PartsOf(op) /\ op \notin {"subupdate", "subdelete", "subcreate"}
    BY <1>4, <1>7, EditParts
  <2>2. RowsHeld(shown.list.rows)
    BY <1>1, <1>7 DEF ListHeld
  <2>3. PICK z : z = shown'.list.rows
    OBVIOUS
  <2>4. Follow(z, shown.list.rows, op, new)
    BY <1>8, <2>1, <2>3 DEF EditShape
  <2>5. \A t \in DOMAIN z : Right(t, z[t])' \/ Covered(t)'
    BY <1>3, <1>11, <1>12, <2>1, <2>2, <2>4, RowsFollow
  <2> QED
    BY <2>3, <2>5 DEF RowsHeld, Right
<1>14. PanelHeld'
  <2> SUFFICES ASSUME "panel" \notin behind' PROVE RowsHeld(shown.panel)'
    BY DEF PanelHeld
  <2>1. op \notin {"status", "assign", "bulk"} /\ (op # "create" => "panel" \in PartsOf(op))
    BY <1>4, <1>7, EditParts
  <2>2. RowsHeld(shown.panel)
    BY <1>1, <1>7 DEF PanelHeld
  <2>3. PICK z : z = shown'.panel
    OBVIOUS
  <2>4. Follow(z, shown.panel, op, new)
    BY <1>8, <2>1, <2>3 DEF EditShape
  <2>5. CASE op # "create"
    <3>1. \A t \in DOMAIN z : Right(t, z[t])' \/ Covered(t)'
      BY <1>3, <1>11, <1>12, <2>1, <2>2, <2>4, <2>5, RowsFollow
    <3> QED
      BY <2>3, <3>1 DEF RowsHeld, Right
  <2>6. CASE op = "create"
    <3>1. shown'.panel = shown.panel
      BY <1>1, <1>2, <2>6, ScreenType DEF Edited, Added, ShownType, ViewTyped
    <3>2. \A t : Covered(t) => Covered(t)'
      BY <1>12, <2>6 DEF Creations
    <3> QED
      BY <1>1, <1>3, <1>7, <3>1, <3>2, PanelSame DEF PanelHeld
  <2> QED
    BY <2>5, <2>6
<1>15. OpenHeld'
  <2> SUFFICES ASSUME "open" \notin behind', shown'.open.task # 0
               PROVE  Right(shown.open.task, shown.open.copy)' \/ Covered(shown.open.task)'
    BY DEF OpenHeld
  <2>1. PICK t, c : t = shown'.open.task /\ c = shown'.open.copy
    OBVIOUS
  <2>2. (Right(t, c)' <=> Right(t, c)) /\ t # 0
    BY <1>3, <2>1, SameCards
  <2>3. CASE shown.open.task = t /\ t \in DOMAIN new /\ op \notin Deletions \union Creations /\ c = new[t]
    <3>1. "open" \in PartsOf(op)
      BY <1>4, <2>3, EditParts DEF Creations
    <3>2. Right(t, c)
      BY <1>3, <1>11, <2>3, <3>1
    <3>3. Right(t, c)'
      BY <2>2, <3>2
    <3> QED
      BY <2>1, <3>3 DEF Right, Copy
  <2>4. CASE shown.open.task = t /\ shown.open.copy = c /\ (t \notin DOMAIN new \/ op \in Creations)
    <3>1. Right(t, c) \/ Covered(t)
      BY <1>1, <1>7, <2>2, <2>4 DEF OpenHeld
    <3>2. Right(t, c)' \/ Covered(t)'
      BY <1>12, <2>2, <2>4, <3>1
    <3> QED
      BY <2>1, <3>2 DEF Right, Copy, Covered
  <2> QED
    BY <1>8, <2>1, <2>3, <2>4 DEF EditShape
<1>16. QueryHeld'
  <2>1. Loading("list") => Loading("list")'
    BY <1>2, <1>4, <1>6, Excuses, Operations DEF Loads
  <2> QED
    BY <1>1, <1>7, <1>8, <2>1, QuerySame DEF EditShape
<1>17. ChartHeld' /\ BoardHeld' /\ GroupsHeld'
  BY <1>7 DEF ChartHeld, BoardHeld, GroupsHeld
<1> QED
  BY <1>9, <1>10, <1>13, <1>14, <1>15, <1>16, <1>17 DEF ViewInv

-----------------------------------------------------------------------------
\* A call that failed: what it would have written is behind.
LEMMA FailedShape ==
  ASSUME ViewTyped, NEW r \in Requests, Failed(r), NEW op, NEW w, op = req[r].op, w = req[r].with,
         w \in WithType
  PROVE  /\ shown' \in ShownType /\ shown'.query = shown.query /\ shown'.view = shown.view
         /\ shown'.list = shown.list /\ shown'.open = shown.open /\ shown'.panel = shown.panel
         /\ op # "chart" => shown'.chart = shown.chart
         /\ op \notin {"board", "more"} => shown'.board = shown.board
         /\ op # "turn" => shown'.groups = shown.groups
<1>1. shown \in ShownType /\ shown.groups \in [Columns -> GroupType] /\ w.column \in Columns
  BY ScreenType, WithIs DEF ViewTyped
<1>2. CASE op = "chart"
  <2>1. shown' = shown \/ shown' = [shown EXCEPT !.chart = NoRows]
    BY <1>2 DEF Failed
  <2>2. CASE shown' = shown
    BY <1>1, <2>2
  <2>3. CASE shown' = [shown EXCEPT !.chart = NoRows]
    BY <1>1, <1>2, <2>3, NoRowsIs DEF ShownType
  <2> QED
    BY <2>1, <2>2, <2>3
<1>3. CASE op \in {"board", "more"}
  <2>1. PICK b \in [Columns -> BoardType] : b = [c \in Columns |-> NoBoard]
    BY NoParts
  <2>2. shown' = shown \/ shown' = [shown EXCEPT !.board = b]
    BY <1>3, <2>1 DEF Failed
  <2>3. CASE shown' = shown
    BY <1>1, <2>3
  <2>4. CASE shown' = [shown EXCEPT !.board = b]
    BY <1>1, <1>3, <2>1, <2>4 DEF ShownType
  <2> QED
    BY <2>2, <2>3, <2>4
<1>4. CASE op = "turn"
  <2>1. PICK g \in [Columns -> GroupType] : g = [shown.groups EXCEPT ![w.column].more = FALSE]
    BY <1>1 DEF GroupType
  <2>2. shown' = shown \/ shown' = [shown EXCEPT !.groups[w.column].more = FALSE]
    BY <1>4 DEF Failed
  <2>3. [shown EXCEPT !.groups[w.column].more = FALSE] = [shown EXCEPT !.groups = g]
    BY <2>1
  <2>4. CASE shown' = shown
    BY <1>1, <2>4
  <2>5. CASE shown' = [shown EXCEPT !.groups = g]
    BY <1>1, <1>4, <2>1, <2>5 DEF ShownType
  <2> QED
    BY <2>2, <2>3, <2>4, <2>5
<1>5. CASE op \notin {"chart", "board", "more", "turn"}
  <2>1. shown' = shown
    BY <1>5 DEF Failed
  <2> QED
    BY <1>1, <2>1
<1> QED
  BY <1>2, <1>3, <1>4, <1>5

LEMMA FailedKeeps ==
  ASSUME ViewInv, NEW r \in Requests, Failed(r)
  PROVE  ViewInv'
<1>1. /\ ViewTyped /\ CallsHeld /\ ListHeld /\ PanelHeld /\ OpenHeld /\ QueryHeld
      /\ ChartHeld /\ BoardHeld /\ GroupsHeld
  BY DEF ViewInv
<1>2. PICK op, w : op = req[r].op /\ w = req[r].with
  OBVIOUS
<1>3. /\ req[r].step = "failed"
      /\ behind' = behind \union PartsOf(op) \union (IF op \in Loads THEN {} ELSE Untold(op))
      /\ Finish(r, PartsOf(op), IF op = "create" THEN <<>> ELSE w.next)
      /\ card' = card /\ acts' = acts
  BY <1>2 DEF Failed
<1>4. op \in Calls /\ req[r].op # "idle" /\ w \in WithType /\ w.next \in Nexts
  <2>1. Idle.step = ""
    BY DEF Idle
  <2> QED
    BY <1>1, <1>2, <1>3, <2>1, ACall, WithIs
<1>5. /\ behind \subseteq behind' /\ behind' \subseteq Parts /\ PartsOf(op) \subseteq behind'
      /\ PartsOf(op) \in SUBSET Parts /\ op \in Edits => Untold(op) \subseteq behind'
  <2>1. behind \subseteq Parts /\ PartsOf(op) \subseteq Parts
    BY <1>1, <1>4, Operations DEF ViewTyped
  <2>2. op \in Edits => op \notin Loads /\ Untold(op) \subseteq Parts
    BY Operations, EditParts
  <2>3. op \in Edits \/ op \in Loads
    BY <1>4 DEF Calls
  <2> QED
    BY <1>3, <2>1, <2>2, <2>3
<1>6. Ended(r, PartsOf(op)) /\ Others(r)
  <2>1. PICK n \in Nexts : n = IF op = "create" THEN <<>> ELSE w.next
    BY <1>4 DEF Nexts
  <2>2. Finish(r, PartsOf(op), n)
    BY <1>3, <2>1
  <2> QED
    BY <1>3, <1>4, <1>5, <2>2, Finished DEF Ended
<1>7. /\ shown' \in ShownType /\ shown'.query = shown.query /\ shown'.view = shown.view
      /\ shown'.list = shown.list /\ shown'.open = shown.open /\ shown'.panel = shown.panel
      /\ op # "chart" => shown'.chart = shown.chart
      /\ op \notin {"board", "more"} => shown'.board = shown.board
      /\ op # "turn" => shown'.groups = shown.groups
  BY <1>1, <1>2, <1>4, FailedShape
<1>8. ViewTyped'
  BY <1>1, <1>3, <1>5, <1>6, <1>7 DEF ViewTyped, Ended
<1>9. /\ op \in {"board", "more"} => "board" \in behind'
      /\ op \in {"groups", "turn"} => "groups" \in behind'
      /\ op = "chart" => "chart" \in behind'
      /\ op = "list" => "list" \in behind'
  BY <1>5, Operations
<1>10. CallsHeld'
  BY <1>5, <1>6, <1>7, <1>9, CallsStillHeld
<1>11. op \in Edits =>
         /\ {"chart", "board", "groups"} \subseteq behind'
         /\ op \notin Creations => {"list", "panel", "open"} \subseteq behind'
  BY <1>5, EditParts DEF Creations
<1>12. /\ Editing => Editing' \/ op \in Edits
       /\ \A o : Loading(o) => Loading(o)' \/ op = o
       /\ \A c : Turning(c) => Turning(c)' \/ op = "turn"
       /\ \A t : Covered(t) => Covered(t)' \/ op \in Edits \ Creations
  BY <1>2, <1>6, Excuses
<1>13. ListHeld' /\ PanelHeld' /\ OpenHeld'
  <2>1. CASE op \in Edits \ Creations
    BY <1>11, <2>1 DEF ListHeld, PanelHeld, OpenHeld
  <2>2. CASE op \notin Edits \ Creations
    BY <1>1, <1>3, <1>5, <1>7, <1>12, <2>2, ListSame, PanelSame, OpenSame
  <2> QED
    BY <2>1, <2>2
<1>14. QueryHeld'
  <2>1. CASE op = "list"
    BY <1>9, <2>1 DEF QueryHeld
  <2>2. CASE op # "list"
    BY <1>1, <1>5, <1>7, <1>12, <2>2, QuerySame
  <2> QED
    BY <2>1, <2>2
<1>15. ChartHeld'
  <2>1. CASE op = "chart" \/ op \in Edits
    BY <1>9, <1>11, <2>1 DEF ChartHeld
  <2>2. CASE op # "chart" /\ op \notin Edits
    BY <1>1, <1>3, <1>5, <1>7, <1>12, <2>2, ChartSame
  <2> QED
    BY <2>1, <2>2
<1>16. BoardHeld'
  <2>1. CASE op \in {"board", "more"} \/ op \in Edits
    BY <1>9, <1>11, <2>1 DEF BoardHeld
  <2>2. CASE op \notin {"board", "more"} /\ op \notin Edits
    <3>1. shown.query \in Queries /\ shown'.query \in Queries
      BY <1>1, <1>7, ScreenType
    <3> QED
      BY <1>1, <1>3, <1>5, <1>7, <1>12, <2>2, <3>1, BoardSame
  <2> QED
    BY <2>1, <2>2
<1>17. GroupsHeld'
  <2>1. CASE op \in {"groups", "turn"} \/ op \in Edits
    BY <1>9, <1>11, <2>1 DEF GroupsHeld
  <2>2. CASE op \notin {"groups", "turn"} /\ op \notin Edits
    BY <1>1, <1>3, <1>5, <1>7, <1>12, <2>2, GroupsSame
  <2> QED
    BY <2>1, <2>2
<1> QED
  BY <1>8, <1>10, <1>13, <1>14, <1>15, <1>16, <1>17 DEF ViewInv

-----------------------------------------------------------------------------
LEMMA LoadedKeeps ==
  ASSUME ViewInv, NEW r \in Requests, Loaded(r)
  PROVE  ViewInv'
<1>1. req[r].op \in Loads
  BY DEF Loaded
<1> QED
  BY <1>1, ListLoaded, ChartLoaded, BoardLoaded, MoreLoaded, GroupsLoaded, TurnLoaded, OpenLoaded, PanelLoaded
     DEF Loads

LEMMA NothingMoves ==
  ASSUME ViewInv, UNCHANGED <<handlerVars, viewVars>>
  PROVE  ViewInv'
<1>1. /\ ViewTyped /\ CallsHeld /\ ListHeld /\ PanelHeld /\ OpenHeld /\ QueryHeld
      /\ ChartHeld /\ BoardHeld /\ GroupsHeld
  BY DEF ViewInv
<1>2. req' = req /\ card' = card /\ shown' = shown /\ behind' = behind /\ acts' = acts
  BY DEF handlerVars, viewVars
<1>3. ViewTyped'
  BY <1>1, <1>2 DEF ViewTyped
<1>4. /\ \A t : Covered(t)' = Covered(t)
      /\ \A c : Turning(c)' = Turning(c)
      /\ Editing' = Editing
      /\ \A op : Loading(op)' = Loading(op)
  BY <1>2 DEF Covered, Turning, Editing, Loading
<1>5. CallsHeld'
  <2>1. ASSUME NEW r \in Requests PROVE Known(r)' /\ MoreOK(r)' /\ TurnOK(r)'
    <3>1. Known(r) /\ MoreOK(r) /\ TurnOK(r)
      BY <1>1 DEF CallsHeld
    <3>2. Known(r)'
      BY <1>2, <3>1, SameCards DEF Known, StillSo
    <3> QED
      BY <1>2, <3>1, <3>2 DEF MoreOK, TurnOK
  <2> QED
    BY <2>1 DEF CallsHeld
<1>6. ListHeld' /\ PanelHeld' /\ OpenHeld' /\ QueryHeld' /\ ChartHeld' /\ GroupsHeld'
  BY <1>1, <1>2, <1>4, ListSame, PanelSame, OpenSame, QuerySame, ChartSame, GroupsSame
<1>7. BoardHeld'
  <2>1. shown.query \in Queries /\ shown'.query \in Queries
    BY <1>1, <1>2, ScreenType
  <2> QED
    BY <1>1, <1>2, <1>4, <2>1, BoardSame
<1> QED
  BY <1>3, <1>5, <1>6, <1>7 DEF ViewInv

LEMMA StepKeeps ==
  ASSUME ViewInv, [ViewNext]_<<handlerVars, viewVars>>
  PROVE  ViewInv'
<1>1. ASSUME NEW r \in Requests, ViewStep(r) PROVE ViewInv'
  <2>1. CASE UserActs(r)
    BY <2>1, ChooseKeeps, AgainKeeps, MoreKeeps, TurnKeeps, OpenTaskKeeps, EditKeeps, EditSubtaskKeeps,
       AddKeeps, DragKeeps DEF UserActs
  <2>2. CASE Read(r)
    BY <2>2, ReadKeeps
  <2>3. CASE Handle(r)
    BY <2>3, HandleKeeps
  <2>4. CASE Fail(r)
    BY <2>4, FailKeeps
  <2>5. CASE Loaded(r)
    BY <2>5, LoadedKeeps
  <2>6. CASE Edited(r)
    BY <2>6, EditedKeeps
  <2>7. CASE Failed(r)
    BY <2>7, FailedKeeps
  <2> QED
    BY <1>1, <2>1, <2>2, <2>3, <2>4, <2>5, <2>6, <2>7 DEF ViewStep
<1>2. CASE CloseTask
  BY <1>2, CloseTaskKeeps
<1>3. CASE UNCHANGED <<handlerVars, viewVars>>
  BY <1>3, NothingMoves
<1> QED
  BY <1>1, <1>2, <1>3 DEF ViewNext

Starts(q, v, live) ==
  LET For(w, part, none) == IF v = w THEN part ELSE none
  IN /\ card = [t \in Cards |-> [live |-> t \in live, column |-> First, edit |-> 0]]
     /\ shown = [query |-> q, view |-> v, list |-> ListFor(q),
                 open |-> [task |-> Top, copy |-> Copy(Top), kids |-> Rows(Kids(Top))],
                 panel |-> Rows(Kids(Top)),
                 chart |-> For("gantt", Rows(PageOf(Wanted(q), 1)), NoRows),
                 board |-> [c \in Columns |-> For("kanban", BoardFor(q, c, 1), NoBoard)],
                 groups |-> [c \in Columns |-> For("groups", GroupFor(q, c, 1), NoGroup)]]
     /\ behind = For("gantt", {}, {"chart"}) \union For("kanban", {}, {"board"})
                  \union For("groups", {}, {"groups"})
     /\ acts = 0

LEMMA AtFirst ==
  ASSUME HandlersInit, ViewInit
  PROVE  ViewInv
<1>1. PICK site \in DOMAIN Scope, live \in {Cards, Cards \ Unmade} :
        \E v \in ViewsOf(site) : Starts([site |-> site, only |-> {}, page |-> 1], v, live)
  BY Zenon DEF ViewInit, Starts
<1>view. PICK v \in ViewsOf(site) : Starts([site |-> site, only |-> {}, page |-> 1], v, live)
  BY <1>1
<1>2. PICK q : q = [site |-> site, only |-> {}, page |-> 1] /\ Starts(q, v, live)
  BY <1>view
<1>3. /\ card = [t \in Cards |-> [live |-> t \in live, column |-> First, edit |-> 0]]
      /\ shown = [query |-> q, view |-> v, list |-> ListFor(q),
                  open |-> [task |-> Top, copy |-> Copy(Top), kids |-> Rows(Kids(Top))],
                  panel |-> Rows(Kids(Top)),
                  chart |-> IF v = "gantt" THEN Rows(PageOf(Wanted(q), 1)) ELSE NoRows,
                  board |-> [c \in Columns |-> IF v = "kanban" THEN BoardFor(q, c, 1) ELSE NoBoard],
                  groups |-> [c \in Columns |-> IF v = "groups" THEN GroupFor(q, c, 1) ELSE NoGroup]]
  BY <1>2, Zenon DEF Starts
<1>rest. behind \subseteq Parts /\ acts = 0
  BY <1>2 DEF Starts, Parts
<1>cards. CardsTyped /\ card[Top].live /\ Top \in Cards
  <2>1. ASSUME NEW t \in Cards PROVE card[t] \in [live : BOOLEAN, column : Columns, edit : Nat]
    <3>1. (t \in live) \in BOOLEAN
      OBVIOUS
    <3>2. \A l \in BOOLEAN :
            [live |-> l, column |-> First, edit |-> 0] \in [live : BOOLEAN, column : Columns, edit : Nat]
      BY Facts
    <3>3. card[t] = [live |-> t \in live, column |-> First, edit |-> 0]
      BY <1>3, Zenon
    <3> QED
      BY <3>1, <3>2, <3>3, Zenon
  <2>2. CardsTyped
    BY <1>3, <2>1 DEF CardsTyped
  <2>3. Top \in live /\ Top \in Cards
    BY Facts
  <2> QED
    BY <1>3, <2>2, <2>3
<1>4. q \in Queries /\ q.page = 1 /\ q.site = site /\ v \in {"list", "kanban", "gantt", "groups"}
  <2>1. q \in Queries /\ q.page = 1 /\ q.site = site
    BY <1>2 DEF Queries
  <2> QED
    BY <1>view, <2>1, LoaderIs
<1>5. PICK kids \in SUBSET Cards : kids = Kids(Top) /\ \A t \in kids : card[t].live
  BY <1>cards, Served
<1>6. /\ Rows(kids) \in RowsType /\ DOMAIN Rows(kids) = kids /\ \A t \in kids : Rows(kids)[t] = Copy(t)
  BY <1>cards, RowsOf
<1>7. PICK ch \in RowsType :
        /\ ch = IF v = "gantt" THEN Rows(PageOf(Wanted(q), 1)) ELSE NoRows
        /\ shown.chart = ch
  <2>1. PICK ts \in SUBSET Cards : ts = PageOf(Wanted(q), 1)
    BY <1>cards, Served
  <2>2. Rows(ts) \in RowsType
    BY <1>cards, RowsOf
  <2> QED
    BY <1>3, <2>1, <2>2, NoRowsIs
<1>8. PICK bo \in [Columns -> BoardType] :
        bo = [c \in Columns |-> IF v = "kanban" THEN BoardFor(q, c, 1) ELSE NoBoard]
  <2>1. ASSUME NEW c \in Columns PROVE BoardFor(q, c, 1) \in BoardType /\ NoBoard \in BoardType
    BY <1>cards, <1>4, BoardForType, NoParts
  <2> QED
    BY <2>1
<1>9. PICK gr :
        /\ gr = [c \in Columns |-> IF v = "groups" THEN GroupFor(q, c, 1) ELSE NoGroup]
        /\ gr \in [Columns -> GroupType] /\ \A c \in Columns : ~gr[c].more
  <2>1. ASSUME NEW c \in Columns
        PROVE  /\ GroupFor(q, c, 1) \in GroupType /\ NoGroup \in GroupType
               /\ ~GroupFor(q, c, 1).more /\ ~NoGroup.more
    BY <1>cards, <1>4, GroupForType, NoParts
  <2>2. PICK gr : gr = [c \in Columns |-> IF v = "groups" THEN GroupFor(q, c, 1) ELSE NoGroup]
    OBVIOUS
  <2>3. gr \in [Columns -> GroupType] /\ \A c \in Columns : ~gr[c].more
    BY <2>1, <2>2
  <2> QED
    BY <2>2, <2>3
<1>10. PICK li \in ListType : /\ li = ListFor(q) /\ li.query = q
                              /\ \A t \in DOMAIN li.rows : Right(t, li.rows[t])
  BY <1>cards, <1>4, ListForType
<1>11. PICK op \in OpenType : /\ op = [task |-> Top, copy |-> Copy(Top), kids |-> Rows(Kids(Top))]
                              /\ op.task = Top /\ op.copy = Copy(Top)
  BY <1>cards, OpenForType
<1>12. shown = [query |-> q, view |-> v, list |-> li, open |-> op, panel |-> Rows(kids), chart |-> ch,
                board |-> bo, groups |-> gr]
  BY <1>3, <1>5, <1>7, <1>8, <1>9, <1>10, <1>11
<1>13. /\ shown \in ShownType /\ shown.query = q /\ shown.view = v /\ shown.list = li /\ shown.open = op
       /\ shown.panel = Rows(kids) /\ shown.chart = ch /\ shown.board = bo /\ shown.groups = gr
  BY <1>4, <1>6, <1>9, <1>12 DEF ShownType
<1>14. \A r \in Requests : req[r] = Idle /\ req[r].op = "idle" /\ req[r].step = ""
  BY DEF HandlersInit, Idle
<1>15. ViewTyped
  <2>1. req \in [Requests -> {Idle} \union CallType]
    BY DEF HandlersInit
  <2>2. \A r \in Requests : CallOK(req[r])
    BY <1>14, Operations DEF CallOK
  <2> QED
    BY <1>rest, <1>cards, <1>13, <2>1, <2>2 DEF ViewTyped, CardsTyped
<1>16. CallsHeld
  BY <1>14, Operations DEF CallsHeld, Known, MoreOK, TurnOK
<1>17. ListHeld /\ PanelHeld /\ OpenHeld /\ QueryHeld
  BY <1>cards, <1>5, <1>6, <1>10, <1>11, <1>13 DEF ListHeld, PanelHeld, OpenHeld, QueryHeld, RowsHeld, Right
<1>18. ChartHeld
  BY <1>4, <1>7, <1>13 DEF ChartHeld, ChartRight
<1>19. BoardHeld
  <2> SUFFICES ASSUME v = "kanban", NEW c \in Columns PROVE BoardRight(c)
    BY <1>13 DEF BoardHeld
  <2>1. shown.board[c] = BoardFor(q, c, 1) /\ 1 \in Nat
    BY <1>8, <1>13
  <2>2. shown.board[c].page = 1 /\ shown.board[c].rows = Rows(PageOf(InColumn(OnBoard(q), c), 1))
    BY <1>cards, <1>4, <2>1, BoardForType
  <2>3. UNION {PageOf(InColumn(OnBoard(q), c), p) : p \in 1 .. 1} = PageOf(InColumn(OnBoard(q), c), 1)
    BY <2>1, OnePageMore
  <2> QED
    BY <1>13, <2>2, <2>3 DEF BoardRight
<1>20. GroupsHeld
  BY <1>9, <1>13 DEF GroupsHeld, GroupRight
<1> QED
  BY <1>15, <1>16, <1>17, <1>18, <1>19, <1>20 DEF ViewInv

\* When no call is under way, nothing is excused.
LEMMA NoExcuses ==
  ASSUME ViewInv
  PROVE  ScreenTrue
<1>1. /\ ViewTyped /\ ListHeld /\ PanelHeld /\ OpenHeld /\ QueryHeld /\ ChartHeld /\ BoardHeld /\ GroupsHeld
  BY DEF ViewInv
<1>2. AllAnswered =>
        /\ ~Editing /\ \A op \in Whole : ~Loading(op)
        /\ \A c : ~Turning(c)
        /\ \A t : ~Covered(t)
  <2>1. AllAnswered => \A r \in Requests : req[r].op = "idle"
    BY DEF AllAnswered, Active
  <2>2. "idle" \notin Edits /\ "idle" \notin Whole
    BY DEF Edits, Whole
  <2> QED
    BY <2>1, <2>2 DEF Editing, Loading, Turning, Covered
<1>3. Follows("list") => /\ True(shown.list.rows)
                         /\ shown.view = "list" => shown.list.query = shown.query
  BY <1>1, <1>2 DEF Follows, ListHeld, QueryHeld, RowsHeld, Right, True, Whole
<1>4. Follows("open") /\ shown.open.task # 0 =>
        card[shown.open.task].live /\ shown.open.copy = Copy(shown.open.task)
  BY <1>1, <1>2 DEF Follows, OpenHeld, Right
<1>5. Follows("panel") => True(shown.panel)
  BY <1>1, <1>2 DEF Follows, PanelHeld, RowsHeld, Right, True
<1>6. Follows("chart") /\ shown.view = "gantt" /\ shown.query.site = "project" =>
        shown.chart = Rows(PageOf(Wanted(shown.query), shown.query.page))
  BY <1>1, <1>2 DEF Follows, ChartHeld, ChartRight, Whole
<1>7. Follows("groups") /\ shown.view = "groups" =>
        \A c \in Columns :
          shown.groups[c].more => PagesOf(InColumn(Wanted(shown.query), c)) < shown.groups[c].pages
  BY <1>1, <1>2 DEF Follows, GroupsHeld, GroupRight, Whole
<1>8. Follows("board") /\ shown.view = "kanban" =>
        \A c \in Columns :
          shown.board[c].rows = Rows(UNION {PageOf(InColumn(OnBoard(shown.query), c), p) :
                                              p \in 1 .. shown.board[c].page})
  BY <1>1, <1>2 DEF Follows, BoardHeld, BoardRight, Whole
<1> QED
  BY <1>3, <1>4, <1>5, <1>6, <1>7, <1>8 DEF ScreenTrue

LEMMA Held == ViewSpec => []ViewInv
<1>1. HandlersInit /\ ViewInit => ViewInv
  BY AtFirst
<1>2. ViewInv /\ [ViewNext]_<<handlerVars, viewVars>> => ViewInv'
  BY StepKeeps
<1> QED
  BY <1>1, <1>2, PTL DEF ViewSpec

\* The calls under way, the server's tasks and what the tab shows stay of their
\* types: an answer is of the type its call asked for, and no load leaves a part
\* of the screen that the views could not draw (TaskContext, the task pages).
THEOREM ViewTypes == ViewSpec => []ViewTyped
<1>1. ViewInv => ViewTyped
  BY DEF ViewInv
<1> QED
  BY <1>1, Held, PTL

\* Once every call has been answered, the list, the open task, its panel, the
\* chart, the groups and the board show what was last asked for as the server
\* holds it, each unless it was written out of order or not at all since: for
\* any tasks, pages, calls at a time and acts of the user (TaskContext and the
\* task pages).
THEOREM Screen == ViewSpec => []ScreenTrue
<1>1. ViewInv => ScreenTrue
  BY NoExcuses
<1> QED
  BY <1>1, Held, PTL
=============================================================================
