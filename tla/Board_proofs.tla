---------------------------- MODULE Board_proofs ----------------------------
(***************************************************************************)
(* For any number of requests, projects, workflows, statuses, tasks and    *)
(* sprints: what the checks of the sprints, the workflows and the tasks of *)
(* a board promise, for as long as no other request overtakes the one that *)
(* made them; and what a browser tab keeps of the places around them.      *)
(* Sprints, tasks and places share no state: one follows the other.        *)
(***************************************************************************)
EXTENDS TaskEdits, Sprints, Directory, FiniteSetTheorems, WellFoundedInduction, TLAPS

\* A request whose data is in D.
Ops == {"idle"} \union SprintOps \union FlowOps \union StatusOps \union TaskOps
Steps == {"", "write", "update", "next", "store", "insert", "revive", "check", "clear", "assign",
          "reply"}
RequestOf(D) == [op : Ops, step : Steps, with : D, over : SUBSET Ops]

\* A step of r: it goes on as y, and what it wrote, w, overtakes the others.
Moved(D, r, y, w) ==
  /\ req' \in [Requests -> RequestOf(D)] /\ req'[r] = y /\ y \in RequestOf(D)
  /\ \A q \in Requests \ {r} :
       /\ req'[q].op = req[q].op /\ req'[q].step = req[q].step /\ req'[q].with = req[q].with
       /\ req'[q].over = IF req[q].op = "idle" THEN req[q].over ELSE req[q].over \union w

LEMMA IdleType ==
  ASSUME NEW D, NoData \in D
  PROVE  Idle \in RequestOf(D) /\ Idle.op = "idle" /\ Idle.step = "" /\ Idle.over = {}
<1>1. PICK x : x = NoData
  OBVIOUS
<1>2. Idle = [op |-> "idle", step |-> "", with |-> x, over |-> {}] /\ x \in D
  BY <1>1 DEF Idle
<1>3. Idle \in RequestOf(D)
  BY <1>2 DEF RequestOf, Ops, Steps
<1> QED
  BY <1>2, <1>3

LEMMA GoOnMoves ==
  ASSUME NEW D, req \in [Requests -> RequestOf(D)], NEW r \in Requests, NEW step \in Steps,
         NEW with \in D, GoOn(r, step, with)
  PROVE  \E y \in RequestOf(D) : /\ Moved(D, r, y, {}) /\ y.op = req[r].op /\ y.step = step
                                 /\ y.with = with /\ y.over = req[r].over
<1>1. PICK y : y = [req[r] EXCEPT !.step = step, !.with = with]
  OBVIOUS
<1>2. y \in RequestOf(D) /\ y.op = req[r].op /\ y.step = step /\ y.with = with /\ y.over = req[r].over
  BY <1>1 DEF RequestOf
<1>3. req' = [req EXCEPT ![r] = y]
  BY <1>1 DEF GoOn
<1>4. Moved(D, r, y, {})
  BY <1>2, <1>3 DEF Moved
<1> QED
  BY <1>2, <1>4

OthersOvertaken(D, r, op, o) ==
  /\ o \in [Requests -> RequestOf(D)]
  /\ \A q \in Requests \ {r} :
       /\ o[q].op = req[q].op /\ o[q].step = req[q].step /\ o[q].with = req[q].with
       /\ o[q].over = IF req[q].op = "idle" THEN req[q].over ELSE req[q].over \union {op}

LEMMA OvertakenType ==
  ASSUME NEW D, req \in [Requests -> RequestOf(D)], NEW r \in Requests, NEW op \in Ops
  PROVE  OthersOvertaken(D, r, op, Overtaken(r, op)) /\ Overtaken(r, op)[r] = req[r]
<1>1. \A q \in Requests : [req[q] EXCEPT !.over = @ \union {op}] \in RequestOf(D)
  BY DEF RequestOf
<1>2. ASSUME NEW q \in Requests \ {r}
      PROVE  /\ Overtaken(r, op)[q] \in RequestOf(D)
             /\ Overtaken(r, op)[q].op = req[q].op /\ Overtaken(r, op)[q].step = req[q].step
             /\ Overtaken(r, op)[q].with = req[q].with
             /\ Overtaken(r, op)[q].over = IF req[q].op = "idle" THEN req[q].over
                                           ELSE req[q].over \union {op}
  <2>1. Overtaken(r, op)[q] = IF req[q].op # "idle" THEN [req[q] EXCEPT !.over = @ \union {op}] ELSE req[q]
    BY DEF Overtaken, Active
  <2> QED
    BY <1>1, <2>1 DEF RequestOf
<1>3. Overtaken(r, op)[r] = req[r]
  BY DEF Overtaken
<1>4. Overtaken(r, op) \in [Requests -> RequestOf(D)]
  BY <1>2, <1>3 DEF Overtaken
<1> QED
  BY <1>2, <1>3, <1>4 DEF OthersOvertaken

LEMMA CommitAndMoves ==
  ASSUME NEW D, req \in [Requests -> RequestOf(D)], NEW r \in Requests, NEW step \in Steps,
         NEW with \in D, NEW w, w = {req[r].op},
         CommitAnd(r, step, with)
  PROVE  \E y \in RequestOf(D) : /\ Moved(D, r, y, w) /\ y.op = req[r].op /\ y.step = step
                                 /\ y.with = with /\ y.over = req[r].over
<1>1. PICK y : y = [req[r] EXCEPT !.step = step, !.with = with]
  OBVIOUS
<1>2. y \in RequestOf(D) /\ y.op = req[r].op /\ y.step = step /\ y.with = with /\ y.over = req[r].over
  BY <1>1 DEF RequestOf
<1>3. PICK o : o = Overtaken(r, req[r].op)
  OBVIOUS
<1>4. o[r] = req[r] /\ OthersOvertaken(D, r, req[r].op, o)
  <2>1. req[r].op \in Ops
    BY DEF RequestOf
  <2> QED
    BY <1>3, <2>1, OvertakenType
<1>5. req' = [o EXCEPT ![r] = y]
  BY <1>1, <1>3, <1>4 DEF CommitAnd
<1>6. Moved(D, r, y, w)
  BY <1>2, <1>4, <1>5 DEF Moved, OthersOvertaken
<1> QED
  BY <1>2, <1>6

LEMMA CommitAndSteps ==
  ASSUME NEW D, req \in [Requests -> RequestOf(D)], NEW r \in Requests, NEW step \in Steps,
         NEW with \in D, CommitAnd(r, step, with)
  PROVE  req'[r].step = step
<1>1. PICK w : w = {req[r].op}
  OBVIOUS
<1>2. PICK y \in RequestOf(D) : /\ Moved(D, r, y, w) /\ y.op = req[r].op /\ y.step = step
                                /\ y.with = with /\ y.over = req[r].over
  BY <1>1, CommitAndMoves
<1> QED
  BY <1>2 DEF Moved

LEMMA CommitMoves ==
  ASSUME NEW D, NoData \in D, req \in [Requests -> RequestOf(D)], NEW r \in Requests, Commit(r)
  PROVE  Moved(D, r, Idle, {req[r].op})
<1>1. PICK o : o = Overtaken(r, req[r].op)
  OBVIOUS
<1>2. req[r].op \in Ops
  BY DEF RequestOf
<1>3. OthersOvertaken(D, r, req[r].op, o) /\ req' = [o EXCEPT ![r] = Idle]
  BY <1>1, <1>2, OvertakenType DEF Commit
<1> QED
  BY <1>3, IdleType DEF Moved, OthersOvertaken

LEMMA AnswerMoves ==
  ASSUME NEW D, NoData \in D, req \in [Requests -> RequestOf(D)], NEW r \in Requests, Answer(r)
  PROVE  Moved(D, r, Idle, {})
BY IdleType DEF Moved, Answer

LEMMA OnceMoves ==
  ASSUME NEW D, req \in [Requests -> RequestOf(D)], NEW r \in Requests, NEW op \in Ops, Once(r, op)
  PROVE  Moved(D, r, req[r], {op}) /\ req[r].op = "idle" /\ req[r] \in RequestOf(D)
<1>1. OthersOvertaken(D, r, op, req') /\ req'[r] = req[r] /\ req[r].op = "idle"
  BY OvertakenType DEF Once, Active
<1> QED
  BY <1>1 DEF Moved, OthersOvertaken

LEMMA AskMoves ==
  ASSUME NEW D, req \in [Requests -> RequestOf(D)], NEW r \in Requests, NEW op \in Ops,
         NEW step \in Steps, NEW with \in D, Ask(r, op, step, with)
  PROVE  \E y \in RequestOf(D) : /\ Moved(D, r, y, {}) /\ y.op = op /\ y.step = step
                                 /\ y.with = with /\ y.over = {} /\ req[r].op = "idle"
<1>1. PICK y : y = [op |-> op, step |-> step, with |-> with, over |-> {}]
  OBVIOUS
<1>2. y \in RequestOf(D) /\ y.op = op /\ y.step = step /\ y.with = with /\ y.over = {}
  BY <1>1 DEF RequestOf
<1>3. req' = [req EXCEPT ![r] = y] /\ req[r].op = "idle"
  BY <1>1 DEF Ask, Active
<1>4. Moved(D, r, y, {})
  BY <1>2, <1>3 DEF Moved
<1> QED
  BY <1>2, <1>3, <1>4

-----------------------------------------------------------------------------
(***************************************************************************)
(* The sprints.  What a request read of them holds until it writes, unless *)
(* an operation that could change it has overtaken the request.            *)
(***************************************************************************)

SprintRow == [state : {"none", "live", "gone"}, prj : Projects, status : SprintStatuses,
              dated : BOOLEAN, archived : BOOLEAN, slug : Int]
UpdateData == [id : Sprints, status : SprintStatuses]
ReadData == [todo : SUBSET Sprints]
StoreData == [todo : SUBSET Sprints, id : Sprints, slug : Nat]
SprintData == SprintRow \union UpdateData \union Sprints \union ReadData \union StoreData
              \union {NoData}

SprintTyped == sprint \in [Sprints -> SprintRow] /\ req \in [Requests -> RequestOf(SprintData)]

Updaters == {"updateSprint", "startSprint", "completeSprint"}
Makers == {"createSprint", "updateSprint", "startSprint", "completeSprint"}
Sluggers == {"readSprints", "createSprint", "removeSprint"}

CreateOK(x) ==
  x.op = "createSprint" =>
    /\ x.step = "write" /\ x.with \in SprintRow /\ x.with.state = "live"
    /\ x.with.status = "ACTIVE" /\ x.over \intersect Makers = {} => ActiveIn(x.with.prj) = {}

UpdateOK(x) ==
  x.op \in Updaters =>
    /\ x.step \in {"update", "write"} /\ x.with \in UpdateData /\ sprint[x.with.id].state # "none"
    /\ x.op = "completeSprint" => x.with.status = "COMPLETED"
    /\ /\ x.step = "write" /\ x.with.status = "ACTIVE" /\ x.over \intersect Makers = {}
       /\ x.with.id \in Stored
       => \/ sprint[x.with.id].status = "ACTIVE"
          \/ ActiveIn(sprint[x.with.id].prj) \subseteq {x.with.id}

RemoveOK(x) ==
  x.op = "removeSprint" =>
    /\ x.step = "write" /\ x.with \in Sprints /\ sprint[x.with].state # "none"
    /\ x.over \intersect {"updateSprint", "startSprint"} = {} /\ x.with \in Stored =>
         sprint[x.with].status # "ACTIVE"

\* The sprints that a read is still to give a slug.
ToSlug(x) == IF x.step = "store" THEN x.with.todo \union {x.with.id} ELSE x.with.todo

ReadOK(x) ==
  x.op = "readSprints" =>
    /\ \/ x.step = "next" /\ x.with \in ReadData
       \/ x.step = "store" /\ x.with \in StoreData /\ x.with.id \notin x.with.todo
    /\ \A s \in ToSlug(x) : sprint[s].state # "none"
    /\ x.over \intersect {"readSprints"} = {} => \A s \in ToSlug(x) : sprint[s].slug = NoSlug
    /\ x.over \intersect Sluggers = {} =>
         /\ ToSlug(x) \subseteq Stored
         /\ x.step = "store" => \A s \in In(sprint[x.with.id].prj) : sprint[s].slug # x.with.slug

SprintReqOK(x) ==
  /\ x.op \in {"idle", "createSprint", "removeSprint", "readSprints"} \union Updaters
  /\ x.op = "idle" => x.step = ""
  /\ CreateOK(x) /\ UpdateOK(x) /\ RemoveOK(x) /\ ReadOK(x)

SprintIInv ==
  /\ SprintTyped /\ SprintTypeOK
  /\ \A r \in Requests : SprintReqOK(req[r])

\* What a step that overtakes the others with w has to leave to them.
SprintsFramed(w) ==
  /\ \A s \in Sprints : sprint[s].state # "none" =>
       /\ sprint'[s].state # "none" /\ sprint'[s].prj = sprint[s].prj
       /\ s \in Stored' => s \in Stored
       /\ "readSprints" \notin w => sprint'[s].slug = sprint[s].slug
       /\ w \intersect {"updateSprint", "startSprint"} = {} =>
            (sprint'[s].status = "ACTIVE" => sprint[s].status = "ACTIVE")
  /\ w \intersect Makers = {} =>
       \A s \in Stored' : s \in Stored /\ (sprint'[s].status = "ACTIVE" <=> sprint[s].status = "ACTIVE")
  /\ w \intersect Sluggers = {} => Stored' = Stored

LEMMA SprintDataFacts ==
  /\ SprintRow \subseteq SprintData /\ UpdateData \subseteq SprintData /\ Sprints \subseteq SprintData
  /\ ReadData \subseteq SprintData /\ StoreData \subseteq SprintData /\ NoData \in SprintData
BY DEF SprintData

LEMMA SprintOthersKeep ==
  ASSUME SprintIInv, NEW r \in Requests, NEW y, NEW w, Moved(SprintData, r, y, w),
         SprintsFramed(w), NEW q \in Requests \ {r}
  PROVE  SprintReqOK(req[q])'
<1>1. PICK a, b : a = req[q] /\ b = req'[q]
  OBVIOUS
<1>2. /\ a \in RequestOf(SprintData) /\ b \in RequestOf(SprintData)
      /\ b.op = a.op /\ b.step = a.step /\ b.with = a.with
      /\ a.op # "idle" => b.over = a.over \union w
  BY <1>1 DEF SprintIInv, SprintTyped, Moved
<1>3. SprintReqOK(a) /\ sprint \in [Sprints -> SprintRow]
  BY <1>1 DEF SprintIInv, SprintTyped
<1>4. SprintReqOK(req[q])' <=> SprintReqOK(b)'
  BY <1>1
<1>5. ASSUME w \intersect Makers = {}, NEW p \in Projects
      PROVE  ActiveIn(p)' \subseteq ActiveIn(p)
  BY <1>5 DEF SprintsFramed, ActiveIn, In, Stored
<1>6. CreateOK(b)'
  <2> HIDE DEF ActiveIn
  <2> QED
    BY <1>2, <1>3, <1>5 DEF SprintReqOK, CreateOK, SprintRow
<1>7. UpdateOK(b)'
  <2>1. PICK i : i = a.with.id
    OBVIOUS
  <2> SUFFICES ASSUME b.op \in Updaters
               PROVE  UpdateOK(b)'
    BY DEF UpdateOK
  <2>2. /\ b.step \in {"update", "write"} /\ b.with \in UpdateData /\ i \in Sprints /\ b.with.id = i
        /\ sprint[i].state # "none"
        /\ b.op = "completeSprint" => b.with.status = "COMPLETED"
    BY <1>2, <1>3, <2>1 DEF SprintReqOK, UpdateOK, UpdateData
  <2>3. sprint'[i].state # "none" /\ sprint'[i].prj = sprint[i].prj /\ (i \in Stored' => i \in Stored)
    BY <2>2 DEF SprintsFramed
  <2>4. ASSUME b.step = "write", b.with.status = "ACTIVE", b.over \intersect Makers = {}, i \in Stored'
        PROVE  sprint'[i].status = "ACTIVE" \/ ActiveIn(sprint[i].prj)' \subseteq {i}
    <3>1. a.over \intersect Makers = {} /\ w \intersect Makers = {}
      BY <1>2, <2>4 DEF Updaters
    <3>2. sprint[i].status = "ACTIVE" \/ ActiveIn(sprint[i].prj) \subseteq {i}
      BY <1>2, <1>3, <2>1, <2>2, <2>3, <2>4, <3>1 DEF SprintReqOK, UpdateOK
    <3>3. sprint[i].status = "ACTIVE" => sprint'[i].status = "ACTIVE"
      BY <2>4, <3>1 DEF SprintsFramed
    <3>4. PICK p \in Projects : p = sprint[i].prj
      BY <1>3, <2>2 DEF SprintRow
    <3>5. ActiveIn(p)' \subseteq ActiveIn(p)
      BY <1>5, <3>1
    <3>6. ActiveIn(sprint[i].prj)' = ActiveIn(p)'
      BY <2>3, <3>4 DEF ActiveIn, In
    <3> HIDE DEF ActiveIn
    <3> QED
      BY <3>2, <3>3, <3>4, <3>5, <3>6
  <2> QED
    BY <2>1, <2>2, <2>3, <2>4 DEF UpdateOK
<1>8. RemoveOK(b)'
  BY <1>2, <1>3 DEF SprintReqOK, RemoveOK, SprintsFramed
<1>9. ReadOK(b)'
  <2> SUFFICES ASSUME b.op = "readSprints"
               PROVE  ReadOK(b)'
    BY DEF ReadOK
  <2>1. /\ \/ b.step = "next" /\ b.with \in ReadData
           \/ b.step = "store" /\ b.with \in StoreData /\ b.with.id \notin b.with.todo
        /\ ToSlug(b) = ToSlug(a) /\ \A s \in ToSlug(a) : sprint[s].state # "none"
    BY <1>2, <1>3 DEF SprintReqOK, ReadOK, ToSlug
  <2>2. ToSlug(a) \subseteq Sprints
    BY <1>2, <2>1 DEF ToSlug, ReadData, StoreData
  <2>3. \A s \in ToSlug(b) : sprint'[s].state # "none"
    BY <2>1, <2>2 DEF SprintsFramed
  <2>4. ASSUME b.over \intersect {"readSprints"} = {}
        PROVE  \A s \in ToSlug(b) : sprint'[s].slug = NoSlug
    <3>1. a.over \intersect {"readSprints"} = {} /\ "readSprints" \notin w
      BY <1>2, <2>4
    <3> QED
      BY <1>2, <1>3, <2>1, <2>2, <3>1 DEF SprintReqOK, ReadOK, SprintsFramed
  <2>5. ASSUME b.over \intersect Sluggers = {}
        PROVE  /\ ToSlug(b) \subseteq Stored'
               /\ b.step = "store" => \A s \in In(sprint[b.with.id].prj)' : sprint'[s].slug # b.with.slug
    <3>1. a.over \intersect Sluggers = {} /\ w \intersect Sluggers = {} /\ "readSprints" \notin w
      BY <1>2, <2>5 DEF Sluggers
    <3>2. /\ ToSlug(a) \subseteq Stored
          /\ a.step = "store" => \A s \in In(sprint[a.with.id].prj) : sprint[s].slug # a.with.slug
      BY <1>2, <1>3, <3>1 DEF SprintReqOK, ReadOK
    <3>3. Stored' = Stored /\ \A s \in Stored : sprint'[s].prj = sprint[s].prj /\ sprint'[s].slug = sprint[s].slug
      BY <3>1 DEF SprintsFramed, Stored
    <3>4. b.step = "store" => b.with.id \in ToSlug(a)
      BY <1>2 DEF ToSlug
    <3>5. \A p : In(p)' = In(p)
      BY <3>3 DEF In
    <3> QED
      BY <1>2, <2>1, <3>2, <3>3, <3>4, <3>5 DEF In
  <2> QED
    BY <2>1, <2>3, <2>4, <2>5 DEF ReadOK
<1>10. /\ b.op \in {"idle", "createSprint", "removeSprint", "readSprints"} \union Updaters
       /\ b.op = "idle" => b.step = ""
  BY <1>2, <1>3 DEF SprintReqOK
<1> QED
  BY <1>4, <1>6, <1>7, <1>8, <1>9, <1>10 DEF SprintReqOK

LEMMA SprintStepKeeps ==
  ASSUME SprintIInv, NEW r \in Requests, NEW y, NEW w, Moved(SprintData, r, y, w),
         SprintsFramed(w), sprint' \in [Sprints -> SprintRow], SprintTypeOK', SprintReqOK(y)'
  PROVE  SprintIInv'
<1>1. SprintReqOK(req[r])'
  <2>1. y = req'[r]
    BY DEF Moved
  <2> QED
    BY <2>1
<1>2. ASSUME NEW q \in Requests
      PROVE  SprintReqOK(req[q])'
  BY <1>1, SprintOthersKeep
<1> QED
  BY <1>2 DEF SprintIInv, SprintTyped, Moved

LEMMA SprintAtRest == ASSUME NEW y, y = Idle PROVE SprintReqOK(y)'
BY DEF Idle, SprintReqOK, CreateOK, UpdateOK, RemoveOK, ReadOK, Updaters

\* Steps that write nothing.
LEMMA SprintLookingKeeps ==
  ASSUME SprintIInv, NEW r \in Requests, NEW y, Moved(SprintData, r, y, {}), UNCHANGED sprint,
         SprintReqOK(y)
  PROVE  SprintIInv'
<1>1. Stored' = Stored
  BY DEF Stored
<1>2. SprintsFramed({})
  BY <1>1 DEF SprintsFramed
<1>3. \A p : In(p)' = In(p) /\ ActiveIn(p)' = ActiveIn(p)
  BY <1>1 DEF In, ActiveIn
<1>4. SprintReqOK(y)'
  <2>1. CreateOK(y)' /\ RemoveOK(y)'
    BY <1>1, <1>3 DEF SprintReqOK, CreateOK, RemoveOK
  <2>2. UpdateOK(y)'
    BY <1>1, <1>3 DEF SprintReqOK, UpdateOK
  <2>3. ReadOK(y)'
    BY <1>1, <1>3 DEF SprintReqOK, ReadOK, ToSlug
  <2> QED
    BY <2>1, <2>2, <2>3 DEF SprintReqOK
<1>5. sprint' \in [Sprints -> SprintRow] /\ SprintTypeOK'
  BY <1>1 DEF SprintIInv, SprintTyped, SprintTypeOK
<1> QED
  BY <1>2, <1>4, <1>5, SprintStepKeeps

LEMMA SprintInitIInv == HandlersInit /\ SprintInit => SprintIInv
<1> SUFFICES ASSUME HandlersInit, SprintInit PROVE SprintIInv
  OBVIOUS
<1>1. \A r \in Requests : req[r] = Idle
  BY DEF HandlersInit
<1>2. req \in [Requests -> RequestOf(SprintData)]
  BY <1>1, IdleType, SprintDataFacts DEF HandlersInit
<1>3. ASSUME NEW r \in Requests
      PROVE  SprintReqOK(req[r])
  <2>1. PICK x : x = req[r]
    OBVIOUS
  <2>2. x.op = "idle" /\ x.step = ""
    BY <1>1, <2>1, IdleType, SprintDataFacts
  <2>3. SprintReqOK(x)
    BY <2>2 DEF SprintReqOK, CreateOK, UpdateOK, RemoveOK, ReadOK, Updaters
  <2> QED
    BY <2>1, <2>3
<1>4. ASSUME NEW s \in Sprints
      PROVE  sprint[s] \in SprintRow /\ sprint[s].slug = NoSlug
  <2>1. PICK p \in Projects : TRUE
    BY SprintsAssumption
  <2>2. (CHOOSE q \in Projects : TRUE) \in Projects
    BY <2>1
  <2>3. (\E q \in Projects : DefaultSprint[q] = s) => (CHOOSE q \in Projects : DefaultSprint[q] = s) \in Projects
    OBVIOUS
  <2>4. PICK q \in Projects : q = IF \E x \in Projects : DefaultSprint[x] = s
                                    THEN CHOOSE x \in Projects : DefaultSprint[x] = s
                                    ELSE CHOOSE x \in Projects : TRUE
    BY <2>2, <2>3
  <2>5. PICK state \in {"none", "live"} : state = IF \E x \in Projects : DefaultSprint[x] = s THEN "live" ELSE "none"
    OBVIOUS
  <2>6. sprint[s] = [state |-> state, prj |-> q, status |-> "PLANNING", dated |-> TRUE, archived |-> FALSE,
                     slug |-> NoSlug]
    BY <2>4, <2>5 DEF SprintInit
  <2> QED
    BY <2>6 DEF SprintRow, SprintStatuses, NoSlug
<1>5. sprint \in [Sprints -> SprintRow]
  BY <1>4 DEF SprintInit
<1>6. SprintTypeOK
  BY <1>4, <1>5 DEF SprintTypeOK, SprintRow, Stored
<1> QED
  BY <1>2, <1>3, <1>5, <1>6 DEF SprintIInv, SprintTyped

\* There is a free slug, and FreeSlug is one: a project has fewer slugs than
\* there are numbers up to the number of sprints.
LEMMA LeastNatural ==
  ASSUME NEW S \in SUBSET Nat, S # {}
  PROVE  \E n \in S : \A m \in S : n <= m
<1> DEFINE R == {ss \in Nat \X Nat : ss[1] < ss[2]}
<1>1. IsWellFoundedOn(R, Nat)
  BY NatLessThanWellFounded, Zenon DEF OpToRel
<1>2. PICK n \in S : \A m \in S : ~(<<m, n>> \in R)
  <2> HIDE DEF R
  <2> QED
    BY <1>1, WFMin
<1> SUFFICES ASSUME NEW m \in S, m < n PROVE FALSE
  OBVIOUS
<1>3. <<m, n>> \in R
  OBVIOUS
<1> QED
  BY <1>2, <1>3

LEMMA FreeSlugIsFree ==
  ASSUME sprint \in [Sprints -> SprintRow], NEW p
  PROVE  FreeSlug(p) \in Nat /\ \A s \in In(p) : sprint[s].slug # FreeSlug(p)
<1> DEFINE Free(n) == \A s \in In(p) : sprint[s].slug # n
           C == Cardinality(Stored)
           F == {n \in 0..C : Free(n)}
<1>1. IsFiniteSet(Stored) /\ C \in Nat
  BY SprintsAssumption, FS_Subset, FS_CardinalityType DEF Stored
<1>2. IsFiniteSet(In(p)) /\ Cardinality(In(p)) <= C /\ Cardinality(In(p)) \in Nat
  BY <1>1, FS_Subset, FS_CardinalityType DEF In
<1>3. F # {}
  <2> SUFFICES ASSUME \A n \in 0..C : \E s \in In(p) : sprint[s].slug = n
               PROVE  FALSE
    OBVIOUS
  <2> DEFINE f == [n \in 0..C |-> CHOOSE s \in In(p) : sprint[s].slug = n]
  <2>1. \A n \in 0..C : f[n] \in In(p) /\ sprint[f[n]].slug = n
    OBVIOUS
  <2>2. f \in [0..C -> In(p)]
    BY <2>1
  <2>3. IsFiniteSet(0..C) /\ Cardinality(0..C) = C + 1
    BY <1>1, FS_Interval
  <2>4. Cardinality(In(p)) < Cardinality(0..C)
    BY <1>1, <1>2, <2>3
  <2> HIDE DEF f
  <2>5. PICK S, T, g : S = 0..C /\ T = In(p) /\ g = f
    OBVIOUS
  <2>6. \E m, n \in S : m # n /\ g[m] = g[n]
    <3>1. IsFiniteSet(S) /\ IsFiniteSet(T) /\ Cardinality(T) < Cardinality(S) /\ g \in [S -> T]
      BY <1>2, <2>2, <2>3, <2>4, <2>5
    <3> QED
      BY <3>1, FS_PigeonHole
  <2> QED
    BY <2>1, <2>5, <2>6
<1>4. PICK n \in F : \A m \in F : n <= m
  <2>1. F \in SUBSET Nat
    BY <1>1
  <2> HIDE DEF F
  <2> QED
    BY <1>3, <2>1, LeastNatural
<1>5. n \in 0..C /\ Free(n) /\ \A m \in 0..(n - 1) : \E s \in In(p) : sprint[s].slug = m
  <2>1. ASSUME NEW m \in 0..(n - 1), \A s \in In(p) : sprint[s].slug # m
        PROVE  FALSE
    <3>1. m \in F
      BY <1>1, <2>1
    <3>2. n <= m
      BY <1>4, <3>1
    <3> QED
      BY <1>1, <2>1, <3>2
  <2> QED
    BY <2>1
<1> QED
  BY <1>1, <1>5 DEF FreeSlug

-----------------------------------------------------------------------------
\* The steps of a request for a sprint.

\* One row is written.
LEMMA RowWritten ==
  ASSUME SprintIInv, NEW s \in Sprints, NEW z \in SprintRow, sprint' = [sprint EXCEPT ![s] = z]
  PROVE  /\ sprint' \in [Sprints -> SprintRow] /\ sprint'[s] = z
         /\ \A t \in Sprints \ {s} : sprint'[t] = sprint[t]
         /\ \A t \in Sprints \ {s} : t \in Stored' <=> t \in Stored
         /\ s \in Stored' <=> z.state = "live"
         /\ Stored \subseteq Sprints /\ Stored' \subseteq Sprints
BY DEF SprintIInv, SprintTyped, Stored

\* A request that begins, with nothing written yet.
LEMMA SprintAskKeeps ==
  ASSUME SprintIInv, NEW r \in Requests, NEW op \in Ops, NEW step \in Steps, NEW with \in SprintData,
         Ask(r, op, step, with), UNCHANGED sprint,
         \A y \in RequestOf(SprintData) :
           y.op = op /\ y.step = step /\ y.with = with /\ y.over = {} => SprintReqOK(y)
  PROVE  SprintIInv'
<1>1. PICK D : D = SprintData
  OBVIOUS
<1>2. req \in [Requests -> RequestOf(D)] /\ with \in D
  BY <1>1 DEF SprintIInv, SprintTyped
<1>3. PICK y \in RequestOf(D) : /\ Moved(D, r, y, {}) /\ y.op = op /\ y.step = step
                                /\ y.with = with /\ y.over = {} /\ req[r].op = "idle"
  BY <1>2, AskMoves
<1> QED
  BY <1>1, <1>3, SprintLookingKeeps

LEMMA AskCreateSprintKeeps ==
  ASSUME SprintIInv, NEW r \in Requests, AskCreateSprint(r)
  PROVE  SprintIInv'
<1>1. PICK p \in Projects, status \in {"PLANNING", "ACTIVE"}, dated \in BOOLEAN :
        /\ status = "ACTIVE" => ActiveIn(p) = {}
        /\ Ask(r, "createSprint", "write",
               [state |-> "live", prj |-> p, status |-> status, dated |-> dated,
                archived |-> FALSE, slug |-> FreeSlug(p)])
        /\ UNCHANGED sprint
  BY DEF AskCreateSprint
<1>2. PICK n \in Nat : n = FreeSlug(p)
  BY FreeSlugIsFree DEF SprintIInv, SprintTyped
<1>3. PICK row : row = [state |-> "live", prj |-> p, status |-> status, dated |-> dated,
                        archived |-> FALSE, slug |-> n]
  OBVIOUS
<1>4. row \in SprintRow /\ row.state = "live" /\ row.prj = p /\ row.status = status
  BY <1>3 DEF SprintRow, SprintStatuses
<1>5. PICK op \in Ops, step \in Steps : op = "createSprint" /\ step = "write"
  BY DEF Ops, Steps, SprintOps
<1>6. Ask(r, op, step, row) /\ row \in SprintData /\ req \in [Requests -> RequestOf(SprintData)]
  BY <1>1, <1>2, <1>3, <1>4, <1>5, SprintDataFacts DEF SprintIInv, SprintTyped
<1>7. ASSUME NEW y \in RequestOf(SprintData), y.op = op, y.step = step, y.with = row, y.over = {}
      PROVE  SprintReqOK(y)
  BY <1>1, <1>4, <1>5, <1>7 DEF SprintReqOK, CreateOK, UpdateOK, RemoveOK, ReadOK, Updaters
<1> QED
  BY <1>1, <1>6, <1>7, SprintAskKeeps

\* A request that ends without writing.
LEMMA SprintAnswerKeeps ==
  ASSUME SprintIInv, NEW r \in Requests, Answer(r), UNCHANGED sprint
  PROVE  SprintIInv'
<1>1. req \in [Requests -> RequestOf(SprintData)] /\ NoData \in SprintData
  BY SprintDataFacts DEF SprintIInv, SprintTyped
<1>2. PICK y : y = Idle
  OBVIOUS
<1>3. Moved(SprintData, r, y, {})
  BY <1>1, <1>2, AnswerMoves
<1>4. y.op = "idle" /\ y.step = ""
  BY <1>1, <1>2, IdleType
<1>5. SprintReqOK(y)
  BY <1>4 DEF SprintReqOK, CreateOK, UpdateOK, RemoveOK, ReadOK, Updaters
<1> QED
  BY <1>3, <1>5, SprintLookingKeeps

\* A request that ends with a write.
LEMMA SprintCommitKeeps ==
  ASSUME SprintIInv, NEW r \in Requests, Commit(r), SprintsFramed({req[r].op}),
         sprint' \in [Sprints -> SprintRow], SprintTypeOK'
  PROVE  SprintIInv'
<1>1. req \in [Requests -> RequestOf(SprintData)] /\ NoData \in SprintData
  BY SprintDataFacts DEF SprintIInv, SprintTyped
<1>2. PICK y : y = Idle
  OBVIOUS
<1>3. Moved(SprintData, r, y, {req[r].op})
  BY <1>1, <1>2, CommitMoves
<1>4. SprintReqOK(y)'
  BY <1>2, SprintAtRest
<1> QED
  BY <1>3, <1>4, SprintStepKeeps

\* A request that goes on after a write.
LEMMA SprintCommitAndKeeps ==
  ASSUME SprintIInv, NEW r \in Requests, NEW step \in Steps, NEW with \in SprintData,
         CommitAnd(r, step, with), SprintsFramed({req[r].op}),
         sprint' \in [Sprints -> SprintRow], SprintTypeOK',
         \A y \in RequestOf(SprintData) :
           y.op = req[r].op /\ y.step = step /\ y.with = with /\ y.over = req[r].over => SprintReqOK(y)'
  PROVE  SprintIInv'
<1>1. PICK D : D = SprintData
  OBVIOUS
<1>2. req \in [Requests -> RequestOf(D)] /\ with \in D
  BY <1>1 DEF SprintIInv, SprintTyped
<1>3. PICK w : w = {req[r].op}
  OBVIOUS
<1>4. PICK y \in RequestOf(D) : /\ Moved(D, r, y, w) /\ y.op = req[r].op /\ y.step = step
                                /\ y.with = with /\ y.over = req[r].over
  BY <1>2, <1>3, CommitAndMoves
<1> QED
  BY <1>1, <1>3, <1>4, SprintStepKeeps

LEMMA CreateSprintKeeps ==
  ASSUME SprintIInv, NEW r \in Requests, CreateSprint(r)
  PROVE  SprintIInv'
<1>1. PICK x : x = req[r]
  OBVIOUS
<1>2. PICK row : row = x.with
  OBVIOUS
<1>3. row \in SprintRow /\ row.state = "live" /\ x.op = "createSprint"
  BY <1>1, <1>2 DEF CreateSprint, At, SprintIInv, SprintReqOK, CreateOK
<1>4. CASE Answer(r) /\ UNCHANGED sprint
  BY <1>4, SprintAnswerKeeps
<1>5. CASE /\ \A s \in In(row.prj) : sprint[s].slug # row.slug
           /\ \E s \in Sprints : sprint[s].state = "none" /\ sprint' = [sprint EXCEPT ![s] = row]
           /\ Commit(r)
  <2>1. PICK s \in Sprints : sprint[s].state = "none" /\ sprint' = [sprint EXCEPT ![s] = row]
    BY <1>5
  <2>2. /\ sprint' \in [Sprints -> SprintRow] /\ sprint'[s] = row
        /\ \A t \in Sprints \ {s} : sprint'[t] = sprint[t]
        /\ \A t \in Sprints \ {s} : t \in Stored' <=> t \in Stored
        /\ Stored \subseteq Sprints /\ Stored' \subseteq Sprints
    BY <1>3, <2>1, RowWritten
  <2>3. SprintsFramed({"createSprint"})
    BY <2>1, <2>2 DEF SprintsFramed, Makers, Sluggers
  <2>4. SprintTypeOK'
    BY <1>3, <1>5, <2>1, <2>2 DEF SprintTypeOK, SprintIInv, In, SprintRow
  <2> QED
    BY <1>1, <1>3, <1>5, <2>2, <2>3, <2>4, SprintCommitKeeps
<1> QED
  BY <1>1, <1>2, <1>4, <1>5 DEF CreateSprint

\* A request that goes on, with nothing written.
LEMMA SprintGoOnKeeps ==
  ASSUME SprintIInv, NEW r \in Requests, NEW step \in Steps, NEW with \in SprintData,
         GoOn(r, step, with), UNCHANGED sprint,
         \A y \in RequestOf(SprintData) :
           y.op = req[r].op /\ y.step = step /\ y.with = with /\ y.over = req[r].over => SprintReqOK(y)
  PROVE  SprintIInv'
<1>1. PICK D : D = SprintData
  OBVIOUS
<1>2. req \in [Requests -> RequestOf(D)] /\ with \in D
  BY <1>1 DEF SprintIInv, SprintTyped
<1>3. PICK y \in RequestOf(D) : /\ Moved(D, r, y, {}) /\ y.op = req[r].op /\ y.step = step
                                /\ y.with = with /\ y.over = req[r].over
  BY <1>2, GoOnMoves
<1> QED
  BY <1>1, <1>3, SprintLookingKeeps

\* Updates are asked for, directly or by startSprint and completeSprint.
LEMMA AskUpdatesKeep ==
  ASSUME SprintIInv, NEW r \in Requests, NEW op \in Updaters, NEW s \in Stored,
         NEW status \in SprintStatuses, op = "completeSprint" => status = "COMPLETED",
         Ask(r, op, "update", [id |-> s, status |-> status]), UNCHANGED sprint
  PROVE  SprintIInv'
<1>1. PICK h : h = [id |-> s, status |-> status]
  OBVIOUS
<1>2. h \in UpdateData /\ h.id = s /\ h.status = status /\ sprint[s].state = "live"
  BY <1>1 DEF UpdateData, Stored
<1>3. PICK step \in Steps : step = "update"
  BY DEF Steps
<1>4. op \in Ops /\ h \in SprintData
  BY <1>2, SprintDataFacts DEF Ops, SprintOps, Updaters
<1>5. ASSUME NEW y \in RequestOf(SprintData), y.op = op, y.step = step, y.with = h, y.over = {}
      PROVE  SprintReqOK(y)
  BY <1>2, <1>3, <1>5 DEF SprintReqOK, CreateOK, UpdateOK, RemoveOK, ReadOK, Updaters
<1>6. Ask(r, op, step, h)
  BY <1>1, <1>3
<1> QED
  BY <1>3, <1>4, <1>5, <1>6, SprintAskKeeps

LEMMA AskUpdateSprintKeeps ==
  ASSUME SprintIInv, NEW r \in Requests,
         AskUpdateSprint(r) \/ AskStartSprint(r) \/ AskCompleteSprint(r)
  PROVE  SprintIInv'
<1>1. PICK op \in Updaters, s \in Stored, status \in SprintStatuses :
        /\ op = "completeSprint" => status = "COMPLETED"
        /\ Ask(r, op, "update", [id |-> s, status |-> status]) /\ UNCHANGED sprint
  <2>1. CASE AskUpdateSprint(r)
    BY <2>1 DEF AskUpdateSprint, Updaters
  <2>2. CASE AskStartSprint(r)
    BY <2>2 DEF AskStartSprint, Updaters, SprintStatuses
  <2>3. CASE AskCompleteSprint(r)
    BY <2>3 DEF AskCompleteSprint, Updaters, SprintStatuses
  <2> QED
    BY <2>1, <2>2, <2>3
<1> QED
  BY <1>1, AskUpdatesKeep

LEMMA CheckUpdateKeeps ==
  ASSUME SprintIInv, NEW r \in Requests, CheckUpdate(r)
  PROVE  SprintIInv'
<1>1. PICK x : x = req[r]
  OBVIOUS
<1>2. PICK h : h = x.with
  OBVIOUS
<1>3. /\ x.op \in Updaters /\ x.step = "update" /\ h \in UpdateData /\ sprint[h.id].state # "none"
      /\ x.op = "completeSprint" => h.status = "COMPLETED"
  BY <1>1, <1>2 DEF CheckUpdate, SprintIInv, SprintReqOK, CreateOK, UpdateOK, RemoveOK, ReadOK, Updaters
<1>4. CASE Answer(r) /\ UNCHANGED sprint
  BY <1>4, SprintAnswerKeeps
<1>5. CASE Allowed(h.id, h.status) /\ GoOn(r, "write", h) /\ UNCHANGED sprint
  <2>1. PICK step \in Steps : step = "write"
    BY DEF Steps
  <2>2. h \in SprintData
    BY <1>3, SprintDataFacts
  <2>3. ASSUME NEW y \in RequestOf(SprintData), y.op = req[r].op, y.step = step, y.with = h,
               y.over = req[r].over
        PROVE  SprintReqOK(y)
    <3>1. sprint[h.id].status # "ACTIVE" /\ h.status = "ACTIVE" =>
            ActiveIn(sprint[h.id].prj) \subseteq {h.id}
      BY <1>5 DEF Allowed
    <3>2. UpdateOK(y)
      BY <1>1, <1>3, <2>1, <2>3, <3>1 DEF UpdateOK
    <3> QED
      BY <1>1, <1>3, <2>3, <3>2 DEF SprintReqOK, CreateOK, RemoveOK, ReadOK, Updaters
  <2> QED
    BY <1>5, <2>1, <2>2, <2>3, SprintGoOnKeeps
<1> QED
  BY <1>1, <1>2, <1>4, <1>5 DEF CheckUpdate

LEMMA UpdateSprintKeeps ==
  ASSUME SprintIInv, NEW r \in Requests, UpdateSprint(r)
  PROVE  SprintIInv'
<1>1. PICK x : x = req[r]
  OBVIOUS
<1>2. PICK h : h = x.with
  OBVIOUS
<1>3. /\ x.op \in Updaters /\ h \in UpdateData /\ sprint \in [Sprints -> SprintRow]
      /\ x.op = "completeSprint" => h.status = "COMPLETED"
  BY <1>1, <1>2 DEF UpdateSprint, Updaters, SprintIInv, SprintTyped, SprintReqOK, UpdateOK
<1>4. CASE Answer(r) /\ UNCHANGED sprint
  BY <1>4, SprintAnswerKeeps
<1>5. CASE h.id \in Stored /\ sprint' = [sprint EXCEPT ![h.id].status = h.status] /\ Commit(r)
  <2>1. PICK s \in Sprints : s = h.id
    BY <1>3 DEF UpdateData
  <2>2. PICK z : z = [sprint[s] EXCEPT !.status = h.status]
    OBVIOUS
  <2>3. /\ z \in SprintRow /\ z.status = h.status /\ z.state = sprint[s].state
        /\ z.prj = sprint[s].prj /\ z.slug = sprint[s].slug
    BY <1>3, <2>2 DEF SprintRow, UpdateData
  <2>4. sprint' = [sprint EXCEPT ![s] = z]
    BY <1>3, <1>5, <2>1, <2>2
  <2>5. /\ sprint' \in [Sprints -> SprintRow] /\ sprint'[s] = z
        /\ \A t \in Sprints \ {s} : sprint'[t] = sprint[t]
        /\ \A t \in Sprints \ {s} : t \in Stored' <=> t \in Stored
        /\ Stored \subseteq Sprints /\ Stored' \subseteq Sprints
        /\ s \in Stored' <=> z.state = "live"
    BY <2>3, <2>4, RowWritten
  <2>6. s \in Stored /\ s \in Stored'
    BY <1>5, <2>1, <2>3, <2>5 DEF Stored
  <2>7. Stored' = Stored
    BY <2>5, <2>6
  <2>8. SprintsFramed({x.op})
    BY <1>3, <2>3, <2>5, <2>7 DEF SprintsFramed, Makers, Updaters
  <2>9. SprintTypeOK'
    BY <1>3, <2>3, <2>5, <2>7 DEF SprintTypeOK, SprintIInv, SprintRow
  <2> QED
    BY <1>1, <1>5, <2>5, <2>8, <2>9, SprintCommitKeeps
<1> QED
  BY <1>1, <1>2, <1>4, <1>5 DEF UpdateSprint

LEMMA AskRemoveSprintKeeps ==
  ASSUME SprintIInv, NEW r \in Requests, AskRemoveSprint(r)
  PROVE  SprintIInv'
<1>1. PICK s \in Stored : /\ sprint[s].status # "ACTIVE" /\ Ask(r, "removeSprint", "write", s)
                          /\ UNCHANGED sprint
  BY DEF AskRemoveSprint
<1>2. PICK op \in Ops, step \in Steps : op = "removeSprint" /\ step = "write"
  BY DEF Ops, Steps, SprintOps
<1>3. s \in Sprints /\ s \in SprintData /\ sprint[s].state = "live"
  BY SprintDataFacts DEF Stored
<1>4. ASSUME NEW y \in RequestOf(SprintData), y.op = op, y.step = step, y.with = s, y.over = {}
      PROVE  SprintReqOK(y)
  BY <1>1, <1>2, <1>3, <1>4 DEF SprintReqOK, CreateOK, UpdateOK, RemoveOK, ReadOK, Updaters
<1>5. Ask(r, op, step, s)
  BY <1>1, <1>2
<1> QED
  BY <1>1, <1>3, <1>4, <1>5, SprintAskKeeps

LEMMA RemoveSprintKeeps ==
  ASSUME SprintIInv, NEW r \in Requests, RemoveSprint(r)
  PROVE  SprintIInv'
<1>1. PICK x : x = req[r]
  OBVIOUS
<1>2. PICK s : s = x.with
  OBVIOUS
<1>3. x.op = "removeSprint" /\ s \in Sprints /\ sprint \in [Sprints -> SprintRow]
  BY <1>1, <1>2 DEF RemoveSprint, At, SprintIInv, SprintTyped, SprintReqOK, RemoveOK
<1>4. CASE Answer(r) /\ UNCHANGED sprint
  BY <1>4, SprintAnswerKeeps
<1>5. CASE s \in Stored /\ sprint' = [sprint EXCEPT ![s].state = "gone"] /\ Commit(r)
  <2>1. PICK z : z = [sprint[s] EXCEPT !.state = "gone"]
    OBVIOUS
  <2>2. /\ z \in SprintRow /\ z.status = sprint[s].status /\ z.state = "gone"
        /\ z.prj = sprint[s].prj /\ z.slug = sprint[s].slug
    BY <1>3, <2>1 DEF SprintRow
  <2>3. sprint' = [sprint EXCEPT ![s] = z]
    BY <1>3, <1>5, <2>1
  <2>4. /\ sprint' \in [Sprints -> SprintRow] /\ sprint'[s] = z
        /\ \A t \in Sprints \ {s} : sprint'[t] = sprint[t]
        /\ \A t \in Sprints \ {s} : t \in Stored' <=> t \in Stored
        /\ Stored \subseteq Sprints /\ Stored' \subseteq Sprints
        /\ s \notin Stored'
    BY <1>3, <2>2, <2>3, RowWritten
  <2>5. SprintsFramed({"removeSprint"})
    BY <1>5, <2>2, <2>4 DEF SprintsFramed, Makers, Sluggers
  <2>6. SprintTypeOK'
    BY <2>4 DEF SprintTypeOK, SprintIInv
  <2> QED
    BY <1>1, <1>3, <1>5, <2>4, <2>5, <2>6, SprintCommitKeeps
<1> QED
  BY <1>1, <1>2, <1>4, <1>5 DEF RemoveSprint

LEMMA ArchiveSprintKeeps ==
  ASSUME SprintIInv, NEW r \in Requests, ArchiveSprint(r)
  PROVE  SprintIInv'
<1>1. PICK s \in Stored : Once(r, "archiveSprint") /\ sprint' = [sprint EXCEPT ![s].archived = TRUE]
  BY DEF ArchiveSprint
<1>2. s \in Sprints /\ sprint[s].state = "live" /\ sprint \in [Sprints -> SprintRow]
      /\ req \in [Requests -> RequestOf(SprintData)]
  BY DEF Stored, SprintIInv, SprintTyped
<1>3. PICK op \in Ops : op = "archiveSprint"
  BY DEF Ops, SprintOps
<1>4. PICK y : y = req[r]
  OBVIOUS
<1>5. Moved(SprintData, r, y, {op}) /\ y.op = "idle"
  BY <1>1, <1>2, <1>3, <1>4, OnceMoves
<1>6. PICK z : z = [sprint[s] EXCEPT !.archived = TRUE]
  OBVIOUS
<1>7. /\ z \in SprintRow /\ z.status = sprint[s].status /\ z.state = "live"
      /\ z.prj = sprint[s].prj /\ z.slug = sprint[s].slug
  BY <1>2, <1>6 DEF SprintRow
<1>8. sprint' = [sprint EXCEPT ![s] = z]
  BY <1>1, <1>2, <1>6
<1>9. /\ sprint' \in [Sprints -> SprintRow] /\ sprint'[s] = z
      /\ \A t \in Sprints \ {s} : sprint'[t] = sprint[t]
      /\ \A t \in Sprints \ {s} : t \in Stored' <=> t \in Stored
      /\ Stored \subseteq Sprints /\ Stored' \subseteq Sprints
      /\ s \in Stored'
  BY <1>2, <1>7, <1>8, RowWritten
<1>10. Stored' = Stored
  BY <1>1, <1>9
<1>11. SprintsFramed({op})
  BY <1>3, <1>7, <1>9, <1>10 DEF SprintsFramed
<1>12. SprintTypeOK'
  BY <1>7, <1>9, <1>10 DEF SprintTypeOK, SprintIInv
<1>13. y.step = ""
  BY <1>4, <1>5 DEF SprintIInv, SprintReqOK
<1>14. SprintReqOK(y)'
  BY <1>5, <1>13 DEF SprintReqOK, CreateOK, UpdateOK, RemoveOK, ReadOK, Updaters
<1> QED
  BY <1>5, <1>9, <1>11, <1>12, <1>14, SprintStepKeeps

LEMMA AskReadSprintsKeeps ==
  ASSUME SprintIInv, NEW r \in Requests, AskReadSprints(r)
  PROVE  SprintIInv'
<1>0. PICK p \in Projects : \E todo \in SUBSET {s \in In(p) : sprint[s].slug = NoSlug} :
        Ask(r, "readSprints", "next", [todo |-> todo]) /\ UNCHANGED sprint
  BY DEF AskReadSprints
<1>1. PICK todo \in SUBSET {s \in In(p) : sprint[s].slug = NoSlug} :
        Ask(r, "readSprints", "next", [todo |-> todo]) /\ UNCHANGED sprint
  BY <1>0
<1>2. PICK h : h = [todo |-> todo]
  OBVIOUS
<1>3. PICK op \in Ops, step \in Steps : op = "readSprints" /\ step = "next"
  BY DEF Ops, Steps, SprintOps
<1>4. todo \subseteq Stored /\ todo \subseteq Sprints /\ \A s \in todo : sprint[s].slug = NoSlug
  BY DEF In, Stored
<1>5. h \in ReadData /\ h.todo = todo /\ h \in SprintData
  BY <1>2, <1>4, SprintDataFacts DEF ReadData
<1>6. ASSUME NEW y \in RequestOf(SprintData), y.op = op, y.step = step, y.with = h, y.over = {}
      PROVE  SprintReqOK(y)
  <2>1. ToSlug(y) = todo /\ \A s \in todo : sprint[s].state # "none"
    BY <1>3, <1>4, <1>5, <1>6 DEF ToSlug, Stored
  <2> QED
    BY <1>3, <1>4, <1>5, <1>6, <2>1 DEF SprintReqOK, CreateOK, UpdateOK, RemoveOK, ReadOK, Updaters
<1>7. Ask(r, op, step, h)
  BY <1>1, <1>2, <1>3
<1> QED
  BY <1>1, <1>5, <1>6, <1>7, SprintAskKeeps

LEMMA NextSlugKeeps ==
  ASSUME SprintIInv, NEW r \in Requests, NextSlug(r)
  PROVE  SprintIInv'
<1>1. PICK x : x = req[r]
  OBVIOUS
<1>2. PICK h : h = x.with
  OBVIOUS
<1>3. /\ x.op = "readSprints" /\ x.step = "next" /\ h \in ReadData /\ ReadOK(x)
      /\ sprint \in [Sprints -> SprintRow] /\ ToSlug(x) = h.todo
  BY <1>1, <1>2 DEF NextSlug, At, SprintIInv, SprintTyped, SprintReqOK, ReadOK, ToSlug
<1>4. PICK s \in h.todo :
        /\ GoOn(r, "store", [todo |-> h.todo \ {s}, id |-> s, slug |-> FreeSlug(sprint[s].prj)])
        /\ UNCHANGED sprint
  BY <1>1, <1>2 DEF NextSlug
<1>5. PICK n \in Nat : /\ n = FreeSlug(sprint[s].prj)
                       /\ \A t \in In(sprint[s].prj) : sprint[t].slug # n
  BY <1>3, FreeSlugIsFree
<1>6. PICK k : k = [todo |-> h.todo \ {s}, id |-> s, slug |-> n]
  OBVIOUS
<1>7. k \in StoreData /\ k.id = s /\ k.todo = h.todo \ {s} /\ k.slug = n
  BY <1>3, <1>6 DEF StoreData, ReadData
<1>8. PICK step \in Steps : step = "store"
  BY DEF Steps
<1>9. GoOn(r, step, k) /\ k \in SprintData
  BY <1>4, <1>5, <1>6, <1>7, <1>8, SprintDataFacts
<1>10. ASSUME NEW y \in RequestOf(SprintData), y.op = req[r].op, y.step = step, y.with = k,
              y.over = req[r].over
       PROVE  SprintReqOK(y)
  <2>1. y.op = "readSprints" /\ y.step = "store" /\ y.with = k /\ y.over = x.over
    BY <1>1, <1>3, <1>8, <1>10
  <2>2. ToSlug(y) = ToSlug(x)
    BY <1>3, <1>4, <1>7, <2>1 DEF ToSlug
  <2>3. ReadOK(y)
    BY <1>3, <1>5, <1>7, <2>1, <2>2 DEF ReadOK
  <2> QED
    BY <2>1, <2>3 DEF SprintReqOK, CreateOK, UpdateOK, RemoveOK, Updaters
<1> QED
  BY <1>4, <1>9, <1>10, SprintGoOnKeeps

LEMMA StoreSlugKeeps ==
  ASSUME SprintIInv, NEW r \in Requests, StoreSlug(r)
  PROVE  SprintIInv'
<1>1. PICK x : x = req[r]
  OBVIOUS
<1>2. PICK h : h = x.with
  OBVIOUS
<1>3. /\ x.op = "readSprints" /\ x.step = "store" /\ h \in StoreData /\ h.id \notin h.todo /\ ReadOK(x)
      /\ sprint \in [Sprints -> SprintRow] /\ ToSlug(x) = h.todo \union {h.id}
      /\ req \in [Requests -> RequestOf(SprintData)]
  BY <1>1, <1>2 DEF StoreSlug, At, SprintIInv, SprintTyped, SprintReqOK, ReadOK, ToSlug
<1>4. CASE Answer(r) /\ UNCHANGED sprint
  BY <1>4, SprintAnswerKeeps
<1>5. CASE /\ h.id \in Stored
           /\ \A s \in In(sprint[h.id].prj) \ {h.id} : sprint[s].slug # h.slug
           /\ sprint' = [sprint EXCEPT ![h.id].slug = h.slug]
           /\ IF h.todo = {} THEN Commit(r) ELSE CommitAnd(r, "next", [todo |-> h.todo])
  <2>1. PICK s \in Sprints : s = h.id
    BY <1>3 DEF StoreData
  <2>2. PICK z : z = [sprint[s] EXCEPT !.slug = h.slug]
    OBVIOUS
  <2>3. /\ z \in SprintRow /\ z.status = sprint[s].status /\ z.state = sprint[s].state
        /\ z.prj = sprint[s].prj /\ z.slug = h.slug
    BY <1>3, <2>2 DEF SprintRow, StoreData
  <2>4. sprint' = [sprint EXCEPT ![s] = z]
    BY <1>3, <1>5, <2>1, <2>2
  <2>5. /\ sprint' \in [Sprints -> SprintRow] /\ sprint'[s] = z
        /\ \A t \in Sprints \ {s} : sprint'[t] = sprint[t]
        /\ \A t \in Sprints \ {s} : t \in Stored' <=> t \in Stored
        /\ Stored \subseteq Sprints /\ Stored' \subseteq Sprints
        /\ s \in Stored' <=> z.state = "live"
    BY <2>3, <2>4, RowWritten
  <2>6. Stored' = Stored
    <3>1. s \in Stored /\ s \in Stored'
      BY <1>5, <2>1, <2>3, <2>5 DEF Stored
    <3> QED
      BY <2>5, <3>1
  <2>7. SprintsFramed({"readSprints"})
    BY <2>3, <2>5, <2>6 DEF SprintsFramed, Makers, Sluggers
  <2>8. SprintTypeOK'
    BY <1>5, <2>1, <2>3, <2>5, <2>6 DEF SprintTypeOK, SprintIInv, In
  <2>9. CASE h.todo = {}
    BY <1>1, <1>3, <1>5, <2>5, <2>7, <2>8, <2>9, SprintCommitKeeps
  <2>10. CASE h.todo # {}
    <3>1. PICK step, k : step \in Steps /\ step = "next" /\ k = [todo |-> h.todo]
      BY DEF Steps
    <3>2. k \in ReadData /\ k.todo = h.todo
      BY <1>3, <3>1 DEF ReadData, StoreData
    <3>4. CommitAnd(r, step, k) /\ k \in SprintData
      BY <1>5, <2>10, <3>1, <3>2, SprintDataFacts
    <3>5. ASSUME NEW y \in RequestOf(SprintData), y.op = req[r].op, y.step = step, y.with = k,
                 y.over = req[r].over
          PROVE  SprintReqOK(y)'
      <4>1. y.op = "readSprints" /\ y.step = "next" /\ y.with = k /\ y.over = x.over /\ ToSlug(y) = h.todo
        BY <1>1, <1>3, <3>1, <3>2, <3>5 DEF ToSlug
      <4>2. \A t \in h.todo : t \in Sprints \ {s}
        BY <1>3, <2>1 DEF StoreData
      <4>3. \A t \in h.todo : sprint'[t].state # "none"
        BY <1>3, <2>5, <4>2 DEF ReadOK
      <4>4. y.over \intersect {"readSprints"} = {} => \A t \in h.todo : sprint'[t].slug = NoSlug
        BY <1>3, <2>5, <4>1, <4>2 DEF ReadOK
      <4>5. y.over \intersect Sluggers = {} => h.todo \subseteq Stored'
        BY <1>3, <2>6, <4>1 DEF ReadOK
      <4>6. ReadOK(y)'
        BY <3>2, <4>1, <4>3, <4>4, <4>5 DEF ReadOK
      <4> QED
        BY <4>1, <4>6 DEF SprintReqOK, CreateOK, UpdateOK, RemoveOK, Updaters
    <3>6. SprintsFramed({req[r].op})
      BY <1>1, <1>3, <2>7
    <3> QED
      BY <2>5, <2>8, <3>1, <3>4, <3>5, <3>6, SprintCommitAndKeeps
  <2> QED
    BY <2>9, <2>10
<1> QED
  BY <1>1, <1>2, <1>4, <1>5 DEF StoreSlug

-----------------------------------------------------------------------------
\* The invariant of the sprints, and what it is for.

SprintNext == \E r \in Requests : SprintStep(r) /\ UNCHANGED mix

LEMMA SprintNextKeeps == SprintIInv /\ [SprintNext]_sprintVars => SprintIInv'
<1> SUFFICES ASSUME SprintIInv, [SprintNext]_sprintVars PROVE SprintIInv'
  OBVIOUS
<1>1. CASE UNCHANGED sprintVars
  <2>1. req' = req /\ sprint' = sprint
    BY <1>1 DEF sprintVars
  <2>2. Stored' = Stored /\ \A p : In(p)' = In(p) /\ ActiveIn(p)' = ActiveIn(p)
    BY <2>1 DEF Stored, In, ActiveIn
  <2>3. SprintTyped' /\ SprintTypeOK'
    BY <2>1, <2>2 DEF SprintIInv, SprintTyped, SprintTypeOK
  <2>4. ASSUME NEW r \in Requests
        PROVE  SprintReqOK(req[r])'
    <3>1. PICK x : x = req[r] /\ x = req'[r]
      BY <2>1
    <3>2. SprintReqOK(x)
      BY <3>1 DEF SprintIInv
    <3>3. CreateOK(x)' /\ RemoveOK(x)' /\ UpdateOK(x)' /\ ReadOK(x)'
      BY <2>1, <2>2, <3>2 DEF SprintReqOK, CreateOK, RemoveOK, UpdateOK, ReadOK, ToSlug
    <3> QED
      BY <3>1, <3>2, <3>3 DEF SprintReqOK
  <2> QED
    BY <2>3, <2>4 DEF SprintIInv
<1>2. ASSUME NEW r \in Requests, SprintStep(r)
      PROVE  SprintIInv'
  BY <1>2, AskCreateSprintKeeps, CreateSprintKeeps, AskUpdateSprintKeeps, CheckUpdateKeeps,
     UpdateSprintKeeps, AskRemoveSprintKeeps, RemoveSprintKeeps, ArchiveSprintKeeps,
     AskReadSprintsKeeps, NextSlugKeeps, StoreSlugKeeps DEF SprintStep
<1> QED
  BY <1>1, <1>2 DEF SprintNext

\* Whose step it is: no other request moves.
OnlyMoves(r) ==
  \A q \in Requests \ {r} :
    req'[q].op = req[q].op /\ req'[q].step = req[q].step /\ req'[q].with = req[q].with

LEMMA HandlersOnlyMove ==
  ASSUME NEW D, req \in [Requests -> RequestOf(D)], NEW r \in Requests
  PROVE  /\ \A op, step, with : Ask(r, op, step, with) => OnlyMoves(r)
         /\ \A step, with : GoOn(r, step, with) => OnlyMoves(r)
         /\ \A step, with : CommitAnd(r, step, with) => OnlyMoves(r)
         /\ \A op : Once(r, op) => OnlyMoves(r)
         /\ Answer(r) => OnlyMoves(r)
         /\ Commit(r) => OnlyMoves(r)
<1>1. ASSUME NEW y, req' = [req EXCEPT ![r] = y]
      PROVE  OnlyMoves(r)
  BY <1>1 DEF OnlyMoves
<1>2. ASSUME NEW op, NEW q \in Requests \ {r}
      PROVE  /\ Overtaken(r, op)[q].op = req[q].op /\ Overtaken(r, op)[q].step = req[q].step
             /\ Overtaken(r, op)[q].with = req[q].with
  <2>1. [req[q] EXCEPT !.over = @ \union {op}].op = req[q].op
        /\ [req[q] EXCEPT !.over = @ \union {op}].step = req[q].step
        /\ [req[q] EXCEPT !.over = @ \union {op}].with = req[q].with
    BY DEF RequestOf
  <2> QED
    BY <2>1 DEF Overtaken
<1>3. ASSUME NEW op, NEW y, req' = [Overtaken(r, op) EXCEPT ![r] = y]
      PROVE  OnlyMoves(r)
  BY <1>2, <1>3 DEF OnlyMoves, Overtaken
<1>4. ASSUME NEW op, NEW step, NEW with, Ask(r, op, step, with)
      PROVE  OnlyMoves(r)
  BY <1>1, <1>4 DEF Ask
<1>5. ASSUME NEW step, NEW with, GoOn(r, step, with)
      PROVE  OnlyMoves(r)
  <2>1. PICK y : y = [req[r] EXCEPT !.step = step, !.with = with]
    OBVIOUS
  <2>2. req' = [req EXCEPT ![r] = y]
    BY <1>5, <2>1 DEF GoOn
  <2> QED
    BY <1>1, <2>2
<1>6. ASSUME NEW step, NEW with, CommitAnd(r, step, with)
      PROVE  OnlyMoves(r)
  <2>1. PICK o, w : w = req[r].op /\ o = Overtaken(r, w)
    OBVIOUS
  <2>2. PICK y : y = [o[r] EXCEPT !.step = step, !.with = with]
    OBVIOUS
  <2>3. req' = [o EXCEPT ![r] = y]
    <3>1. o = [q \in Requests |-> o[q]]
      BY <2>1 DEF Overtaken
    <3> QED
      BY <1>6, <2>1, <2>2, <3>1 DEF CommitAnd
  <2> QED
    BY <1>3, <2>1, <2>3
<1>7. ASSUME NEW op, Once(r, op)
      PROVE  OnlyMoves(r)
  BY <1>2, <1>7 DEF Once, OnlyMoves
<1>8. Answer(r) => OnlyMoves(r)
  BY <1>1 DEF Answer
<1>9. Commit(r) => OnlyMoves(r)
  BY <1>3 DEF Commit
<1> QED
  BY <1>4, <1>5, <1>6, <1>7, <1>8, <1>9

LEMMA SprintStepMoves ==
  ASSUME SprintIInv, NEW r \in Requests, SprintStep(r)
  PROVE  OnlyMoves(r)
<1>1. /\ \A op, step, with : Ask(r, op, step, with) => OnlyMoves(r)
      /\ \A step, with : GoOn(r, step, with) => OnlyMoves(r)
      /\ \A step, with : CommitAnd(r, step, with) => OnlyMoves(r)
      /\ \A op : Once(r, op) => OnlyMoves(r)
      /\ Answer(r) => OnlyMoves(r)
      /\ Commit(r) => OnlyMoves(r)
  BY HandlersOnlyMove DEF SprintIInv, SprintTyped
<1>2. AskCreateSprint(r) \/ AskRemoveSprint(r) \/ AskReadSprints(r) => OnlyMoves(r)
  BY <1>1, Zenon DEF AskCreateSprint, AskRemoveSprint, AskReadSprints
<1>3. AskUpdateSprint(r) \/ AskStartSprint(r) \/ AskCompleteSprint(r) => OnlyMoves(r)
  BY <1>1, Zenon DEF AskUpdateSprint, AskStartSprint, AskCompleteSprint
<1>4. CheckUpdate(r) \/ UpdateSprint(r) \/ ArchiveSprint(r) \/ RemoveSprint(r) => OnlyMoves(r)
  BY <1>1, Zenon DEF CheckUpdate, UpdateSprint, ArchiveSprint, RemoveSprint
<1>5. CreateSprint(r) \/ NextSlug(r) \/ StoreSlug(r) => OnlyMoves(r)
  BY <1>1, Zenon DEF CreateSprint, NextSlug, StoreSlug
<1> QED
  BY <1>2, <1>3, <1>4, <1>5 DEF SprintStep

\* What a step writes.
LEMMA SprintWrites ==
  ASSUME SprintIInv, NEW r \in Requests, SprintStep(r), sprint' # sprint
  PROVE  \/ /\ req[r].op = "createSprint" /\ req[r].step = "write" /\ req[r].with \in SprintRow
            /\ \E s \in Sprints : /\ sprint[s].state = "none"
                                  /\ sprint' = [sprint EXCEPT ![s] = req[r].with]
         \/ /\ req[r].op \in Updaters /\ req[r].step = "write" /\ req[r].with \in UpdateData
            /\ req[r].with.id \in Stored
            /\ sprint' = [sprint EXCEPT ![req[r].with.id].status = req[r].with.status]
         \/ /\ req[r].op = "removeSprint" /\ req[r].step = "write" /\ req[r].with \in Stored
            /\ sprint' = [sprint EXCEPT ![req[r].with].state = "gone"]
         \/ /\ req[r].op = "idle" /\ req[r].step = ""
            /\ \E s \in Stored : sprint' = [sprint EXCEPT ![s].archived = TRUE]
         \/ /\ req[r].op = "readSprints" /\ req[r].step = "store" /\ req[r].with \in StoreData
            /\ req[r].with.id \in Stored
            /\ sprint' = [sprint EXCEPT ![req[r].with.id].slug = req[r].with.slug]
<1>1. PICK x : x = req[r]
  OBVIOUS
<1>2. SprintReqOK(x)
  BY <1>1 DEF SprintIInv
<1>3. CreateSprint(r) \/ UpdateSprint(r) \/ RemoveSprint(r) \/ ArchiveSprint(r) \/ StoreSlug(r)
  BY DEF SprintStep, AskCreateSprint, AskUpdateSprint, AskStartSprint, AskCompleteSprint, CheckUpdate,
     AskRemoveSprint, AskReadSprints, NextSlug
<1>4. CASE CreateSprint(r)
  <2>1. PICK h : h = x.with
    OBVIOUS
  <2>2. x.op = "createSprint" /\ x.step = "write" /\ h \in SprintRow
    BY <1>1, <1>2, <1>4, <2>1 DEF CreateSprint, At, SprintReqOK, CreateOK
  <2>3. \E s \in Sprints : sprint[s].state = "none" /\ sprint' = [sprint EXCEPT ![s] = h]
    BY <1>1, <1>4, <2>1 DEF CreateSprint
  <2> QED
    BY <1>1, <2>1, <2>2, <2>3
<1>5. CASE UpdateSprint(r)
  <2>1. x.op \in Updaters /\ x.step = "write" /\ x.with \in UpdateData
    BY <1>1, <1>2, <1>5 DEF UpdateSprint, Updaters, SprintReqOK, UpdateOK
  <2> QED
    BY <1>1, <1>5, <2>1 DEF UpdateSprint
<1>6. CASE RemoveSprint(r)
  BY <1>6 DEF RemoveSprint, At
<1>7. CASE ArchiveSprint(r)
  <2>1. x.op = "idle"
    BY <1>1, <1>7 DEF ArchiveSprint, Once, Active
  <2> QED
    BY <1>1, <1>2, <1>7, <2>1 DEF ArchiveSprint, SprintReqOK
<1>8. CASE StoreSlug(r)
  <2>1. x.op = "readSprints" /\ x.step = "store" /\ x.with \in StoreData
    BY <1>1, <1>2, <1>8 DEF StoreSlug, At, SprintReqOK, ReadOK
  <2> QED
    BY <1>1, <1>8, <2>1 DEF StoreSlug
<1> QED
  BY <1>3, <1>4, <1>5, <1>6, <1>7, <1>8

LEMMA OneActiveStep ==
  ASSUME SprintIInv, NEW r \in Requests, SprintStep(r), NEW q \in Requests, NEW s \in Sprints,
         sprint[s].state # "live" \/ sprint[s].status # "ACTIVE",
         sprint'[s].state = "live", sprint'[s].status = "ACTIVE", req[q].step = "write", Moves(q),
         Alone(q, {"createSprint", "updateSprint", "startSprint", "completeSprint"})
  PROVE  ActiveIn(sprint'[s].prj) = {}
<1>1. q = r
  BY SprintStepMoves DEF OnlyMoves, Moves
<1>2. PICK x : x = req[r]
  OBVIOUS
<1>3. PICK h : h = x.with
  OBVIOUS
<1>4. SprintReqOK(x) /\ sprint \in [Sprints -> SprintRow] /\ x.over \intersect Makers = {} /\ x.step = "write"
  BY <1>1, <1>2 DEF SprintIInv, SprintTyped, Alone, Makers
<1>5. sprint' # sprint
  OBVIOUS
<1>6. CASE /\ x.op = "createSprint" /\ h \in SprintRow
           /\ \E t \in Sprints : sprint[t].state = "none" /\ sprint' = [sprint EXCEPT ![t] = h]
  <2>1. sprint'[s] = h
    BY <1>4, <1>6
  <2>2. h.status = "ACTIVE" => ActiveIn(h.prj) = {}
    BY <1>3, <1>4, <1>6 DEF SprintReqOK, CreateOK
  <2> QED
    BY <2>1, <2>2
<1>7. CASE /\ x.op \in Updaters /\ h \in UpdateData /\ h.id \in Stored
           /\ sprint' = [sprint EXCEPT ![h.id].status = h.status]
  <2>1. s = h.id /\ sprint[s].status # "ACTIVE" /\ sprint'[s].prj = sprint[s].prj /\ h.status = "ACTIVE"
    BY <1>4, <1>7 DEF UpdateData, SprintRow, Stored
  <2>2. ActiveIn(sprint[s].prj) \subseteq {s}
    BY <1>3, <1>4, <1>7, <2>1 DEF SprintReqOK, UpdateOK
  <2>3. s \notin ActiveIn(sprint[s].prj)
    BY <2>1 DEF ActiveIn
  <2> QED
    BY <2>1, <2>2, <2>3
<1>8. CASE h \in Stored /\ sprint' = [sprint EXCEPT ![h].state = "gone"]
  BY <1>4, <1>8 DEF SprintRow, Stored
<1> QED
  BY <1>2, <1>3, <1>4, <1>5, <1>6, <1>7, <1>8, SprintWrites

LEMMA ActiveKeptStep ==
  ASSUME SprintIInv, NEW r \in Requests, SprintStep(r), NEW q \in Requests, NEW s \in Stored,
         sprint[s].status = "ACTIVE", sprint'[s].state = "gone",
         At(q, "removeSprint", "write"), Moves(q)
  PROVE  ~Alone(q, {"updateSprint", "startSprint"})
<1>1. q = r
  BY SprintStepMoves DEF OnlyMoves, Moves
<1>2. PICK x : x = req[r]
  OBVIOUS
<1>3. PICK h : h = x.with
  OBVIOUS
<1>4. /\ SprintReqOK(x) /\ sprint \in [Sprints -> SprintRow] /\ x.op = "removeSprint"
      /\ s \in Sprints /\ sprint[s].state = "live"
  BY <1>1, <1>2 DEF SprintIInv, SprintTyped, At, Stored
<1>5. h \in Stored /\ sprint' = [sprint EXCEPT ![h].state = "gone"]
  BY <1>2, <1>3, <1>4, SprintWrites DEF Updaters
<1>6. h = s
  BY <1>4, <1>5
<1>7. x.over \intersect {"updateSprint", "startSprint"} # {}
  BY <1>3, <1>4, <1>6 DEF SprintReqOK, RemoveOK
<1> QED
  BY <1>1, <1>2, <1>7 DEF Alone

\* A project's sprint is started alone, and stays until it is over: whatever
\* makes a sprint active finds no other active one in the project, and remove
\* deletes no active sprint, but for what overtook their checks (create, update,
\* startSprint, remove).
THEOREM ActiveSprint == SprintSpec => ActiveSprintHeld
<1>1. SprintIInv /\ [SprintNext]_sprintVars =>
        [ \A r \in Requests, s \in Sprints :
            LET makes == /\ sprint[s].state # "live" \/ sprint[s].status # "ACTIVE"
                         /\ sprint'[s].state = "live" /\ sprint'[s].status = "ACTIVE"
            IN makes /\ req[r].step = "write" /\ Moves(r)
               /\ Alone(r, {"createSprint", "updateSprint", "startSprint", "completeSprint"})
               => ActiveIn(sprint'[s].prj) = {} ]_sprintVars
  BY OneActiveStep DEF SprintNext
<1>2. SprintIInv /\ [SprintNext]_sprintVars =>
        [ \A r \in Requests, s \in Stored :
            /\ sprint[s].status = "ACTIVE" /\ sprint'[s].state = "gone"
            /\ At(r, "removeSprint", "write") /\ Moves(r)
            => ~Alone(r, {"updateSprint", "startSprint"}) ]_sprintVars
  BY ActiveKeptStep DEF SprintNext
<1> QED
  BY <1>1, <1>2, SprintInitIInv, SprintNextKeeps, PTL
     DEF SprintSpec, SprintNext, ActiveSprintHeld, OneActive, ActiveSprintKept

\* A slug that is stored ends that step of the read.
LEMMA StoringMoves ==
  ASSUME SprintIInv, NEW r \in Requests, StoreSlug(r)
  PROVE  req'[r].step # "store"
<1>1. PICK D : D = SprintData
  OBVIOUS
<1>2. PICK h : h = req[r].with
  OBVIOUS
<1>3. req \in [Requests -> RequestOf(D)] /\ h \in StoreData /\ NoData \in D
  <2>1. PICK x : x = req[r]
    OBVIOUS
  <2>2. x.op = "readSprints" /\ x.step = "store" /\ ReadOK(x)
    BY <2>1 DEF StoreSlug, At, SprintIInv, SprintReqOK
  <2> QED
    BY <1>1, <1>2, <2>1, <2>2, SprintDataFacts DEF SprintIInv, SprintTyped, ReadOK
<1>4. PICK step, k : step \in Steps /\ step = "next" /\ k = [todo |-> h.todo]
  BY DEF Steps
<1>5. k \in D
  <2>1. k \in ReadData
    BY <1>3, <1>4 DEF ReadData, StoreData
  <2> QED
    BY <1>1, <2>1, SprintDataFacts
<1>6. CASE Answer(r)
  <2>1. Moved(D, r, Idle, {})
    BY <1>3, <1>6, AnswerMoves
  <2> QED
    BY <1>3, <2>1, IdleType DEF Moved
<1>7. CASE Commit(r)
  <2>1. Moved(D, r, Idle, {req[r].op})
    BY <1>3, <1>7, CommitMoves
  <2> QED
    BY <1>3, <2>1, IdleType DEF Moved
<1>8. CASE CommitAnd(r, step, k)
  <2>1. req'[r].step = step
    BY <1>3, <1>4, <1>5, <1>8, CommitAndSteps
  <2> QED
    BY <1>4, <1>5, <2>1
<1> QED
  BY <1>2, <1>4, <1>6, <1>7, <1>8 DEF StoreSlug

LEMMA SlugStaysStep ==
  ASSUME SprintIInv, NEW r \in Requests, SprintStep(r), NEW s \in Stored,
         sprint[s].slug # NoSlug, sprint'[s].slug # sprint[s].slug
  PROVE  /\ At(r, "readSprints", "store") /\ Moves(r)
         /\ ~Alone(r, {"readSprints"})
<1>1. PICK x : x = req[r]
  OBVIOUS
<1>2. PICK h : h = x.with
  OBVIOUS
<1>3. /\ SprintReqOK(x) /\ sprint \in [Sprints -> SprintRow] /\ s \in Sprints /\ sprint[s].state = "live"
      /\ sprint' # sprint
  BY <1>1 DEF SprintIInv, SprintTyped, Stored
<1>4. CASE \E t \in Sprints : sprint[t].state = "none" /\ sprint' = [sprint EXCEPT ![t] = h]
  BY <1>3, <1>4
<1>5. CASE /\ h \in UpdateData /\ h.id \in Stored
           /\ sprint' = [sprint EXCEPT ![h.id].status = h.status]
  BY <1>3, <1>5 DEF UpdateData, SprintRow
<1>6. CASE h \in Stored /\ sprint' = [sprint EXCEPT ![h].state = "gone"]
  BY <1>3, <1>6 DEF SprintRow, Stored
<1>7. CASE \E t \in Stored : sprint' = [sprint EXCEPT ![t].archived = TRUE]
  BY <1>3, <1>7 DEF SprintRow, Stored
<1>8. CASE /\ x.op = "readSprints" /\ x.step = "store" /\ h \in StoreData
           /\ sprint' = [sprint EXCEPT ![h.id].slug = h.slug]
  <2>1. h.id = s
    BY <1>3, <1>8 DEF StoreData
  <2>2. s \in ToSlug(x)
    BY <1>2, <1>8, <2>1 DEF ToSlug
  <2>3. x.over \intersect {"readSprints"} # {}
    BY <1>3, <1>8, <2>2 DEF SprintReqOK, ReadOK
  <2>4. StoreSlug(r)
    BY <1>1, <1>3, <1>8 DEF SprintStep, AskCreateSprint, AskUpdateSprint, AskStartSprint,
       AskCompleteSprint, CheckUpdate, CreateSprint, UpdateSprint, RemoveSprint, ArchiveSprint,
       AskRemoveSprint, AskReadSprints, NextSlug, At, Once, Active
  <2> QED
    BY <1>1, <1>8, <2>3, <2>4, StoringMoves DEF At, Alone, Moves
<1> QED
  BY <1>1, <1>2, <1>3, <1>4, <1>5, <1>6, <1>7, <1>8, SprintWrites

LEMMA ReadsAnsweredStep ==
  ASSUME SprintIInv, NEW r \in Requests, SprintStep(r), NEW q \in Requests,
         At(q, "readSprints", "store"), req'[q].step # "store",
         Alone(q, {"readSprints", "createSprint", "removeSprint"})
  PROVE  sprint'[req[q].with.id].slug = req[q].with.slug
<1>1. q = r
  BY SprintStepMoves DEF OnlyMoves, At
<1>2. PICK x : x = req[r]
  OBVIOUS
<1>3. PICK h : h = x.with
  OBVIOUS
<1>4. /\ SprintReqOK(x) /\ sprint \in [Sprints -> SprintRow] /\ x.op = "readSprints" /\ x.step = "store"
      /\ x.over \intersect Sluggers = {}
  BY <1>1, <1>2 DEF SprintIInv, SprintTyped, At, Alone, Sluggers
<1>5. /\ h \in StoreData /\ h.id \in Stored
      /\ \A s \in In(sprint[h.id].prj) : sprint[s].slug # h.slug
  BY <1>3, <1>4 DEF SprintReqOK, ReadOK, ToSlug
<1>6. StoreSlug(r)
  BY <1>2, <1>4 DEF SprintStep, AskCreateSprint, AskUpdateSprint, AskStartSprint,
     AskCompleteSprint, CheckUpdate, CreateSprint, UpdateSprint, RemoveSprint, ArchiveSprint,
     AskRemoveSprint, AskReadSprints, NextSlug, At, Once, Ask, Active
<1>7. sprint' = [sprint EXCEPT ![h.id].slug = h.slug]
  BY <1>2, <1>3, <1>5, <1>6 DEF StoreSlug
<1>8. sprint'[h.id].slug = h.slug
  BY <1>4, <1>5, <1>7 DEF StoreData, SprintRow
<1> QED
  BY <1>1, <1>2, <1>3, <1>8

\* A sprint gets its slug once, from a read that is answered, but for what other
\* reads, creations and removals overtook (findAll, findAllByProjectSlug, findOne).
THEOREM Slugs == SprintSpec => SlugsSettle
<1>1. SprintIInv /\ [SprintNext]_sprintVars =>
        [ \A s \in Stored :
            sprint[s].slug # NoSlug /\ sprint'[s].slug # sprint[s].slug
            => \E r \in Requests : /\ At(r, "readSprints", "store") /\ Moves(r)
                                   /\ ~Alone(r, {"readSprints"}) ]_sprintVars
  BY SlugStaysStep DEF SprintNext
<1>2. SprintIInv /\ [SprintNext]_sprintVars =>
        [ \A r \in Requests :
            /\ At(r, "readSprints", "store") /\ req'[r].step # "store"
            /\ Alone(r, {"readSprints", "createSprint", "removeSprint"})
            => sprint'[req[r].with.id].slug = req[r].with.slug ]_sprintVars
  BY ReadsAnsweredStep DEF SprintNext
<1> QED
  BY <1>1, <1>2, SprintInitIInv, SprintNextKeeps, PTL
     DEF SprintSpec, SprintNext, SlugsSettle, SlugStays, ReadsAnswered

\* The sprints table and its requests keep their types, and no two sprints of a
\* project share a slug.
THEOREM SprintTypes == SprintSpec => [](SprintTyped /\ SprintTypeOK)
<1>1. SprintIInv => SprintTyped /\ SprintTypeOK
  BY DEF SprintIInv
<1> QED
  BY <1>1, SprintInitIInv, SprintNextKeeps, PTL DEF SprintSpec, SprintNext

-----------------------------------------------------------------------------
(***************************************************************************)
(* The workflows and the tasks.  Rows of statuses are never moved to       *)
(* another workflow, and a position never exceeds the number of rows, so   *)
(* what a handler read of either can be compared with what it finds.       *)
(***************************************************************************)

FlowRow == [state : {"none", "live", "gone"}, default : BOOLEAN]
StatRow == [state : {"none", "live", "deleted", "gone"}, flow : Workflows, name : Names,
            done : BOOLEAN, pos : Nat]
TaskRow == [state : {"none", "live", "gone"}, prj : Projects, status : Statuses,
            stamped : BOOLEAN, who : SUBSET Users]

CreateFlow == [w : Workflows, default : BOOLEAN, clear : SUBSET Workflows]
MakeFlow == [w : Workflows, clear : SUBSET Workflows]
ReviveData == [id : Statuses, row : StatRow]
RemovalData == [id : Statuses, flow : Workflows, pos : Nat]
NewTask == [prj : Projects, status : Statuses, who : SUBSET Users]
PatchData == [field : {"status"}, to : Statuses, done : BOOLEAN]
             \union [field : {"who"}, to : SUBSET Users, done : BOOLEAN]
             \union [field : {"prj"}, to : Projects, done : BOOLEAN]
EditData == [id : Tasks, patch : PatchData]
Target == [id : Statuses, done : BOOLEAN]
Asked == (UNION {[ts -> SUBSET Target] : ts \in SUBSET Tasks}) \union SUBSET Users
BulkData == [named : SUBSET Tasks, todo : SUBSET Tasks, failed : SUBSET Tasks, did : SUBSET Tasks,
             asked : Asked]
BoardData == CreateFlow \union MakeFlow \union Workflows \union StatRow \union ReviveData
             \union RemovalData \union Statuses \union NewTask \union EditData \union Tasks
             \union BulkData \union {NoData}

Tables ==
  /\ flow \in [Workflows -> FlowRow] /\ stat \in [Statuses -> StatRow]
  /\ uses \in [Projects -> Workflows] /\ task \in [Tasks -> TaskRow]

BoardTyped == Tables /\ req \in [Requests -> RequestOf(BoardData)]

\* What holds of the tables at any time: statuses belong to live workflows, and
\* a position counts no further than the rows.
Belongs ==
  /\ \A w \in Workflows : flow[w].default => flow[w].state = "live"
  /\ \A s \in Statuses : Known(s) => flow[stat[s].flow].state = "live"
  /\ \A s \in Statuses : stat[s].state = "gone" => flow[stat[s].flow].state = "gone"
  /\ \A p \in Projects : flow[uses[p]].state = "live"
  /\ \A t \in Live : Known(task[t].status)
Counts ==
  \A s \in Statuses : /\ stat[s].pos <= Cardinality(Statuses)
                      /\ Known(s) => stat[s].pos <= Cardinality(Rows(stat[s].flow))

Inserters == {"createStatus", "statusFromProject", "createWorkflow"}
Fillers == {"createTask", "bulkCreate", "updateTask", "bulkStatus"}
Movers == {"removeStatus", "positions", "createStatus", "restoreStatus"}
Namers == {"makeDefault", "createWorkflow"}
Recoders == {"updateStatus", "createStatus"}
Placers == {"switchWorkflow", "updateTask"}
Assigners == {"updateTask", "bulkAssign", "removeTask", "bulkDelete", "removeWorkflow"}

NamesOK(x) ==
  /\ x.op = "createWorkflow" => x.step = "write" /\ x.with \in CreateFlow
  /\ x.op = "makeDefault" =>
       /\ x.step = "write" /\ x.with \in MakeFlow
       /\ x.over \intersect Namers = {} => Defaults \subseteq x.with.clear \union {x.with.w}

EmptyOK(x) ==
  x.op = "removeWorkflow" =>
    /\ x.step = "write" /\ x.with \in Workflows
    /\ x.over \intersect Fillers = {} => TasksIn(x.with) = {}

InsertOK(x) ==
  /\ x.op = "createStatus" => x.step \in {"insert", "revive"}
  /\ x.op = "statusFromProject" => x.step = "insert"
  /\ x.step = "insert" /\ x.op \in {"createStatus", "statusFromProject"} =>
       /\ x.with \in StatRow /\ x.with.state = "live" /\ flow[x.with.flow].state # "none"
       /\ flow[x.with.flow].state = "live" =>
            /\ x.with.pos <= Cardinality(Rows(x.with.flow)) + 1
            /\ x.op = "createStatus" /\ x.over \intersect Inserters = {} =>
                 x.with.pos = Cardinality(Rows(x.with.flow)) + 1

ReviveOK(x) ==
  x.op = "createStatus" /\ x.step = "revive" =>
    /\ x.with \in ReviveData /\ x.with.row.state = "live" /\ stat[x.with.id].state # "none"
    /\ stat[x.with.id].flow = x.with.row.flow /\ flow[x.with.row.flow].state # "none"
    /\ flow[x.with.row.flow].state = "live" =>
         x.with.row.pos <= Cardinality(Rows(x.with.row.flow))

RemovalOK(x) ==
  /\ x.op = "removeStatus" =>
       /\ x.step = "write" /\ x.with \in RemovalData /\ stat[x.with.id].state # "none"
       /\ stat[x.with.id].flow = x.with.flow
       /\ x.over \intersect Movers = {} /\ Known(x.with.id) =>
            stat[x.with.id].state = "live" /\ stat[x.with.id].pos = x.with.pos
  /\ x.op = "restoreStatus" => x.step = "write" /\ x.with \in Statuses

EditOK(x) ==
  /\ x.op \in {"createTask", "bulkCreate"} => x.step = "insert" /\ x.with \in NewTask
  /\ x.op = "removeTask" => x.step = "write" /\ x.with \in Tasks
  /\ x.op = "updateTask" =>
       /\ x.step = "write" /\ x.with \in EditData
       /\ x.with.patch.field = "status" =>
            /\ stat[x.with.patch.to].state # "none"
            /\ x.over \intersect Recoders = {} => x.with.patch.done = stat[x.with.patch.to].done

BulkOps == {"bulkDelete", "bulkStatus", "bulkAssign"}
BulkOK(x) ==
  /\ x.op = "bulkDelete" => x.step \in {"check", "write", "reply"}
  /\ x.op = "bulkStatus" => x.step \in {"next", "reply"}
  /\ x.op = "bulkAssign" => x.step \in {"check", "clear", "assign", "reply"}
  /\ x.op \in BulkOps =>
       /\ x.with \in BulkData
       /\ x.with.named \subseteq x.with.failed \union x.with.did \union x.with.todo
       /\ x.with.failed \intersect x.with.did = {}
       /\ x.with.todo \intersect (x.with.failed \union x.with.did) = {}
       /\ x.step = "reply" => x.with.todo = {}
       /\ x.op # "bulkStatus" /\ x.step # "reply" => x.with.did = {}

TargetsOK(x) ==
  x.op = "bulkStatus" =>
    \A t \in x.with.todo :
      /\ t \in DOMAIN x.with.asked /\ x.with.asked[t] \subseteq Target /\ task[t].state # "none"
      /\ \A to \in x.with.asked[t] :
           /\ stat[to.id].state # "none"
           /\ x.over \intersect Recoders = {} => to.done = stat[to.id].done
           /\ x.over \intersect Placers = {} /\ t \in Live =>
                stat[to.id].flow = uses[task[t].prj]

AssignOK(x) ==
  x.op = "bulkAssign" =>
    /\ x.with.asked \subseteq Users
    /\ x.step \in {"clear", "assign"} /\ x.over \intersect Assigners = {} =>
         /\ x.with.todo \subseteq Live
         /\ x.step = "assign" => \A t \in x.with.todo : task[t].who = {}

BoardReqOK(x) ==
  /\ x.op = "idle" => x.step = ""
  /\ x.op \in {"idle", "createWorkflow", "makeDefault", "removeWorkflow", "createStatus",
               "statusFromProject", "removeStatus", "restoreStatus"} \union TaskOps
  /\ NamesOK(x) /\ EmptyOK(x) /\ InsertOK(x) /\ ReviveOK(x) /\ RemovalOK(x) /\ EditOK(x) /\ BulkOK(x)
  /\ TargetsOK(x) /\ AssignOK(x)

BoardIInv ==
  /\ BoardTyped /\ Belongs /\ Counts
  /\ \A r \in Requests : BoardReqOK(req[r])

\* What a step that overtakes the others with w has to leave to them.
BoardFramed(w) ==
  /\ \A v \in Workflows : flow[v].state # "none" =>
       /\ flow'[v].state # "none"
       /\ flow'[v].state = "live" =>
            /\ flow[v].state = "live" /\ Rows(v) \subseteq Rows(v)'
            /\ w \intersect Inserters = {} => Rows(v)' = Rows(v)
  /\ \A s \in Statuses : stat[s].state # "none" =>
       /\ stat'[s].state # "none" /\ stat'[s].flow = stat[s].flow
       /\ Known(s)' => Known(s)
       /\ w \intersect Recoders = {} => stat'[s].done = stat[s].done
       /\ w \intersect Movers = {} /\ stat[s].state = "live" /\ Known(s)' =>
            stat'[s].state = "live" /\ stat'[s].pos = stat[s].pos
  /\ w \intersect Namers = {} => Defaults' \subseteq Defaults
  /\ w \intersect Fillers = {} => \A v \in Workflows : TasksIn(v)' \subseteq TasksIn(v)
  /\ \A t \in Tasks : task[t].state # "none" =>
       /\ task'[t].state # "none"
       /\ t \in Live' => t \in Live
       /\ w \intersect Placers = {} /\ t \in Live' => task'[t].prj = task[t].prj
  /\ w \intersect Placers = {} => uses' = uses
  /\ w \intersect Assigners = {} => \A t \in Live : t \in Live' /\ task'[t].who = task[t].who

LEMMA RowsFinite ==
  ASSUME NEW S \in SUBSET Statuses
  PROVE  IsFiniteSet(S) /\ Cardinality(S) \in Nat /\ Cardinality(S) <= Cardinality(Statuses)
BY WorkflowsAssumption, FS_Subset, FS_CardinalityType

LEMMA RowsGrow ==
  ASSUME NEW S \in SUBSET Statuses, NEW T \in SUBSET Statuses, S \subseteq T
  PROVE  Cardinality(S) <= Cardinality(T) /\ Cardinality(S) \in Nat /\ Cardinality(T) \in Nat
BY RowsFinite, FS_Subset

\* What r's step leaves to request x, which it overtakes with w.
Left(x, b, w) ==
  /\ x \in RequestOf(BoardData) /\ b \in RequestOf(BoardData)
  /\ b.op = x.op /\ b.step = x.step /\ b.with = x.with
  /\ x.op # "idle" => b.over = x.over \union w
  /\ BoardReqOK(x) /\ Tables /\ BoardFramed(w)

LEMMA NamesLeft ==
  ASSUME NEW x, NEW b, NEW w, Left(x, b, w)
  PROVE  NamesOK(b)' /\ EmptyOK(b)'
<1>1. NamesOK(b)'
  <2> HIDE DEF Defaults
  <2> QED
    BY DEF Left, BoardReqOK, NamesOK, BoardFramed
<1>2. EmptyOK(b)'
  <2>1. SUFFICES ASSUME b.op = "removeWorkflow"
        PROVE  EmptyOK(b)'
    BY DEF EmptyOK
  <2>2. PICK v : v = b.with
    OBVIOUS
  <2>3. b.step = "write" /\ v \in Workflows
    BY <2>1, <2>2 DEF Left, BoardReqOK, EmptyOK
  <2>4. ASSUME b.over \intersect Fillers = {}
        PROVE  TasksIn(v)' = {}
    <3>1. x.over \intersect Fillers = {} /\ w \intersect Fillers = {}
      BY <2>1, <2>4 DEF Left
    <3>2. TasksIn(v) = {}
      BY <2>1, <2>2, <3>1 DEF Left, BoardReqOK, EmptyOK
    <3>3. TasksIn(v)' \subseteq TasksIn(v)
      BY <2>3, <3>1 DEF Left, BoardFramed
    <3> HIDE DEF TasksIn
    <3> QED
      BY <3>2, <3>3
  <2> QED
    BY <2>2, <2>3, <2>4 DEF EmptyOK
<1> QED
  BY <1>1, <1>2

LEMMA StatusesLeft ==
  ASSUME NEW x, NEW b, NEW w, Left(x, b, w)
  PROVE  InsertOK(b)' /\ ReviveOK(b)' /\ RemovalOK(b)'
<1>1. ASSUME NEW v \in Workflows
      PROVE  /\ Rows(v) \in SUBSET Statuses /\ Rows(v)' \in SUBSET Statuses
             /\ Cardinality(Rows(v)) \in Nat /\ Cardinality(Rows(v)') \in Nat
  <2>1. Rows(v) \in SUBSET Statuses /\ Rows(v)' \in SUBSET Statuses
    BY DEF Rows
  <2> QED
    BY <2>1, RowsFinite
<1>2. InsertOK(b)'
  <2> SUFFICES ASSUME b.step = "insert", b.op \in {"createStatus", "statusFromProject"}
               PROVE  InsertOK(b)'
    BY DEF InsertOK, Left, BoardReqOK
  <2>1. PICK row : row = b.with
    OBVIOUS
  <2>2. row \in StatRow /\ row.state = "live" /\ flow[row.flow].state # "none"
    BY <2>1 DEF Left, BoardReqOK, InsertOK
  <2>3. PICK v \in Workflows : v = row.flow
    BY <2>2 DEF StatRow
  <2>4. flow'[v].state # "none"
    BY <2>2, <2>3 DEF Left, BoardFramed
  <2>5. ASSUME flow'[v].state = "live"
        PROVE  /\ row.pos <= Cardinality(Rows(v)') + 1
               /\ b.op = "createStatus" /\ b.over \intersect Inserters = {} =>
                    row.pos = Cardinality(Rows(v)') + 1
    <3>1. /\ flow[v].state = "live" /\ Rows(v) \subseteq Rows(v)'
          /\ w \intersect Inserters = {} => Rows(v)' = Rows(v)
      BY <2>2, <2>3, <2>5 DEF Left, BoardFramed
    <3>2. /\ row.pos <= Cardinality(Rows(v)) + 1
          /\ b.op = "createStatus" /\ x.over \intersect Inserters = {} =>
               row.pos = Cardinality(Rows(v)) + 1
      BY <2>1, <2>3, <3>1 DEF Left, BoardReqOK, InsertOK
    <3>3. Cardinality(Rows(v)) <= Cardinality(Rows(v)')
      BY <1>1, <3>1, RowsGrow
    <3>4. row.pos \in Nat
      BY <2>2 DEF StatRow
    <3>5. b.over \intersect Inserters = {} =>
            x.over \intersect Inserters = {} /\ w \intersect Inserters = {}
      BY DEF Left
    <3> HIDE DEF Rows
    <3> QED
      BY <1>1, <3>1, <3>2, <3>3, <3>4, <3>5
  <2>6. b.op = "createStatus" => b.step \in {"insert", "revive"}
    OBVIOUS
  <2>7. b.op = "statusFromProject" => b.step = "insert"
    OBVIOUS
  <2> QED
    BY <2>1, <2>2, <2>3, <2>4, <2>5, <2>6, <2>7 DEF InsertOK
<1>3. ReviveOK(b)'
  <2> SUFFICES ASSUME b.op = "createStatus", b.step = "revive"
               PROVE  ReviveOK(b)'
    BY DEF ReviveOK
  <2>1. PICK s, row : s = b.with.id /\ row = b.with.row
    OBVIOUS
  <2>2. /\ b.with \in ReviveData /\ s \in Statuses /\ row \in StatRow /\ row.state = "live"
        /\ stat[s].state # "none" /\ stat[s].flow = row.flow /\ flow[row.flow].state # "none"
        /\ flow[row.flow].state = "live" => row.pos <= Cardinality(Rows(row.flow))
    BY <2>1 DEF Left, BoardReqOK, ReviveOK, ReviveData
  <2>3. PICK v \in Workflows : v = row.flow
    BY <2>2 DEF StatRow
  <2>4. stat'[s].state # "none" /\ stat'[s].flow = v /\ flow'[v].state # "none"
    BY <2>2, <2>3 DEF Left, BoardFramed
  <2>5. ASSUME flow'[v].state = "live"
        PROVE  row.pos <= Cardinality(Rows(v)')
    <3>1. flow[v].state = "live" /\ Rows(v) \subseteq Rows(v)'
      BY <2>2, <2>3, <2>5 DEF Left, BoardFramed
    <3>2. Cardinality(Rows(v)) <= Cardinality(Rows(v)')
      BY <1>1, <3>1, RowsGrow
    <3>3. row.pos \in Nat
      BY <2>2 DEF StatRow
    <3> HIDE DEF Rows
    <3> QED
      BY <1>1, <2>2, <2>3, <3>1, <3>2, <3>3
  <2> QED
    BY <2>1, <2>2, <2>3, <2>4, <2>5 DEF ReviveOK
<1>4. RemovalOK(b)'
  <2>1. b.op = "restoreStatus" => b.step = "write" /\ b.with \in Statuses
    BY DEF Left, BoardReqOK, RemovalOK
  <2> SUFFICES ASSUME b.op = "removeStatus"
               PROVE  RemovalOK(b)'
    BY <2>1 DEF RemovalOK
  <2>2. PICK s : s = b.with.id
    OBVIOUS
  <2>3. /\ b.step = "write" /\ b.with \in RemovalData /\ s \in Statuses
        /\ stat[s].state # "none" /\ stat[s].flow = b.with.flow
    BY <2>2 DEF Left, BoardReqOK, RemovalOK, RemovalData
  <2>4. stat'[s].state # "none" /\ stat'[s].flow = b.with.flow
    BY <2>3 DEF Left, BoardFramed
  <2>5. ASSUME b.over \intersect Movers = {}, Known(s)'
        PROVE  stat'[s].state = "live" /\ stat'[s].pos = b.with.pos
    <3>1. x.over \intersect Movers = {} /\ w \intersect Movers = {}
      BY <2>5 DEF Left
    <3>2. Known(s)
      BY <2>3, <2>5 DEF Left, BoardFramed
    <3>3. stat[s].state = "live" /\ stat[s].pos = b.with.pos
      BY <2>2, <3>1, <3>2 DEF Left, BoardReqOK, RemovalOK
    <3> QED
      BY <2>3, <2>5, <3>1, <3>3 DEF Left, BoardFramed
  <2> QED
    BY <2>2, <2>3, <2>4, <2>5 DEF RemovalOK
<1> QED
  BY <1>2, <1>3, <1>4


LEMMA TasksLeft ==
  ASSUME NEW x, NEW b, NEW w, Left(x, b, w)
  PROVE  EditOK(b)' /\ BulkOK(b)' /\ TargetsOK(b)' /\ AssignOK(b)'
<1>1. EditOK(b)'
  <2>1. /\ b.op \in {"createTask", "bulkCreate"} => b.step = "insert" /\ b.with \in NewTask
        /\ b.op = "removeTask" => b.step = "write" /\ b.with \in Tasks
    BY DEF Left, BoardReqOK, EditOK
  <2>2. ASSUME b.op = "updateTask"
        PROVE  /\ b.step = "write" /\ b.with \in EditData
               /\ b.with.patch.field = "status" =>
                    /\ stat'[b.with.patch.to].state # "none"
                    /\ b.over \intersect Recoders = {} =>
                         b.with.patch.done = stat'[b.with.patch.to].done
    <3>1. PICK patch, s : patch = b.with.patch /\ s = patch.to
      OBVIOUS
    <3>2. /\ b.step = "write" /\ b.with \in EditData /\ patch \in PatchData
          /\ patch.field = "status" =>
               /\ stat[s].state # "none"
               /\ x.over \intersect Recoders = {} => patch.done = stat[s].done
      BY <2>2, <3>1 DEF Left, BoardReqOK, EditOK, EditData
    <3>3. patch.field = "status" => s \in Statuses
      BY <3>1, <3>2 DEF PatchData
    <3>4. ASSUME patch.field = "status"
          PROVE  /\ stat'[s].state # "none"
                 /\ w \intersect Recoders = {} => stat'[s].done = stat[s].done
      BY <3>2, <3>3, <3>4 DEF Left, BoardFramed
    <3>5. b.over \intersect Recoders = {} => x.over \intersect Recoders = {} /\ w \intersect Recoders = {}
      BY <2>2 DEF Left
    <3> QED
      BY <3>1, <3>2, <3>4, <3>5
  <2> QED
    BY <2>1, <2>2 DEF EditOK
<1>2. BulkOK(b)'
  BY DEF Left, BoardReqOK, BulkOK
<1>3. TargetsOK(b)'
  <2> SUFFICES ASSUME b.op = "bulkStatus"
               PROVE  TargetsOK(b)'
    BY DEF TargetsOK
  <2>1. PICK h : h = b.with
    OBVIOUS
  <2>2. h.todo \subseteq Tasks
    BY <2>1 DEF Left, BoardReqOK, BulkOK, BulkOps, BulkData
  <2>3. ASSUME NEW t \in h.todo
        PROVE  /\ t \in DOMAIN h.asked /\ h.asked[t] \subseteq Target /\ task[t].state # "none"
               /\ \A to \in h.asked[t] :
                    /\ stat[to.id].state # "none"
                    /\ x.over \intersect Recoders = {} => to.done = stat[to.id].done
                    /\ x.over \intersect Placers = {} /\ t \in Live =>
                         stat[to.id].flow = uses[task[t].prj]
    BY <2>1 DEF Left, BoardReqOK, TargetsOK
  <2>4. ASSUME NEW t \in h.todo
        PROVE  /\ task'[t].state # "none"
               /\ t \in Live' => t \in Live
               /\ w \intersect Placers = {} /\ t \in Live' => uses' = uses /\ task'[t].prj = task[t].prj
    BY <2>2, <2>3, <2>4 DEF Left, BoardFramed
  <2>5. ASSUME NEW t \in h.todo, NEW to \in h.asked[t]
        PROVE  /\ stat'[to.id].state # "none" /\ stat'[to.id].flow = stat[to.id].flow
               /\ w \intersect Recoders = {} => stat'[to.id].done = stat[to.id].done
    <3>1. to.id \in Statuses /\ stat[to.id].state # "none"
      BY <2>3 DEF Target
    <3> QED
      BY <3>1 DEF Left, BoardFramed
  <2>6. /\ b.over \intersect Recoders = {} => x.over \intersect Recoders = {} /\ w \intersect Recoders = {}
        /\ b.over \intersect Placers = {} => x.over \intersect Placers = {} /\ w \intersect Placers = {}
    BY DEF Left
  <2>7. ASSUME NEW t \in h.todo, NEW to \in h.asked[t]
        PROVE  /\ stat'[to.id].state # "none"
               /\ b.over \intersect Recoders = {} => to.done = stat'[to.id].done
               /\ b.over \intersect Placers = {} /\ t \in Live' =>
                    stat'[to.id].flow = uses'[task'[t].prj]
    BY <2>3, <2>4, <2>5, <2>6
  <2> QED
    BY <2>1, <2>3, <2>4, <2>7 DEF TargetsOK
<1>4. AssignOK(b)'
  <2> SUFFICES ASSUME b.op = "bulkAssign"
               PROVE  AssignOK(b)'
    BY DEF AssignOK
  <2>1. PICK h : h = b.with
    OBVIOUS
  <2>2. h.asked \subseteq Users
    BY <2>1 DEF Left, BoardReqOK, AssignOK
  <2>3. ASSUME b.step \in {"clear", "assign"}, b.over \intersect Assigners = {}
        PROVE  /\ h.todo \subseteq Live'
               /\ b.step = "assign" => \A t \in h.todo : task'[t].who = {}
    <3>1. x.over \intersect Assigners = {} /\ w \intersect Assigners = {}
      BY <2>3 DEF Left
    <3>2. /\ h.todo \subseteq Live
          /\ b.step = "assign" => \A t \in h.todo : task[t].who = {}
      BY <2>1, <2>3, <3>1 DEF Left, BoardReqOK, AssignOK
    <3>3. \A t \in Live : t \in Live' /\ task'[t].who = task[t].who
      BY <3>1 DEF Left, BoardFramed
    <3> QED
      BY <3>2, <3>3
  <2> QED
    BY <2>1, <2>2, <2>3 DEF AssignOK
<1> QED
  BY <1>1, <1>2, <1>3, <1>4


LEMMA RequestLeft ==
  ASSUME NEW x, NEW b, NEW w, Left(x, b, w)
  PROVE  BoardReqOK(b)'
<1>1. NamesOK(b)' /\ EmptyOK(b)'
  BY NamesLeft
<1>2. InsertOK(b)' /\ ReviveOK(b)' /\ RemovalOK(b)'
  BY StatusesLeft
<1>3. EditOK(b)' /\ BulkOK(b)' /\ TargetsOK(b)' /\ AssignOK(b)'
  BY TasksLeft
<1>4. /\ b.op = "idle" => b.step = ""
      /\ b.op \in {"idle", "createWorkflow", "makeDefault", "removeWorkflow", "createStatus",
                   "statusFromProject", "removeStatus", "restoreStatus"} \union TaskOps
  BY DEF Left, BoardReqOK
<1> QED
  BY <1>1, <1>2, <1>3, <1>4 DEF BoardReqOK

LEMMA BoardOthersKeep ==
  ASSUME BoardIInv, NEW r \in Requests, NEW y, NEW w, Moved(BoardData, r, y, w),
         BoardFramed(w), NEW q \in Requests \ {r}
  PROVE  BoardReqOK(req[q])'
<1>1. PICK a, b : a = req[q] /\ b = req'[q]
  OBVIOUS
<1>2. PICK D : D = BoardData
  OBVIOUS
<1>3. /\ a \in RequestOf(D) /\ b \in RequestOf(D)
      /\ b.op = a.op /\ b.step = a.step /\ b.with = a.with
      /\ a.op # "idle" => b.over = a.over \union w
  BY <1>1, <1>2 DEF BoardIInv, BoardTyped, Moved
<1>4. Left(a, b, w)
  BY <1>1, <1>2, <1>3 DEF Left, BoardIInv, BoardTyped
<1>5. BoardReqOK(b)'
  BY <1>4, RequestLeft
<1>6. BoardReqOK(req[q])' <=> BoardReqOK(b)'
  BY <1>1
<1> QED
  BY <1>5, <1>6

LEMMA BoardStepKeeps ==
  ASSUME BoardIInv, NEW r \in Requests, NEW y, NEW w, Moved(BoardData, r, y, w),
         BoardFramed(w), Tables', Belongs', Counts', BoardReqOK(y)'
  PROVE  BoardIInv'
<1>1. BoardReqOK(req[r])'
  <2>1. y = req'[r]
    BY DEF Moved
  <2> QED
    BY <2>1
<1>2. ASSUME NEW q \in Requests
      PROVE  BoardReqOK(req[q])'
  BY <1>1, BoardOthersKeep
<1> QED
  BY <1>2 DEF BoardIInv, BoardTyped, Moved

LEMMA BoardAtRest == ASSUME NEW y, y.op = "idle", y.step = "" PROVE BoardReqOK(y) /\ BoardReqOK(y)'
BY DEF BoardReqOK, NamesOK, EmptyOK, InsertOK, ReviveOK, RemovalOK, EditOK, BulkOK, BulkOps, TargetsOK,
   AssignOK, TaskOps

BoardSame == UNCHANGED <<flow, stat, uses, task>>

LEMMA BoardSameFacts ==
  ASSUME BoardIInv, BoardSame
  PROVE  BoardFramed({}) /\ Tables' /\ Belongs' /\ Counts'
<1>1. /\ \A v : Rows(v)' = Rows(v) /\ TasksIn(v)' = TasksIn(v)
      /\ Defaults' = Defaults /\ Live' = Live
      /\ \A s : Known(s)' <=> Known(s)
  BY DEF BoardSame, Rows, TasksIn, Defaults, Live, Known
<1>2. BoardFramed({})
  BY <1>1 DEF BoardFramed, BoardSame
<1>3. Tables' /\ Belongs'
  BY <1>1 DEF BoardSame, Tables, Belongs, BoardIInv, BoardTyped
<1>4. Counts'
  BY <1>1 DEF BoardSame, Counts, BoardIInv
<1> QED
  BY <1>2, <1>3, <1>4

\* Steps that write nothing.
LEMMA BoardLookingKeeps ==
  ASSUME BoardIInv, NEW r \in Requests, NEW y, Moved(BoardData, r, y, {}), BoardSame, BoardReqOK(y)
  PROVE  BoardIInv'
<1>1. BoardFramed({}) /\ Tables' /\ Belongs' /\ Counts'
  BY BoardSameFacts
<1>2. Left(y, y, {})
  BY <1>1 DEF Left, Moved, BoardIInv, BoardTyped
<1>3. BoardReqOK(y)'
  BY <1>2, RequestLeft
<1> QED
  BY <1>1, <1>3, BoardStepKeeps

\* A request that begins, one that goes on and one that ends, with nothing written.
LEMMA BoardAskKeeps ==
  ASSUME BoardIInv, NEW r \in Requests, NEW op \in Ops, NEW step \in Steps, NEW with \in BoardData,
         Ask(r, op, step, with), BoardSame,
         \A y \in RequestOf(BoardData) :
           y.op = op /\ y.step = step /\ y.with = with /\ y.over = {} => BoardReqOK(y)
  PROVE  BoardIInv'
<1>1. PICK D : D = BoardData
  OBVIOUS
<1>2. req \in [Requests -> RequestOf(D)] /\ with \in D
  BY <1>1 DEF BoardIInv, BoardTyped
<1>3. PICK y \in RequestOf(D) : /\ Moved(D, r, y, {}) /\ y.op = op /\ y.step = step
                                /\ y.with = with /\ y.over = {} /\ req[r].op = "idle"
  BY <1>2, AskMoves
<1> QED
  BY <1>1, <1>3, BoardLookingKeeps

LEMMA BoardGoOnKeeps ==
  ASSUME BoardIInv, NEW r \in Requests, NEW step \in Steps, NEW with \in BoardData,
         GoOn(r, step, with), BoardSame,
         \A y \in RequestOf(BoardData) :
           y.op = req[r].op /\ y.step = step /\ y.with = with /\ y.over = req[r].over => BoardReqOK(y)
  PROVE  BoardIInv'
<1>1. PICK D : D = BoardData
  OBVIOUS
<1>2. req \in [Requests -> RequestOf(D)] /\ with \in D
  BY <1>1 DEF BoardIInv, BoardTyped
<1>3. PICK y \in RequestOf(D) : /\ Moved(D, r, y, {}) /\ y.op = req[r].op /\ y.step = step
                                /\ y.with = with /\ y.over = req[r].over
  BY <1>2, GoOnMoves
<1> QED
  BY <1>1, <1>3, BoardLookingKeeps

LEMMA BoardAnswerKeeps ==
  ASSUME BoardIInv, NEW r \in Requests, Answer(r), BoardSame
  PROVE  BoardIInv'
<1>1. PICK D, y : D = BoardData /\ y = Idle
  OBVIOUS
<1>2. req \in [Requests -> RequestOf(D)] /\ NoData \in D
  BY <1>1 DEF BoardIInv, BoardTyped, BoardData
<1>3. Moved(D, r, y, {}) /\ y.op = "idle" /\ y.step = ""
  BY <1>1, <1>2, AnswerMoves, IdleType
<1>4. BoardReqOK(y)
  BY <1>3, BoardAtRest
<1> QED
  BY <1>1, <1>3, <1>4, BoardLookingKeeps

\* A request that ends with a write, one that goes on after it, and one that is
\* a single write.
LEMMA BoardCommitKeeps ==
  ASSUME BoardIInv, NEW r \in Requests, Commit(r), NEW w, w = {req[r].op}, BoardFramed(w),
         Tables', Belongs', Counts'
  PROVE  BoardIInv'
<1>1. PICK D, y : D = BoardData /\ y = Idle
  OBVIOUS
<1>2. req \in [Requests -> RequestOf(D)] /\ NoData \in D
  BY <1>1 DEF BoardIInv, BoardTyped, BoardData
<1>3. Moved(D, r, y, w) /\ y.op = "idle" /\ y.step = ""
  BY <1>1, <1>2, CommitMoves, IdleType
<1>4. BoardReqOK(y)'
  BY <1>3, BoardAtRest
<1> QED
  BY <1>1, <1>3, <1>4, BoardStepKeeps

LEMMA BoardCommitAndKeeps ==
  ASSUME BoardIInv, NEW r \in Requests, NEW step \in Steps, NEW with \in BoardData,
         CommitAnd(r, step, with), BoardFramed({req[r].op}), Tables', Belongs', Counts',
         \A y \in RequestOf(BoardData) :
           y.op = req[r].op /\ y.step = step /\ y.with = with /\ y.over = req[r].over => BoardReqOK(y)'
  PROVE  BoardIInv'
<1>1. PICK D : D = BoardData
  OBVIOUS
<1>2. req \in [Requests -> RequestOf(D)] /\ with \in D
  BY <1>1 DEF BoardIInv, BoardTyped
<1>3. PICK w : w = {req[r].op}
  OBVIOUS
<1>4. PICK y \in RequestOf(D) : /\ Moved(D, r, y, w) /\ y.op = req[r].op /\ y.step = step
                                /\ y.with = with /\ y.over = req[r].over
  BY <1>2, <1>3, CommitAndMoves
<1> QED
  BY <1>1, <1>3, <1>4, BoardStepKeeps

LEMMA BoardOnceKeeps ==
  ASSUME BoardIInv, NEW r \in Requests, NEW op \in Ops, Once(r, op), BoardFramed({op}),
         Tables', Belongs', Counts'
  PROVE  BoardIInv'
<1>1. PICK D : D = BoardData
  OBVIOUS
<1>2. req \in [Requests -> RequestOf(D)]
  BY <1>1 DEF BoardIInv, BoardTyped
<1>3. PICK y : y = req[r]
  OBVIOUS
<1>4. Moved(D, r, y, {op}) /\ y.op = "idle"
  BY <1>2, <1>3, OnceMoves
<1>5. y.step = ""
  BY <1>3, <1>4 DEF BoardIInv, BoardReqOK
<1>6. BoardReqOK(y)'
  BY <1>4, <1>5, BoardAtRest
<1> QED
  BY <1>1, <1>4, <1>6, BoardStepKeeps


-----------------------------------------------------------------------------
\* The statuses of a new workflow.

LEMMA SeedsAreRows ==
  ASSUME NEW ids \in SUBSET Statuses, Cardinality(ids) >= Len(DefaultNames)
  PROVE  /\ Seeds(ids) \in [1..Len(DefaultNames) -> ids]
         /\ \A m, n \in 1..Len(DefaultNames) : Seeds(ids)[m] = Seeds(ids)[n] => m = n
<1> DEFINE L == Len(DefaultNames)
           C == Cardinality(ids)
<1>1. L \in Nat /\ C \in Nat /\ L <= C /\ IsFiniteSet(ids)
  BY WorkflowsAssumption, RowsFinite
<1>2. PICK g \in Bijection(1..C, ids) : TRUE
  BY <1>1, FS_CardinalityType DEF ExistsBijection
<1>3. g \in [1..C -> ids] /\ \A m, n \in 1..C : g[m] = g[n] => m = n
  BY <1>2 DEF Bijection, Injection, IsInjective
<1>4. PICK h : h = [n \in 1..L |-> g[n]]
  OBVIOUS
<1>5. h \in [1..L -> ids] /\ \A m, n \in 1..L : h[m] = h[n] => m = n
  BY <1>1, <1>3, <1>4
<1>6. \E f \in [1..L -> ids] : \A m, n \in DOMAIN f : f[m] = f[n] => m = n
  BY <1>5
<1>7. /\ Seeds(ids) \in [1..L -> ids]
      /\ \A m, n \in DOMAIN Seeds(ids) : Seeds(ids)[m] = Seeds(ids)[n] => m = n
  BY <1>6 DEF Seeds
<1> QED
  BY <1>7

\* The table with the seeds of w: rows of ids, at the positions of the names.
Seeded(table, after, w, ids) ==
  /\ after \in [Statuses -> StatRow]
  /\ \E new \in SUBSET ids :
       /\ Cardinality(new) = Len(DefaultNames)
       /\ \A s \in new : after[s].state = "live" /\ after[s].flow = w /\ after[s].pos <= Len(DefaultNames)
       /\ \A s \in Statuses \ new : after[s] = table[s]

LEMMA SeedsStored ==
  ASSUME NEW table \in [Statuses -> StatRow], NEW w \in Workflows, NEW ids \in SUBSET Statuses,
         Cardinality(ids) >= Len(DefaultNames)
  PROVE  Seeded(table, WithSeeds(table, w, ids), w, ids)
<1> DEFINE L == Len(DefaultNames)
<1>1. PICK f : f = Seeds(ids)
  OBVIOUS
<1>2. f \in [1..L -> ids] /\ \A m, n \in 1..L : f[m] = f[n] => m = n
  BY <1>1, SeedsAreRows
<1>3. L \in Nat /\ \A n \in 1..L : DefaultNames[n] \in Names
  BY WorkflowsAssumption
<1>4. PICK after : after = WithSeeds(table, w, ids)
  OBVIOUS
<1>5. after = [s \in Statuses |->
                 IF \E n \in 1..L : f[n] = s
                   THEN LET n == CHOOSE n \in 1..L : f[n] = s
                        IN NewStatus(w, DefaultNames[n], DefaultNames[n] \in DoneNames, n)
                   ELSE table[s]]
  BY <1>1, <1>2, <1>4 DEF WithSeeds
<1>6. PICK new : new = {f[n] : n \in 1..L}
  OBVIOUS
<1>7. new \in SUBSET ids /\ Cardinality(new) = L
  <2>1. new \in SUBSET ids /\ f \in Bijection(1..L, new)
    BY <1>2, <1>6 DEF Bijection, Injection, Surjection, IsInjective
  <2>2. IsFiniteSet(1..L) /\ Cardinality(1..L) = L
    <3>1. L \in Int /\ L >= 0
      BY <1>3
    <3> HIDE DEF L
    <3> QED
      BY <3>1, FS_Interval
  <2>3. ExistsBijection(1..L, new)
    BY <2>1 DEF ExistsBijection
  <2> QED
    BY <2>1, <2>2, <2>3, FS_Bijection
<1>8. ASSUME NEW s \in new
      PROVE  /\ after[s] \in StatRow /\ after[s].state = "live" /\ after[s].flow = w
             /\ after[s].pos <= L
  <2>1. PICK n \in 1..L : n = CHOOSE m \in 1..L : f[m] = s
    BY <1>6
  <2>2. s \in Statuses /\ \E m \in 1..L : f[m] = s
    BY <1>6, <1>7
  <2>3. after[s] = NewStatus(w, DefaultNames[n], DefaultNames[n] \in DoneNames, n)
    BY <1>5, <2>1, <2>2
  <2>4. PICK done \in BOOLEAN : done <=> (DefaultNames[n] \in DoneNames)
    OBVIOUS
  <2>5. after[s] = [state |-> "live", flow |-> w, name |-> DefaultNames[n], done |-> done, pos |-> n]
    BY <2>3, <2>4 DEF NewStatus
  <2> QED
    BY <1>3, <2>5 DEF StatRow
<1>9. ASSUME NEW s \in Statuses \ new
      PROVE  after[s] = table[s]
  BY <1>5, <1>6
<1>10. after \in [Statuses -> StatRow]
  BY <1>5, <1>8, <1>9
<1> QED
  BY <1>4, <1>7, <1>8, <1>9, <1>10 DEF Seeded

\* With the seeds of a workflow that had no rows, positions are still bounded.
LEMMA SeedsCounted ==
  ASSUME Tables, Counts, Tables', NEW w \in Workflows, NEW ids \in SUBSET Statuses,
         Rows(w) = {}, \A s \in ids : stat[s].state = "none",
         Seeded(stat, stat', w, ids)
  PROVE  Counts' /\ \A v \in Workflows : Rows(v) \subseteq Rows(v)'
<1>1. PICK new \in SUBSET ids :
        /\ Cardinality(new) = Len(DefaultNames)
        /\ \A s \in new : /\ stat'[s].state = "live" /\ stat'[s].flow = w
                          /\ stat'[s].pos <= Len(DefaultNames)
        /\ \A s \in Statuses \ new : stat'[s] = stat[s]
  BY DEF Seeded
<1>2. ASSUME NEW v \in Workflows PROVE Rows(v) \subseteq Rows(v)'
  BY <1>1, <1>2 DEF Rows, Known
<1>3. new \subseteq Rows(w)'
  BY <1>1 DEF Rows, Known
<1>4. ASSUME NEW v \in Workflows
      PROVE  /\ Rows(v) \in SUBSET Statuses /\ Rows(v)' \in SUBSET Statuses
             /\ Cardinality(Rows(v)) \in Nat /\ Cardinality(Rows(v)') \in Nat
             /\ Cardinality(Rows(v)) <= Cardinality(Rows(v)')
  <2>1. Rows(v) \in SUBSET Statuses /\ Rows(v)' \in SUBSET Statuses
    BY DEF Rows
  <2> HIDE DEF Rows
  <2> QED
    BY <1>2, <2>1, RowsGrow
<1>5. Len(DefaultNames) <= Cardinality(Rows(w)') /\ Len(DefaultNames) <= Cardinality(Statuses)
  <2>1. Cardinality(new) <= Cardinality(Rows(w)')
    <3>1. new \in SUBSET Statuses
      BY <1>1
    <3> HIDE DEF Rows
    <3> QED
      BY <1>3, <1>4, <3>1, RowsGrow
  <2> QED
    BY <1>1, <2>1, WorkflowsAssumption
<1>6. ASSUME NEW s \in Statuses
      PROVE  /\ stat'[s].pos <= Cardinality(Statuses)
             /\ (Known(s) => stat[s].pos <= Cardinality(Rows(stat[s].flow)))'
  <2>1. CASE s \in new
    <3>1. stat'[s].flow = w /\ stat'[s].pos <= Len(DefaultNames) /\ stat'[s].pos \in Nat
      BY <1>1, <2>1 DEF Tables, StatRow
    <3>2. Cardinality(Statuses) \in Nat /\ Cardinality(Rows(w)') \in Nat /\ Len(DefaultNames) \in Nat
      BY <1>4, RowsFinite, WorkflowsAssumption
    <3> HIDE DEF Rows
    <3> QED
      BY <1>5, <3>1, <3>2
  <2>2. CASE s \notin new
    <3>1. stat'[s] = stat[s] /\ stat[s].pos \in Nat /\ stat[s].flow \in Workflows
      BY <1>1, <2>2 DEF Tables, StatRow
    <3>2. PICK v \in Workflows : v = stat[s].flow
      BY <3>1
    <3>3. stat[s].pos <= Cardinality(Statuses) /\ (Known(s) => stat[s].pos <= Cardinality(Rows(v)))
      BY <3>2 DEF Counts
    <3>4. Known(s)' <=> Known(s)
      BY <3>1 DEF Known
    <3> HIDE DEF Rows
    <3> QED
      BY <1>4, <3>1, <3>2, <3>3, <3>4
  <2> QED
    BY <2>1, <2>2
<1> QED
  BY <1>2, <1>6 DEF Counts


LEMMA BoardInitIInv == HandlersInit /\ TaskInit => BoardIInv
<1> SUFFICES ASSUME HandlersInit, TaskInit PROVE BoardIInv
  OBVIOUS
<1>1. PICK D : D = BoardData
  OBVIOUS
<1>2. NoData \in D
  BY <1>1 DEF BoardData
<1>3. PICK x : x = Idle
  OBVIOUS
<1>4. x \in RequestOf(D) /\ x.op = "idle" /\ x.step = ""
  BY <1>2, <1>3, IdleType
<1>5. req \in [Requests -> RequestOf(D)] /\ \A r \in Requests : req[r] = x
  BY <1>3, <1>4 DEF HandlersInit
<1>6. \A r \in Requests : BoardReqOK(req[r])
  <2>1. BoardReqOK(x)
    BY <1>4, BoardAtRest
  <2> QED
    BY <1>5, <2>1
<1>7. /\ flow \in [Workflows -> FlowRow] /\ uses \in [Projects -> Workflows]
      /\ flow[Home].state = "live" /\ \A p \in Projects : uses[p] = Home
      /\ \A v \in Workflows : flow[v].default => v = Home
  BY WorkflowsAssumption DEF TaskInit, FlowInit, FlowRow
<1>8. PICK table : table = [s \in Statuses |-> NoStatus]
  OBVIOUS
<1>9. /\ table \in [Statuses -> StatRow]
      /\ \A s \in Statuses : table[s].state = "none" /\ table[s].pos = 0
  <2>1. PICK row : row = NoStatus
    OBVIOUS
  <2>2. DefaultNames[1] \in Names
    BY WorkflowsAssumption
  <2>3. row \in StatRow /\ row.state = "none" /\ row.pos = 0
    BY <2>1, <2>2, WorkflowsAssumption DEF NoStatus, StatRow
  <2> QED
    BY <1>8, <2>1, <2>3
<1>10. Seeded(table, stat, Home, Statuses)
  BY <1>8, <1>9, WorkflowsAssumption, SeedsStored DEF TaskInit, FlowInit
<1>11. PICK new \in SUBSET Statuses :
        /\ Cardinality(new) = Len(DefaultNames)
        /\ \A s \in new : /\ stat[s].state = "live" /\ stat[s].flow = Home
                          /\ stat[s].pos <= Len(DefaultNames)
        /\ \A s \in Statuses \ new : stat[s] = table[s]
  BY <1>10 DEF Seeded
<1>12. stat \in [Statuses -> StatRow]
  BY <1>10 DEF Seeded
<1>13. new = Rows(Home) /\ \A s \in Statuses : Known(s) <=> s \in new
  BY <1>9, <1>11 DEF Rows, Known
<1>14. Counts
  <2>1. Cardinality(new) <= Cardinality(Statuses) /\ Cardinality(Statuses) \in Nat /\ Cardinality(new) \in Nat
    BY RowsFinite
  <2> HIDE DEF Rows, Known
  <2>2. ASSUME NEW s \in new PROVE /\ stat[s].pos <= Cardinality(Statuses)
                                   /\ stat[s].pos <= Cardinality(Rows(stat[s].flow))
    <3>1. stat[s].pos \in Nat
      BY <1>12 DEF StatRow
    <3> QED
      BY <1>11, <1>13, <2>1, <3>1
  <2>3. ASSUME NEW s \in Statuses \ new PROVE stat[s].pos <= Cardinality(Statuses)
    BY <1>9, <1>11, <2>1
  <2> QED
    BY <1>13, <2>2, <2>3 DEF Counts
<1>15. task \in [Tasks -> TaskRow] /\ Live = {}
  <2>1. PICK p \in Projects : p = CHOOSE q \in Projects : TRUE
    BY TasksAssumption
  <2>2. Statuses # {}
    <3>1. Len(DefaultNames) # 0 /\ Len(DefaultNames) \in Nat
      BY WorkflowsAssumption
    <3>2. CASE Statuses = {}
      BY <3>1, <3>2, WorkflowsAssumption, FS_EmptySet
    <3> QED
      BY <3>2
  <2>3. PICK s \in Statuses : s = CHOOSE q \in Statuses : TRUE
    BY <2>2
  <2>4. PICK row : row = [state |-> "none", prj |-> p, status |-> s, stamped |-> FALSE, who |-> {}]
    OBVIOUS
  <2>5. row \in TaskRow /\ row.state = "none"
    BY <2>4 DEF TaskRow
  <2>6. task = [t \in Tasks |-> row]
    BY <2>1, <2>3, <2>4 DEF TaskInit, NoTask
  <2> QED
    BY <2>5, <2>6 DEF Live
<1>16. Belongs
  <2>1. \A s \in Statuses : stat[s].state # "gone" /\ (Known(s) => stat[s].flow = Home)
    BY <1>9, <1>11, <1>13
  <2> HIDE DEF Known, Live
  <2> QED
    BY <1>7, <1>15, <2>1 DEF Belongs
<1> QED
  BY <1>1, <1>5, <1>6, <1>7, <1>12, <1>14, <1>15, <1>16 DEF BoardIInv, BoardTyped, Tables


-----------------------------------------------------------------------------
\* The steps of the workflows.

\* Tasks stay where they are while no status changes its workflow.
LEMMA TasksStay ==
  ASSUME BoardIInv, UNCHANGED task,
         \A s \in Statuses : stat[s].state # "none" => stat'[s].flow = stat[s].flow
  PROVE  Live' = Live /\ \A v \in Workflows : TasksIn(v)' \subseteq TasksIn(v)
<1>1. \A t \in Live : task[t].status \in Statuses /\ stat[task[t].status].state # "none"
  BY DEF BoardIInv, BoardTyped, Tables, TaskRow, Belongs, Known, Live
<1>2. Live' = Live
  BY DEF Live
<1> QED
  BY <1>1, <1>2 DEF TasksIn

\* Only the defaults are written.
LEMMA DefaultsWritten ==
  ASSUME BoardIInv, NEW w, UNCHANGED <<stat, uses, task>>,
         NEW new \in [Workflows -> BOOLEAN], \A v \in Workflows : new[v] => flow[v].state = "live",
         flow' \in [Workflows -> FlowRow],
         \A v \in Workflows : flow'[v].state = flow[v].state /\ flow'[v].default = new[v],
         w \intersect Namers = {} => \A v \in Workflows : new[v] => flow[v].default
  PROVE  BoardFramed(w) /\ Tables' /\ Belongs' /\ Counts'
<1>1. /\ \A v : Rows(v)' = Rows(v)
      /\ \A s : Known(s)' <=> Known(s)
      /\ Live' = Live /\ \A v \in Workflows : TasksIn(v)' \subseteq TasksIn(v)
  <2>1. Live' = Live /\ \A v \in Workflows : TasksIn(v)' \subseteq TasksIn(v)
    BY TasksStay
  <2> QED
    BY <2>1 DEF Rows, Known
<1>2. w \intersect Namers = {} => Defaults' \subseteq Defaults
  BY DEF Defaults
<1>3. BoardFramed(w)
  BY <1>1, <1>2 DEF BoardFramed
<1>4. Tables' /\ Belongs'
  <2>1. Tables /\ Belongs
    BY DEF BoardIInv, BoardTyped
  <2>2. Tables'
    BY <2>1 DEF Tables
  <2>3. \A s \in Statuses : stat[s].flow \in Workflows
    BY <2>1 DEF Tables, StatRow
  <2> HIDE DEF Known, Live
  <2> QED
    BY Z3T(30), <1>1, <2>1, <2>2, <2>3 DEF Tables, Belongs
<1>5. Counts'
  BY <1>1 DEF Counts, BoardIInv
<1> QED
  BY <1>3, <1>4, <1>5

LEMMA BoardDataFacts ==
  /\ CreateFlow \subseteq BoardData /\ MakeFlow \subseteq BoardData /\ Workflows \subseteq BoardData
  /\ StatRow \subseteq BoardData /\ ReviveData \subseteq BoardData /\ RemovalData \subseteq BoardData
  /\ Statuses \subseteq BoardData /\ NewTask \subseteq BoardData /\ EditData \subseteq BoardData
  /\ Tasks \subseteq BoardData /\ BulkData \subseteq BoardData /\ NoData \in BoardData
BY DEF BoardData

LEMMA AskCreateWorkflowKeeps ==
  ASSUME BoardIInv, NEW r \in Requests, AskCreateWorkflow(r), UNCHANGED task
  PROVE  BoardIInv'
<1>1. PICK w \in Workflows, asDefault \in BOOLEAN :
        /\ Ask(r, "createWorkflow", "write",
               [w |-> w, default |-> asDefault, clear |-> IF asDefault THEN Defaults ELSE {}])
        /\ UNCHANGED flowVars
  BY DEF AskCreateWorkflow
<1>2. PICK clear \in SUBSET Workflows : clear = IF asDefault THEN Defaults ELSE {}
  BY DEF Defaults
<1>3. PICK h : h = [w |-> w, default |-> asDefault, clear |-> clear]
  OBVIOUS
<1>4. PICK op \in Ops, step \in Steps : op = "createWorkflow" /\ step = "write"
  BY DEF Ops, Steps, FlowOps
<1>5. h \in CreateFlow /\ h \in BoardData
  BY <1>3, BoardDataFacts DEF CreateFlow
<1>6. Ask(r, op, step, h) /\ BoardSame
  BY <1>1, <1>2, <1>3, <1>4 DEF flowVars, BoardSame
<1>7. ASSUME NEW y \in RequestOf(BoardData), y.op = op, y.step = step, y.with = h, y.over = {}
      PROVE  BoardReqOK(y)
  BY <1>4, <1>5, <1>7 DEF BoardReqOK, NamesOK, EmptyOK, InsertOK, ReviveOK, RemovalOK, EditOK, BulkOK,
     BulkOps, TargetsOK, AssignOK
<1> QED
  BY <1>5, <1>6, <1>7, BoardAskKeeps

LEMMA CreateWorkflowKeeps ==
  ASSUME BoardIInv, NEW r \in Requests, CreateWorkflow(r), UNCHANGED task
  PROVE  BoardIInv'
<1>1. PICK x : x = req[r]
  OBVIOUS
<1>2. PICK h : h = x.with
  OBVIOUS
<1>3. BoardReqOK(x) /\ x.op = "createWorkflow" /\ h \in CreateFlow
  BY <1>1, <1>2 DEF BoardIInv, CreateWorkflow, At, BoardReqOK, NamesOK
<1>4. PICK v \in Workflows, clear \in SUBSET Workflows : v = h.w /\ clear = h.clear
  BY <1>3 DEF CreateFlow
<1>5. /\ flow[v].state = "none" /\ Cardinality(Unused) >= Len(DefaultNames)
      /\ flow' = [u \in Workflows |->
                    IF u = v THEN [state |-> "live", default |-> h.default]
                    ELSE IF u \in clear THEN [flow[u] EXCEPT !.default = FALSE] ELSE flow[u]]
      /\ stat' = WithSeeds(stat, v, Unused)
      /\ Commit(r) /\ UNCHANGED uses
  BY <1>1, <1>2, <1>4 DEF CreateWorkflow
<1>6. flow \in [Workflows -> FlowRow] /\ stat \in [Statuses -> StatRow] /\ Tables /\ Belongs /\ Counts
  BY DEF BoardIInv, BoardTyped, Tables
<1>7. Seeded(stat, stat', v, Unused)
  <2>1. Unused \in SUBSET Statuses
    BY DEF Unused
  <2> QED
    BY <1>5, <1>6, <2>1, SeedsStored
<1>8. PICK new \in SUBSET Unused :
        /\ \A s \in new : stat'[s].state = "live" /\ stat'[s].flow = v
        /\ \A s \in Statuses \ new : stat'[s] = stat[s]
  BY <1>7 DEF Seeded
<1>9. \A s \in Statuses : stat[s].state # "none" => stat'[s] = stat[s]
  BY <1>8 DEF Unused
<1>10. /\ flow' \in [Workflows -> FlowRow] /\ stat' \in [Statuses -> StatRow]
       /\ flow'[v].state = "live" /\ flow'[v].default = h.default
       /\ \A u \in Workflows \ {v} : /\ flow'[u].state = flow[u].state
                                     /\ flow'[u].default => flow[u].default
  <2>1. stat' \in [Statuses -> StatRow]
    BY <1>7 DEF Seeded
  <2> QED
    BY ZenonT(30), <1>3, <1>5, <1>6, <2>1 DEF FlowRow, CreateFlow
<1>11. Tables'
  BY <1>5, <1>6, <1>10 DEF Tables
<1>12. Rows(v) = {}
  BY <1>5, <1>6 DEF Rows, Belongs
<1>13. Counts' /\ \A u \in Workflows : Rows(u) \subseteq Rows(u)'
  <2>1. Unused \in SUBSET Statuses /\ \A s \in Unused : stat[s].state = "none"
    BY DEF Unused
  <2> HIDE DEF Unused, Rows
  <2> QED
    BY <1>6, <1>7, <1>11, <1>12, <2>1, SeedsCounted
<1>14. Live' = Live /\ \A u \in Workflows : TasksIn(u)' \subseteq TasksIn(u)
  BY <1>9, TasksStay
<1>15. \A s \in Statuses : stat[s].state # "none" => (Known(s)' <=> Known(s))
  BY <1>9 DEF Known
<1>16. BoardFramed({"createWorkflow"})
  <2>1. Inserters \intersect {"createWorkflow"} # {} /\ Namers \intersect {"createWorkflow"} # {}
    BY DEF Inserters, Namers
  <2> HIDE DEF Rows, Known, Live, TasksIn, Inserters, Namers, Recoders, Movers, Placers, Assigners, Fillers
  <2> QED
    BY <1>5, <1>9, <1>10, <1>13, <1>14, <1>15, <2>1 DEF BoardFramed
<1>17. Belongs'
  <2>1. \A u \in Workflows : flow'[u].default => flow'[u].state = "live"
    BY <1>6, <1>10 DEF Belongs
  <2>2. ASSUME NEW s \in Statuses
        PROVE  /\ Known(s)' => flow'[stat'[s].flow].state = "live"
               /\ stat'[s].state = "gone" => flow'[stat'[s].flow].state = "gone"
    <3>1. stat[s].flow \in Workflows
      BY <1>6 DEF StatRow
    <3> QED
      BY <1>5, <1>6, <1>8, <1>10, <3>1 DEF Belongs, Known
  <2>3. \A p \in Projects : flow'[uses'[p]].state = "live"
    BY <1>5, <1>6, <1>10 DEF Belongs, Tables
  <2>4. \A t \in Live' : Known(task[t].status)'
    BY <1>6, <1>14, <1>9, <1>15 DEF Belongs, Tables, TaskRow, Live, Known
  <2> HIDE DEF Known, Live
  <2> QED
    BY <2>1, <2>2, <2>3, <2>4 DEF Belongs
<1> QED
  BY <1>1, <1>3, <1>5, <1>11, <1>13, <1>16, <1>17, BoardCommitKeeps


LEMMA AskMakeDefaultKeeps ==
  ASSUME BoardIInv, NEW r \in Requests, AskMakeDefault(r), UNCHANGED task
  PROVE  BoardIInv'
<1>1. PICK w \in Workflows : /\ Ask(r, "makeDefault", "write", [w |-> w, clear |-> Defaults])
                             /\ UNCHANGED flowVars
  BY DEF AskMakeDefault
<1>2. PICK clear \in SUBSET Workflows : clear = Defaults
  BY DEF Defaults
<1>3. PICK h : h = [w |-> w, clear |-> clear]
  OBVIOUS
<1>4. PICK op \in Ops, step \in Steps : op = "makeDefault" /\ step = "write"
  BY DEF Ops, Steps, FlowOps
<1>5. h \in MakeFlow /\ h \in BoardData /\ h.clear = clear
  BY <1>3, BoardDataFacts DEF MakeFlow
<1>6. Ask(r, op, step, h) /\ BoardSame
  BY <1>1, <1>2, <1>3, <1>4 DEF flowVars, BoardSame
<1>7. ASSUME NEW y \in RequestOf(BoardData), y.op = op, y.step = step, y.with = h, y.over = {}
      PROVE  BoardReqOK(y)
  <2> HIDE DEF Defaults
  <2> QED
    BY <1>2, <1>4, <1>5, <1>7 DEF BoardReqOK, NamesOK, EmptyOK, InsertOK, ReviveOK, RemovalOK, EditOK,
       BulkOK, BulkOps, TargetsOK, AssignOK
<1> QED
  BY <1>5, <1>6, <1>7, BoardAskKeeps

LEMMA MakeDefaultKeeps ==
  ASSUME BoardIInv, NEW r \in Requests, MakeDefault(r), UNCHANGED task
  PROVE  BoardIInv'
<1>1. PICK x : x = req[r]
  OBVIOUS
<1>2. PICK h : h = x.with
  OBVIOUS
<1>3. BoardReqOK(x) /\ x.op = "makeDefault" /\ h \in MakeFlow
  BY <1>1, <1>2 DEF BoardIInv, MakeDefault, At, BoardReqOK, NamesOK
<1>4. PICK v \in Workflows, clear \in SUBSET Workflows : v = h.w /\ clear = h.clear
  BY <1>3 DEF MakeFlow
<1>5. CASE Answer(r) /\ UNCHANGED flow
  <2>1. BoardSame
    BY <1>5 DEF MakeDefault, BoardSame
  <2> QED
    BY <1>5, <2>1, BoardAnswerKeeps
<1>6. CASE /\ flow[v].state = "live"
           /\ flow' = [u \in Workflows |->
                         IF u = v THEN [flow[u] EXCEPT !.default = TRUE]
                         ELSE IF u \in clear THEN [flow[u] EXCEPT !.default = FALSE]
                         ELSE flow[u]]
           /\ Commit(r)
  <2>1. flow \in [Workflows -> FlowRow] /\ \A u \in Workflows : flow[u].default => flow[u].state = "live"
    BY DEF BoardIInv, BoardTyped, Tables, Belongs
  <2>2. PICK new : new = [u \in Workflows |-> u = v \/ (u \notin clear /\ flow[u].default)]
    OBVIOUS
  <2>3. new \in [Workflows -> BOOLEAN] /\ \A u \in Workflows : new[u] => flow[u].state = "live"
    BY <1>6, <2>1, <2>2 DEF FlowRow
  <2>4. flow' \in [Workflows -> FlowRow]
    BY <1>6, <2>1 DEF FlowRow
  <2>5. \A u \in Workflows : flow'[u].state = flow[u].state /\ flow'[u].default = new[u]
    BY <1>6, <2>1, <2>2 DEF FlowRow
  <2>6. PICK w : w = {x.op}
    OBVIOUS
  <2>7. w \intersect Namers # {}
    BY <1>3, <2>6 DEF Namers
  <2>8. UNCHANGED <<stat, uses, task>>
    BY DEF MakeDefault
  <2>9. BoardFramed(w) /\ Tables' /\ Belongs' /\ Counts'
    BY <2>3, <2>4, <2>5, <2>7, <2>8, DefaultsWritten
  <2> QED
    BY <1>1, <1>6, <2>6, <2>9, BoardCommitKeeps
<1> QED
  BY <1>1, <1>2, <1>4, <1>5, <1>6 DEF MakeDefault

LEMMA ClearDefaultKeeps ==
  ASSUME BoardIInv, NEW r \in Requests, ClearDefault(r), UNCHANGED task
  PROVE  BoardIInv'
<1>1. PICK v \in Workflows : /\ flow[v].state = "live" /\ Once(r, "clearDefault")
                             /\ flow' = [flow EXCEPT ![v].default = FALSE]
                             /\ UNCHANGED <<stat, uses>>
  BY DEF ClearDefault
<1>2. flow \in [Workflows -> FlowRow] /\ \A u \in Workflows : flow[u].default => flow[u].state = "live"
  BY DEF BoardIInv, BoardTyped, Tables, Belongs
<1>3. PICK new : new = [u \in Workflows |-> u # v /\ flow[u].default]
  OBVIOUS
<1>4. new \in [Workflows -> BOOLEAN] /\ \A u \in Workflows : new[u] => flow[u].default /\ flow[u].state = "live"
  BY <1>2, <1>3 DEF FlowRow
<1>5. flow' \in [Workflows -> FlowRow]
  BY <1>1, <1>2 DEF FlowRow
<1>6. \A u \in Workflows : flow'[u].state = flow[u].state /\ flow'[u].default = new[u]
  BY <1>1, <1>2, <1>3 DEF FlowRow
<1>7. PICK op \in Ops, w \in SUBSET Ops : op = "clearDefault" /\ w = {op}
  BY DEF Ops, FlowOps
<1>8. BoardFramed(w) /\ Tables' /\ Belongs' /\ Counts'
  BY <1>1, <1>4, <1>5, <1>6, DefaultsWritten
<1> QED
  BY <1>1, <1>7, <1>8, BoardOnceKeeps

LEMMA SwitchWorkflowKeeps ==
  ASSUME BoardIInv, NEW r \in Requests, SwitchWorkflow(r), UNCHANGED task
  PROVE  BoardIInv'
<1>1. PICK p \in Projects, v \in Workflows :
        /\ flow[v].state = "live" /\ Once(r, "switchWorkflow")
        /\ uses' = [uses EXCEPT ![p] = v]
        /\ UNCHANGED <<flow, stat>>
  BY DEF SwitchWorkflow
<1>2. Tables /\ Belongs /\ Counts
  BY DEF BoardIInv, BoardTyped
<1>3. /\ \A u : Rows(u)' = Rows(u)
      /\ \A s : Known(s)' <=> Known(s)
      /\ Live' = Live /\ Defaults' = Defaults
      /\ \A u \in Workflows : TasksIn(u)' \subseteq TasksIn(u)
  <2>1. Live' = Live /\ \A u \in Workflows : TasksIn(u)' \subseteq TasksIn(u)
    BY <1>1, TasksStay
  <2> QED
    BY <1>1, <2>1 DEF Rows, Known, Defaults
<1>4. PICK op \in Ops : op = "switchWorkflow"
  BY DEF Ops, FlowOps
<1>5. BoardFramed({op})
  BY <1>1, <1>3, <1>4 DEF BoardFramed, Placers
<1>6. Tables'
  BY <1>1, <1>2 DEF Tables
<1>7. Belongs'
  <2>1. \A q \in Projects : flow'[uses'[q]].state = "live"
    BY <1>1, <1>2 DEF Tables, Belongs
  <2> HIDE DEF Known, Live
  <2> QED
    BY <1>1, <1>2, <1>3, <2>1 DEF Belongs
<1>8. Counts'
  BY <1>1, <1>2, <1>3 DEF Counts
<1> QED
  BY <1>1, <1>4, <1>5, <1>6, <1>7, <1>8, BoardOnceKeeps


LEMMA AskRemoveWorkflowKeeps ==
  ASSUME BoardIInv, NEW r \in Requests, NEW v \in Workflows, Counted(v) = {},
         AskRemoveWorkflow(r, v), UNCHANGED task
  PROVE  BoardIInv'
<1>1. PICK op \in Ops, step \in Steps : op = "removeWorkflow" /\ step = "write"
  BY DEF Ops, Steps, FlowOps
<1>2. v \in BoardData
  BY BoardDataFacts
<1>3. Ask(r, op, step, v) /\ BoardSame
  BY <1>1 DEF AskRemoveWorkflow, flowVars, BoardSame
<1>4. ASSUME NEW y \in RequestOf(BoardData), y.op = op, y.step = step, y.with = v, y.over = {}
      PROVE  BoardReqOK(y)
  <2>1. TasksIn(v) = {}
    BY DEF Counted
  <2> HIDE DEF TasksIn
  <2> QED
    BY <1>1, <1>4, <2>1 DEF BoardReqOK, NamesOK, EmptyOK, InsertOK, ReviveOK, RemovalOK, EditOK,
       BulkOK, BulkOps, TargetsOK, AssignOK
<1> QED
  BY <1>2, <1>3, <1>4, BoardAskKeeps

\* The tasks of ts are deleted.
LEMMA TasksGone ==
  ASSUME Tables, NEW ts \in SUBSET Tasks, task' = Without(ts)
  PROVE  /\ task' \in [Tasks -> TaskRow]
         /\ \A t \in Tasks \ ts : task'[t] = task[t]
         /\ \A t \in ts : task'[t].state = "gone"
<1>1. PICK row : row = [NoTask EXCEPT !.state = "gone"]
  OBVIOUS
<1>2. row \in TaskRow /\ row.state = "gone"
  <2>1. PICK p \in Projects : p = CHOOSE q \in Projects : TRUE
    BY TasksAssumption
  <2>2. Statuses # {}
    <3>1. Len(DefaultNames) # 0 /\ Len(DefaultNames) \in Nat
      BY WorkflowsAssumption
    <3>2. CASE Statuses = {}
      BY <3>1, <3>2, WorkflowsAssumption, FS_EmptySet
    <3> QED
      BY <3>2
  <2>3. PICK s \in Statuses : s = CHOOSE q \in Statuses : TRUE
    BY <2>2
  <2>4. NoTask = [state |-> "none", prj |-> p, status |-> s, stamped |-> FALSE, who |-> {}]
    BY <2>1, <2>3 DEF NoTask
  <2> QED
    BY <1>1, <2>4 DEF TaskRow
<1>3. task' = [t \in Tasks |-> IF t \in ts THEN row ELSE task[t]]
  BY <1>1 DEF Without
<1> QED
  BY <1>2, <1>3 DEF Tables

LEMMA DeleteWorkflowKeeps ==
  ASSUME BoardIInv, NEW r \in Requests, DeleteWorkflow(r)
  PROVE  BoardIInv'
<1>1. PICK x : x = req[r]
  OBVIOUS
<1>2. PICK v : v = x.with
  OBVIOUS
<1>3. x.op = "removeWorkflow" /\ v \in Workflows
  BY <1>1, <1>2 DEF BoardIInv, DeleteWorkflow, RemoveWorkflow, At, BoardReqOK, EmptyOK
<1>4. CASE Answer(r) /\ UNCHANGED <<flow, stat>>
  <2>1. BoardSame
    BY <1>4 DEF DeleteWorkflow, RemoveWorkflow, BoardSame
  <2> QED
    BY <1>4, <2>1, BoardAnswerKeeps
<1>5. CASE /\ flow[v].state = "live" /\ \A p \in Projects : uses[p] # v
           /\ flow' = [flow EXCEPT ![v] = [state |-> "gone", default |-> FALSE]]
           /\ stat' = [s \in Statuses |-> IF s \in Rows(v) THEN [stat[s] EXCEPT !.state = "gone"]
                                                          ELSE stat[s]]
           /\ Commit(r)
  <2>1. Tables /\ Belongs /\ Counts /\ UNCHANGED uses
    BY DEF BoardIInv, BoardTyped, DeleteWorkflow, RemoveWorkflow
  <2>2. flow' # flow /\ flow' \in [Workflows -> FlowRow] /\ flow'[v].state = "gone" /\ ~flow'[v].default
        /\ \A u \in Workflows \ {v} : flow'[u] = flow[u]
    BY <1>3, <1>5, <2>1 DEF Tables, FlowRow
  <2>3. task' = Without(TasksIn(v))
    BY <1>1, <1>2, <2>2 DEF DeleteWorkflow
  <2>4. /\ task' \in [Tasks -> TaskRow]
        /\ \A t \in Tasks \ TasksIn(v) : task'[t] = task[t]
        /\ \A t \in TasksIn(v) : task'[t].state = "gone"
    <3>1. TasksIn(v) \in SUBSET Tasks
      BY DEF TasksIn, Live
    <3> QED
      BY <2>1, <2>3, <3>1, TasksGone
  <2>5. /\ stat' \in [Statuses -> StatRow]
        /\ \A s \in Statuses \ Rows(v) : stat'[s] = stat[s]
        /\ \A s \in Rows(v) : stat'[s].state = "gone" /\ stat'[s].pos = stat[s].pos
        /\ \A s \in Statuses : stat'[s].flow = stat[s].flow /\ stat'[s].done = stat[s].done
    <3>1. Rows(v) \subseteq Statuses
      BY DEF Rows
    <3> HIDE DEF Rows
    <3> QED
      BY <1>5, <2>1, <3>1 DEF Tables, StatRow
  <2>6. \A s \in Statuses : Known(s)' <=> Known(s) /\ stat[s].flow # v
    BY <2>5 DEF Known, Rows
  <2>7. \A u \in Workflows \ {v} : Rows(u)' = Rows(u)
    BY <2>5, <2>6 DEF Rows
  <2>8. Live' = Live \ TasksIn(v)
    BY <2>4 DEF Live, TasksIn
  <2>9. \A u \in Workflows : TasksIn(u)' \subseteq TasksIn(u)
    <3>1. \A t \in Live' : t \in Live /\ task'[t] = task[t] /\ task[t].status \in Statuses
      BY <2>1, <2>4, <2>8 DEF Tables, TaskRow, Live
    <3> HIDE DEF Live
    <3> QED
      BY <2>5, <3>1 DEF TasksIn
  <2>10. Tables'
    BY <2>1, <2>2, <2>4, <2>5 DEF Tables
  <2>11. Counts'
    <3>1. ASSUME NEW s \in Statuses
          PROVE  /\ stat'[s].pos = stat[s].pos /\ stat[s].flow \in Workflows
                 /\ Known(s)' => Known(s) /\ stat[s].flow # v
      BY <2>1, <2>5, <2>6 DEF Tables, StatRow
    <3> HIDE DEF Known, Rows
    <3> QED
      BY <2>1, <2>5, <2>7, <3>1 DEF Counts
  <2>12. BoardFramed({"removeWorkflow"})
    <3>1. Defaults' \subseteq Defaults
      BY <2>2 DEF Defaults
    <3>2. \A t \in Tasks : task[t].state # "none" => task'[t].state # "none"
      BY <2>4
    <3>3. \A t \in Live' : t \in Live /\ task'[t].prj = task[t].prj
      BY <2>4, <2>8 DEF Live
    <3>4. \A s \in Statuses : stat[s].state # "none" => stat'[s].state # "none"
      BY <2>5
    <3>5. \A s \in Statuses : Known(s)' => stat'[s] = stat[s]
      BY <2>5, <2>6 DEF Rows
    <3>6. Assigners \intersect {"removeWorkflow"} # {}
      BY DEF Assigners
    <3> HIDE DEF Known, Rows, Live, TasksIn, Defaults, Assigners
    <3> QED
      BY <2>1, <2>2, <2>5, <2>6, <2>7, <2>9, <3>1, <3>2, <3>3, <3>4, <3>5, <3>6 DEF BoardFramed
  <2>13. Belongs'
    <3>1. \A u \in Workflows : flow'[u].default => flow'[u].state = "live"
      BY <2>1, <2>2 DEF Belongs
    <3>2. ASSUME NEW s \in Statuses
          PROVE  /\ Known(s)' => flow'[stat'[s].flow].state = "live"
                 /\ stat'[s].state = "gone" => flow'[stat'[s].flow].state = "gone"
      <4>1. stat[s].flow \in Workflows
        BY <2>1 DEF Tables, StatRow
      <4>2. Known(s)' => flow'[stat'[s].flow].state = "live"
        BY <2>1, <2>2, <2>5, <2>6, <4>1 DEF Belongs
      <4>3. s \in Rows(v) => stat[s].flow = v
        BY DEF Rows
      <4>4. stat'[s].state = "gone" => flow'[stat'[s].flow].state = "gone"
        BY <1>5, <2>1, <2>2, <2>5, <4>1, <4>3 DEF Belongs
      <4> QED
        BY <4>2, <4>4
    <3>3. \A p \in Projects : flow'[uses'[p]].state = "live"
      BY <1>5, <2>1, <2>2 DEF Belongs, Tables
    <3>4. ASSUME NEW t \in Live'
          PROVE  Known(task[t].status)'
      <4>1. t \in Tasks /\ t \in Live /\ task'[t] = task[t] /\ task[t].status \in Statuses
            /\ stat[task[t].status].flow # v /\ Known(task[t].status)
        BY <2>1, <2>4, <2>8 DEF Tables, TaskRow, Live, TasksIn, Belongs
      <4> QED
        BY <2>6, <4>1
    <3> HIDE DEF Known, Live
    <3> QED
      BY <3>1, <3>2, <3>3, <3>4 DEF Belongs
  <2> QED
    BY <1>1, <1>3, <1>5, <2>10, <2>11, <2>12, <2>13, BoardCommitKeeps
<1> QED
  BY <1>1, <1>2, <1>4, <1>5 DEF DeleteWorkflow, RemoveWorkflow


-----------------------------------------------------------------------------
\* The steps of the statuses.

\* A status keeps its workflow; a new one is in a live workflow; and a position
\* only falls, or counts no further than the rows.
StatusWritten(w, s) ==
  /\ stat[s].state # "none" =>
       /\ stat'[s].state # "none" /\ stat'[s].flow = stat[s].flow
       /\ Known(s)' <=> Known(s)
       /\ w \intersect Recoders = {} => stat'[s].done = stat[s].done
       /\ w \intersect Movers = {} /\ stat[s].state = "live" =>
            stat'[s].state = "live" /\ stat'[s].pos = stat[s].pos
  /\ stat[s].state = "none" =>
       \/ stat'[s].state = "none"
       \/ /\ w \intersect Inserters # {} /\ stat'[s].state = "live"
          /\ flow[stat'[s].flow].state = "live"
  /\ \/ stat'[s].pos <= stat[s].pos /\ (Known(s)' => Known(s))
     \/ \E v \in Workflows : stat'[s].flow = v /\ stat'[s].pos <= Cardinality(Rows(v)')

LEMMA StatusesWritten ==
  ASSUME BoardIInv, NEW w, UNCHANGED <<flow, uses, task>>, stat' \in [Statuses -> StatRow],
         \A s \in Statuses : StatusWritten(w, s)
  PROVE  BoardFramed(w) /\ Tables' /\ Belongs' /\ Counts'
<1>1. Tables /\ Belongs /\ Counts
  BY DEF BoardIInv, BoardTyped
<1>2. Live' = Live /\ \A v \in Workflows : TasksIn(v)' \subseteq TasksIn(v)
  BY TasksStay DEF StatusWritten
<1>3. \A v \in Workflows : Rows(v) \subseteq Rows(v)' /\ (w \intersect Inserters = {} => Rows(v)' = Rows(v))
  <2>1. \A s \in Statuses : Known(s) => Known(s)' /\ stat'[s].flow = stat[s].flow
    BY DEF StatusWritten, Known
  <2>2. w \intersect Inserters = {} => \A s \in Statuses : Known(s)' => Known(s)
    BY DEF StatusWritten, Known
  <2> HIDE DEF Known
  <2> QED
    BY <2>1, <2>2 DEF Rows
<1>4. Defaults' = Defaults
  BY DEF Defaults
<1>5. BoardFramed(w)
  <2> HIDE DEF Known, Rows, Live, TasksIn, Defaults, Movers, Recoders, Inserters
  <2> QED
    BY <1>2, <1>3, <1>4 DEF BoardFramed, StatusWritten
<1>6. Tables'
  BY <1>1 DEF Tables
<1>7. Belongs'
  <2>1. ASSUME NEW s \in Statuses
        PROVE  /\ (Known(s) => flow[stat[s].flow].state = "live")'
               /\ (stat[s].state = "gone" => flow[stat[s].flow].state = "gone")'
    <3>1. stat[s].state \in {"none", "live", "deleted", "gone"}
      BY <1>1 DEF Tables, StatRow
    <3> QED
      BY <1>1, <3>1 DEF StatusWritten, Belongs, Known
  <2>2. \A t \in Live : Known(task[t].status)'
    <3>1. \A t \in Live : task[t].status \in Statuses /\ Known(task[t].status)
      BY <1>1 DEF Belongs, Tables, TaskRow, Live
    <3> QED
      BY <3>1 DEF StatusWritten, Known
  <2> HIDE DEF Known, Live
  <2> QED
    BY <1>1, <1>2, <2>1, <2>2 DEF Belongs
<1>8. Counts'
  <2>1. ASSUME NEW v \in Workflows
        PROVE  /\ Cardinality(Rows(v)) \in Nat /\ Cardinality(Rows(v)') \in Nat
               /\ Cardinality(Rows(v)) <= Cardinality(Rows(v)')
               /\ Cardinality(Rows(v)') <= Cardinality(Statuses)
    <3>1. Rows(v) \in SUBSET Statuses /\ Rows(v)' \in SUBSET Statuses
      BY DEF Rows
    <3> HIDE DEF Rows
    <3> QED
      BY <1>3, <3>1, RowsGrow, RowsFinite
  <2>2. Cardinality(Statuses) \in Nat
    BY RowsFinite
  <2>3. ASSUME NEW s \in Statuses
        PROVE  (/\ stat[s].pos <= Cardinality(Statuses)
                /\ Known(s) => stat[s].pos <= Cardinality(Rows(stat[s].flow)))'
    <3>1. stat'[s].pos \in Nat /\ stat[s].pos \in Nat /\ stat[s].flow \in Workflows
      BY <1>1 DEF Tables, StatRow
    <3>2. CASE stat'[s].pos <= stat[s].pos /\ (Known(s)' => Known(s))
      <4>1. PICK v \in Workflows : v = stat[s].flow
        BY <3>1
      <4>2. stat[s].pos <= Cardinality(Statuses) /\ (Known(s) => stat[s].pos <= Cardinality(Rows(v)))
        BY <1>1, <4>1 DEF Counts
      <4>3. Known(s) => stat'[s].flow = v
        BY <4>1 DEF StatusWritten, Known
      <4>4. Known(s)' => stat'[s].pos <= Cardinality(Rows(v)') /\ stat'[s].flow = v
        <5> HIDE DEF Known, Rows
        <5> QED
          BY <2>1, <3>1, <3>2, <4>2, <4>3
      <4>5. stat'[s].pos <= Cardinality(Statuses)
        BY <2>2, <3>1, <3>2, <4>2
      <4>6. (Known(s) => stat[s].pos <= Cardinality(Rows(stat[s].flow)))'
        <5> HIDE DEF Known, Rows
        <5> QED
          BY <4>4
      <4> QED
        BY <4>5, <4>6
    <3>3. CASE \E v \in Workflows : stat'[s].flow = v /\ stat'[s].pos <= Cardinality(Rows(v)')
      <4>1. PICK v \in Workflows : stat'[s].flow = v /\ stat'[s].pos <= Cardinality(Rows(v)')
        BY <3>3
      <4> HIDE DEF Known, Rows
      <4> QED
        BY <2>1, <2>2, <3>1, <4>1
    <3> QED
      BY <3>2, <3>3 DEF StatusWritten
  <2> QED
    BY <2>3 DEF Counts
<1> QED
  BY <1>5, <1>6, <1>7, <1>8

LEMMA AskCreateStatusKeeps ==
  ASSUME BoardIInv, NEW r \in Requests, AskCreateStatus(r), UNCHANGED task
  PROVE  BoardIInv'
<1>1. PICK v \in Workflows, n \in Names :
        /\ flow[v].state = "live"
        /\ LET deleted == {s \in Named(v, n) : stat[s].state = "deleted"} IN
             Ask(r, "createStatus", IF deleted = {} THEN "insert" ELSE "revive",
                 IF deleted = {} THEN NewStatus(v, n, n \in DoneNames, NextPosition(v))
                 ELSE LET s == CHOOSE s \in deleted : TRUE
                      IN [id |-> s, row |-> [stat[s] EXCEPT !.state = "live"]])
        /\ UNCHANGED flowVars
  BY DEF AskCreateStatus
<1>2. PICK deleted : deleted = {s \in Named(v, n) : stat[s].state = "deleted"}
  OBVIOUS
<1>3. Tables /\ Belongs /\ Counts
  BY DEF BoardIInv, BoardTyped
<1>4. PICK op \in Ops : op = "createStatus"
  BY DEF Ops, StatusOps
<1>5. BoardSame
  BY <1>1 DEF flowVars, BoardSame
<1>6. Rows(v) \in SUBSET Statuses /\ Cardinality(Rows(v)) \in Nat
  BY RowsFinite DEF Rows
<1>7. CASE deleted = {}
  <2>1. PICK done \in BOOLEAN : done <=> n \in DoneNames
    OBVIOUS
  <2>0. PICK pos \in Nat : pos = Cardinality(Rows(v)) + 1
    BY <1>6
  <2>2. PICK row : row = [state |-> "live", flow |-> v, name |-> n, done |-> done, pos |-> pos]
    OBVIOUS
  <2>3. row = NewStatus(v, n, n \in DoneNames, NextPosition(v))
    BY <2>0, <2>1, <2>2 DEF NewStatus, NextPosition
  <2>4. /\ row \in StatRow /\ row \in BoardData /\ row.state = "live" /\ row.flow = v
        /\ row.pos = Cardinality(Rows(v)) + 1
    BY <2>0, <2>2, BoardDataFacts DEF StatRow
  <2>5. PICK step \in Steps : step = "insert"
    BY DEF Steps
  <2>6. Ask(r, op, step, row)
    BY <1>1, <1>2, <1>4, <1>7, <2>3, <2>5
  <2>7. ASSUME NEW y \in RequestOf(BoardData), y.op = op, y.step = step, y.with = row, y.over = {}
        PROVE  BoardReqOK(y)
    <3>1. InsertOK(y)
      <4> HIDE DEF Rows
      <4> QED
        BY <1>1, <1>4, <1>6, <2>4, <2>5, <2>7 DEF InsertOK
    <3> QED
      BY <1>4, <2>5, <2>7, <3>1 DEF BoardReqOK, NamesOK, EmptyOK, ReviveOK, RemovalOK, EditOK,
         BulkOK, BulkOps, TargetsOK, AssignOK
  <2> QED
    BY <1>5, <2>4, <2>6, <2>7, BoardAskKeeps
<1>8. CASE deleted # {}
  <2>1. PICK s \in deleted : s = CHOOSE q \in deleted : TRUE
    BY <1>8
  <2>2. s \in Statuses /\ s \in Rows(v) /\ stat[s].flow = v /\ stat[s].state = "deleted"
    BY <1>2, <2>1 DEF Named, Rows
  <2>3. PICK row : row = [stat[s] EXCEPT !.state = "live"]
    OBVIOUS
  <2>4. PICK h : h = [id |-> s, row |-> row]
    OBVIOUS
  <2>5. row \in StatRow /\ row.state = "live" /\ row.flow = v /\ row.pos = stat[s].pos
    BY <1>3, <2>2, <2>3 DEF Tables, StatRow
  <2>6. h \in ReviveData /\ h \in BoardData /\ h.id = s /\ h.row = row
    BY <2>2, <2>4, <2>5, BoardDataFacts DEF ReviveData
  <2>7. PICK step \in Steps : step = "revive"
    BY DEF Steps
  <2>8. Ask(r, op, step, h)
    BY <1>1, <1>2, <1>4, <1>8, <2>1, <2>3, <2>4, <2>7
  <2>9. ASSUME NEW y \in RequestOf(BoardData), y.op = op, y.step = step, y.with = h, y.over = {}
        PROVE  BoardReqOK(y)
    <3>1. ReviveOK(y)
      <4>1. stat[s].pos <= Cardinality(Rows(v))
        BY <1>3, <2>2 DEF Counts, Known
      <4> HIDE DEF Rows
      <4> QED
        BY <1>1, <2>2, <2>5, <2>6, <2>9, <4>1 DEF ReviveOK
    <3> QED
      BY <1>4, <2>7, <2>9, <3>1 DEF BoardReqOK, NamesOK, EmptyOK, InsertOK, RemovalOK, EditOK,
         BulkOK, BulkOps, TargetsOK, AssignOK
  <2> QED
    BY <1>5, <2>6, <2>8, <2>9, BoardAskKeeps
<1> QED
  BY <1>7, <1>8


LEMMA AskStatusFromProjectKeeps ==
  ASSUME BoardIInv, NEW r \in Requests, AskStatusFromProject(r), UNCHANGED task
  PROVE  BoardIInv'
<1>1. PICK p \in Projects, n \in Names :
        /\ Ask(r, "statusFromProject", "insert", NewStatus(uses[p], n, FALSE, Cardinality(Rows(uses[p]))))
        /\ UNCHANGED flowVars
  BY DEF AskStatusFromProject
<1>2. PICK v \in Workflows : v = uses[p] /\ flow[v].state = "live"
  BY DEF BoardIInv, BoardTyped, Tables, Belongs
<1>3. PICK pos \in Nat : pos = Cardinality(Rows(v))
  BY RowsFinite DEF Rows
<1>4. PICK row : row = [state |-> "live", flow |-> v, name |-> n, done |-> FALSE, pos |-> pos]
  OBVIOUS
<1>5. row \in StatRow /\ row \in BoardData /\ row.state = "live" /\ row.flow = v /\ row.pos = pos
  BY <1>4, BoardDataFacts DEF StatRow
<1>6. PICK op \in Ops, step \in Steps : op = "statusFromProject" /\ step = "insert"
  BY DEF Ops, Steps, StatusOps
<1>7. Ask(r, op, step, row) /\ BoardSame
  BY <1>1, <1>2, <1>3, <1>4, <1>6 DEF NewStatus, flowVars, BoardSame
<1>8. ASSUME NEW y \in RequestOf(BoardData), y.op = op, y.step = step, y.with = row, y.over = {}
      PROVE  BoardReqOK(y)
  <2>1. InsertOK(y)
    <3> HIDE DEF Rows
    <3> QED
      BY <1>2, <1>3, <1>5, <1>6, <1>8 DEF InsertOK
  <2> QED
    BY <1>6, <1>8, <2>1 DEF BoardReqOK, NamesOK, EmptyOK, ReviveOK, RemovalOK, EditOK,
       BulkOK, BulkOps, TargetsOK, AssignOK
<1> QED
  BY <1>5, <1>7, <1>8, BoardAskKeeps

LEMMA InsertStatusKeeps ==
  ASSUME BoardIInv, NEW r \in Requests, InsertStatus(r), UNCHANGED task
  PROVE  BoardIInv'
<1>1. PICK x : x = req[r]
  OBVIOUS
<1>2. PICK row : row = x.with
  OBVIOUS
<1>3. /\ x.op \in {"createStatus", "statusFromProject"} /\ row \in StatRow /\ row.state = "live"
      /\ flow[row.flow].state = "live" => row.pos <= Cardinality(Rows(row.flow)) + 1
  BY <1>1, <1>2 DEF BoardIInv, InsertStatus, BoardReqOK, InsertOK
<1>4. UNCHANGED <<flow, uses, task>> /\ stat \in [Statuses -> StatRow]
  BY DEF InsertStatus, BoardIInv, BoardTyped, Tables
<1>5. PICK s \in Statuses : s = CHOOSE q \in Unused : TRUE
  BY DEF InsertStatus, Unused
<1>6. stat[s].state = "none"
  BY <1>5 DEF InsertStatus, Unused
<1>7. CASE Answer(r) /\ UNCHANGED stat
  BY <1>4, <1>7, BoardAnswerKeeps DEF BoardSame
<1>8. CASE Fits(s, row) /\ stat' = [stat EXCEPT ![s] = row] /\ Commit(r)
  <2>1. PICK v \in Workflows : v = row.flow /\ flow[v].state = "live"
    BY <1>3, <1>8 DEF Fits, StatRow
  <2>2. stat' \in [Statuses -> StatRow] /\ stat'[s] = row /\ \A q \in Statuses \ {s} : stat'[q] = stat[q]
    BY <1>3, <1>4, <1>8
  <2>3. Rows(v)' = Rows(v) \union {s} /\ s \notin Rows(v)
    BY <1>3, <1>6, <2>1, <2>2 DEF Rows, Known
  <2>4. Rows(v) \in SUBSET Statuses
    BY DEF Rows
  <2>5. Cardinality(Rows(v)') = Cardinality(Rows(v)) + 1
    <3> HIDE DEF Rows
    <3> QED
      BY <2>3, <2>4, RowsFinite, FS_AddElement
  <2>6. PICK w : w = {x.op}
    OBVIOUS
  <2>7. w \intersect Inserters # {}
    BY <1>3, <2>6 DEF Inserters
  <2>8. ASSUME NEW q \in Statuses
        PROVE  StatusWritten(w, q)
    <3>1. CASE q = s
      <4>1. stat'[q].flow = v /\ stat'[q].pos <= Cardinality(Rows(v)')
        <5> HIDE DEF Rows
        <5> QED
          BY <1>3, <2>1, <2>2, <2>5, <3>1
      <4> HIDE DEF Rows
      <4> QED
        BY <1>3, <1>6, <2>1, <2>2, <2>7, <3>1, <4>1 DEF StatusWritten
    <3>2. CASE q # s
      <4>1. stat'[q] = stat[q] /\ stat[q].pos \in Nat
        BY <1>4, <2>2, <3>2 DEF StatRow
      <4> QED
        BY <4>1 DEF StatusWritten, Known
    <3> QED
      BY <3>1, <3>2
  <2>9. BoardFramed(w) /\ Tables' /\ Belongs' /\ Counts'
    BY <1>4, <2>2, <2>8, StatusesWritten
  <2> QED
    BY <1>1, <1>8, <2>6, <2>9, BoardCommitKeeps
<1> QED
  BY <1>1, <1>2, <1>5, <1>7, <1>8 DEF InsertStatus, Store

LEMMA ReviveStatusKeeps ==
  ASSUME BoardIInv, NEW r \in Requests, ReviveStatus(r), UNCHANGED task
  PROVE  BoardIInv'
<1>1. PICK x : x = req[r]
  OBVIOUS
<1>2. PICK s, row : s = x.with.id /\ row = x.with.row
  OBVIOUS
<1>3. /\ x.op = "createStatus" /\ s \in Statuses /\ row \in StatRow /\ row.state = "live"
      /\ stat[s].flow = row.flow
      /\ flow[row.flow].state = "live" => row.pos <= Cardinality(Rows(row.flow))
  BY <1>1, <1>2 DEF BoardIInv, ReviveStatus, At, BoardReqOK, ReviveOK, ReviveData
<1>4. UNCHANGED <<flow, uses, task>> /\ stat \in [Statuses -> StatRow]
  BY DEF ReviveStatus, BoardIInv, BoardTyped, Tables
<1>5. CASE Answer(r) /\ UNCHANGED stat
  BY <1>4, <1>5, BoardAnswerKeeps DEF BoardSame
<1>6. CASE Known(s) /\ Fits(s, row) /\ stat' = [stat EXCEPT ![s] = row] /\ Commit(r)
  <2>1. PICK v \in Workflows : v = row.flow /\ flow[v].state = "live"
    BY <1>3, <1>6 DEF Fits, StatRow
  <2>2. stat' \in [Statuses -> StatRow] /\ stat'[s] = row /\ \A q \in Statuses \ {s} : stat'[q] = stat[q]
    BY <1>3, <1>4, <1>6
  <2>3. Rows(v)' = Rows(v)
    BY <1>3, <1>6, <2>2 DEF Rows, Known
  <2>4. PICK w : w = {x.op}
    OBVIOUS
  <2>5. w \intersect Movers # {} /\ w \intersect Recoders # {}
    BY <1>3, <2>4 DEF Movers, Recoders
  <2>6. ASSUME NEW q \in Statuses
        PROVE  StatusWritten(w, q)
    <3>1. CASE q = s
      <4>1. stat'[q].flow = v /\ stat'[q].pos <= Cardinality(Rows(v)')
        <5> HIDE DEF Rows
        <5> QED
          BY <1>3, <2>1, <2>2, <2>3, <3>1
      <4>2. Known(q) /\ Known(q)' /\ stat[q].state # "none" /\ stat'[q].state # "none"
        BY <1>3, <1>6, <2>2, <3>1 DEF Known
      <4> HIDE DEF Rows, Known, Movers, Recoders, Inserters
      <4> QED
        BY <1>3, <2>1, <2>2, <2>5, <3>1, <4>1, <4>2 DEF StatusWritten
    <3>2. CASE q # s
      <4>1. stat'[q] = stat[q] /\ stat[q].pos \in Nat
        BY <1>4, <2>2, <3>2 DEF StatRow
      <4> QED
        BY <4>1 DEF StatusWritten, Known
    <3> QED
      BY <3>1, <3>2
  <2>7. BoardFramed(w) /\ Tables' /\ Belongs' /\ Counts'
    BY <1>4, <2>2, <2>6, StatusesWritten
  <2> QED
    BY <1>1, <1>6, <2>4, <2>7, BoardCommitKeeps
<1> QED
  BY <1>1, <1>2, <1>5, <1>6 DEF ReviveStatus, Store


LEMMA UpdateStatusKeeps ==
  ASSUME BoardIInv, NEW r \in Requests, UpdateStatus(r), UNCHANGED task
  PROVE  BoardIInv'
<1>1. PICK s \in Statuses : /\ Known(s)
                            /\ \E row \in Patched(s) : stat' = [stat EXCEPT ![s] = row]
                            /\ Once(r, "updateStatus") /\ UNCHANGED <<flow, uses>>
  BY DEF UpdateStatus
<1>2. PICK row \in Patched(s) : stat' = [stat EXCEPT ![s] = row]
  BY <1>1
<1>3. stat \in [Statuses -> StatRow]
  BY DEF BoardIInv, BoardTyped, Tables
<1>4. row \in StatRow /\ row.state = stat[s].state /\ row.flow = stat[s].flow /\ row.pos = stat[s].pos
  <2>1. CASE \E n \in Names : row = [stat[s] EXCEPT !.name = n]
    BY <1>3, <2>1 DEF StatRow
  <2>2. CASE row = [stat[s] EXCEPT !.done = ~@]
    <3>1. PICK done \in BOOLEAN : done <=> ~stat[s].done
      OBVIOUS
    <3>2. stat[s].done \in BOOLEAN
      BY <1>3 DEF StatRow
    <3>3. row = [stat[s] EXCEPT !.done = done]
      BY <2>2, <3>1, <3>2
    <3> QED
      BY <1>3, <3>3 DEF StatRow
  <2> QED
    BY <2>1, <2>2 DEF Patched
<1>5. stat' \in [Statuses -> StatRow] /\ stat'[s] = row /\ \A q \in Statuses \ {s} : stat'[q] = stat[q]
  BY <1>2, <1>3, <1>4
<1>6. PICK op \in Ops, w \in SUBSET Ops : op = "updateStatus" /\ w = {op}
  BY DEF Ops, StatusOps
<1>7. w \intersect Recoders # {}
  BY <1>6 DEF Recoders
<1>8. ASSUME NEW q \in Statuses
      PROVE  StatusWritten(w, q)
  <2>1. /\ stat'[q].state = stat[q].state /\ stat'[q].flow = stat[q].flow /\ stat'[q].pos = stat[q].pos
        /\ stat[q].pos \in Nat
    BY <1>3, <1>4, <1>5 DEF StatRow
  <2> QED
    BY <1>7, <2>1 DEF StatusWritten, Known
<1>9. BoardFramed(w) /\ Tables' /\ Belongs' /\ Counts'
  BY <1>1, <1>5, <1>8, StatusesWritten
<1> QED
  BY <1>1, <1>6, <1>9, BoardOnceKeeps

LEMMA UpdatePositionsKeeps ==
  ASSUME BoardIInv, NEW r \in Requests, UpdatePositions(r), UNCHANGED task
  PROVE  BoardIInv'
<1>1. PICK v \in Workflows :
        /\ \E f \in [Shown(v) -> 1..Cardinality(Shown(v))] :
             stat' = [s \in Statuses |-> IF s \in Shown(v) THEN [stat[s] EXCEPT !.pos = f[s]] ELSE stat[s]]
        /\ Once(r, "positions") /\ UNCHANGED <<flow, uses>>
  BY DEF UpdatePositions
<1>2. PICK S : S = Shown(v)
  OBVIOUS
<1>3. /\ S \in SUBSET Statuses /\ \A s \in S : stat[s].flow = v /\ stat[s].state = "live"
      /\ S \subseteq Rows(v)
  BY <1>2 DEF Shown, Rows
<1>4. Cardinality(S) \in Nat /\ Cardinality(S) <= Cardinality(Rows(v)) /\ Cardinality(Rows(v)) \in Nat
  <2>1. Rows(v) \in SUBSET Statuses
    BY DEF Rows
  <2> HIDE DEF Rows
  <2> QED
    BY <1>3, <2>1, RowsGrow
<1>5. PICK f \in [S -> 1..Cardinality(S)] :
        stat' = [s \in Statuses |-> IF s \in S THEN [stat[s] EXCEPT !.pos = f[s]] ELSE stat[s]]
  BY ZenonT(30), <1>1, <1>2
<1>6. stat \in [Statuses -> StatRow]
  BY DEF BoardIInv, BoardTyped, Tables
<1>7. /\ stat' \in [Statuses -> StatRow]
      /\ \A s \in S : /\ stat'[s].state = stat[s].state /\ stat'[s].flow = stat[s].flow
                      /\ stat'[s].done = stat[s].done /\ stat'[s].pos <= Cardinality(S)
      /\ \A s \in Statuses \ S : stat'[s] = stat[s]
  <2>1. \A s \in S : f[s] \in Nat /\ f[s] <= Cardinality(S)
    BY <1>4
  <2> QED
    BY <1>3, <1>5, <1>6, <2>1 DEF StatRow
<1>8. PICK op \in Ops, w \in SUBSET Ops : op = "positions" /\ w = {op}
  BY DEF Ops, StatusOps
<1>9. w \intersect Movers # {}
  BY <1>8 DEF Movers
<1>10. Rows(v)' = Rows(v)
  BY <1>7 DEF Rows, Known
<1>11. ASSUME NEW q \in Statuses
       PROVE  StatusWritten(w, q)
  <2>1. CASE q \in S
    <3>1. stat'[q].flow = v /\ stat'[q].pos <= Cardinality(Rows(v)') /\ stat'[q].pos \in Nat
      <4>1. stat'[q].pos \in Nat
        BY <1>7 DEF StatRow
      <4> HIDE DEF Rows
      <4> QED
        BY <1>3, <1>4, <1>7, <1>10, <2>1, <4>1
    <3>2. Known(q)' <=> Known(q)
      BY <1>7, <2>1 DEF Known
    <3> HIDE DEF Rows, Known, Movers
    <3> QED
      BY <1>3, <1>7, <1>9, <2>1, <3>1, <3>2 DEF StatusWritten
  <2>2. CASE q \notin S
    <3>1. stat'[q] = stat[q] /\ stat[q].pos \in Nat
      BY <1>6, <1>7, <2>2 DEF StatRow
    <3> QED
      BY <3>1 DEF StatusWritten, Known
  <2> QED
    BY <2>1, <2>2
<1>12. BoardFramed(w) /\ Tables' /\ Belongs' /\ Counts'
  BY <1>1, <1>7, <1>11, StatusesWritten
<1> QED
  BY <1>1, <1>8, <1>12, BoardOnceKeeps

LEMMA AskRemoveStatusKeeps ==
  ASSUME BoardIInv, NEW r \in Requests, AskRemoveStatus(r), UNCHANGED task
  PROVE  BoardIInv'
<1>1. PICK s \in Statuses :
        /\ stat[s].state = "live"
        /\ Ask(r, "removeStatus", "write", [id |-> s, flow |-> stat[s].flow, pos |-> stat[s].pos])
        /\ UNCHANGED flowVars
  BY DEF AskRemoveStatus
<1>2. PICK h : h = [id |-> s, flow |-> stat[s].flow, pos |-> stat[s].pos]
  OBVIOUS
<1>3. h \in RemovalData /\ h \in BoardData /\ h.id = s /\ h.flow = stat[s].flow /\ h.pos = stat[s].pos
  BY <1>2, BoardDataFacts DEF RemovalData, BoardIInv, BoardTyped, Tables, StatRow
<1>4. PICK op \in Ops, step \in Steps : op = "removeStatus" /\ step = "write"
  BY DEF Ops, Steps, StatusOps
<1>5. Ask(r, op, step, h) /\ BoardSame
  BY <1>1, <1>2, <1>4 DEF flowVars, BoardSame
<1>6. ASSUME NEW y \in RequestOf(BoardData), y.op = op, y.step = step, y.with = h, y.over = {}
      PROVE  BoardReqOK(y)
  BY <1>1, <1>3, <1>4, <1>6 DEF BoardReqOK, NamesOK, EmptyOK, InsertOK, ReviveOK, RemovalOK, EditOK,
     BulkOK, BulkOps, TargetsOK, AssignOK
<1> QED
  BY <1>3, <1>5, <1>6, BoardAskKeeps

LEMMA RemoveStatusKeeps ==
  ASSUME BoardIInv, NEW r \in Requests, RemoveStatus(r), UNCHANGED task
  PROVE  BoardIInv'
<1>1. PICK x : x = req[r]
  OBVIOUS
<1>2. PICK h : h = x.with
  OBVIOUS
<1>3. x.op = "removeStatus" /\ h \in RemovalData
  BY <1>1, <1>2 DEF BoardIInv, RemoveStatus, At, BoardReqOK, RemovalOK
<1>4. PICK s \in Statuses, v \in Workflows, pos \in Nat : s = h.id /\ v = h.flow /\ pos = h.pos
  BY <1>3 DEF RemovalData
<1>5. UNCHANGED <<flow, uses, task>> /\ stat \in [Statuses -> StatRow]
  BY DEF RemoveStatus, BoardIInv, BoardTyped, Tables
<1>6. CASE Answer(r) /\ UNCHANGED stat
  BY <1>5, <1>6, BoardAnswerKeeps DEF BoardSame
<1>7. CASE /\ Known(s) /\ stat' = [Shifted(v, pos) EXCEPT ![s].state = "deleted"]
           /\ Commit(r)
  <2>1. PICK shifted : shifted = Shifted(v, pos)
    OBVIOUS
  <2>2. /\ shifted \in [Statuses -> StatRow]
        /\ \A q \in Statuses : /\ shifted[q].state = stat[q].state /\ shifted[q].flow = stat[q].flow
                               /\ shifted[q].done = stat[q].done /\ shifted[q].pos <= stat[q].pos
    <3>1. ASSUME NEW q \in Statuses
          PROVE  /\ shifted[q] \in StatRow /\ shifted[q].state = stat[q].state
                 /\ shifted[q].flow = stat[q].flow
                 /\ shifted[q].done = stat[q].done /\ shifted[q].pos <= stat[q].pos
      <4>1. stat[q] \in StatRow /\ stat[q].pos \in Nat
        BY <1>5 DEF StatRow
      <4>2. CASE q \in Rows(v) /\ stat[q].pos > pos
        <5>1. PICK n \in Nat : n = stat[q].pos - 1 /\ n <= stat[q].pos
          BY <4>1, <4>2
        <5>2. shifted[q] = [stat[q] EXCEPT !.pos = n]
          BY <2>1, <4>2, <5>1 DEF Shifted
        <5> QED
          BY <4>1, <5>1, <5>2 DEF StatRow
      <4>3. CASE ~(q \in Rows(v) /\ stat[q].pos > pos)
        <5>1. shifted[q] = stat[q]
          BY <2>1, <4>3 DEF Shifted
        <5> QED
          BY <4>1, <5>1
      <4> QED
        BY <4>2, <4>3
    <3>2. shifted = [q \in Statuses |-> shifted[q]]
      BY <2>1 DEF Shifted
    <3> QED
      BY <3>1, <3>2
  <2>3. stat' = [shifted EXCEPT ![s].state = "deleted"]
    BY <1>7, <2>1
  <2>4. /\ stat' \in [Statuses -> StatRow]
        /\ \A q \in Statuses : /\ stat'[q].flow = stat[q].flow /\ stat'[q].done = stat[q].done
                               /\ stat'[q].pos <= stat[q].pos
        /\ stat'[s].state = "deleted" /\ \A q \in Statuses \ {s} : stat'[q].state = stat[q].state
    BY <2>2, <2>3 DEF StatRow
  <2>5. PICK w : w = {x.op}
    OBVIOUS
  <2>6. w \intersect Movers # {}
    BY <1>3, <2>5 DEF Movers
  <2>7. ASSUME NEW q \in Statuses
        PROVE  StatusWritten(w, q)
    BY <1>7, <2>4, <2>6 DEF StatusWritten, Known
  <2>8. BoardFramed(w) /\ Tables' /\ Belongs' /\ Counts'
    BY <1>5, <2>4, <2>7, StatusesWritten
  <2> QED
    BY <1>1, <1>7, <2>5, <2>8, BoardCommitKeeps
<1> QED
  BY <1>1, <1>2, <1>4, <1>6, <1>7 DEF RemoveStatus

LEMMA AskRestoreStatusKeeps ==
  ASSUME BoardIInv, NEW r \in Requests, AskRestoreStatus(r), UNCHANGED task
  PROVE  BoardIInv'
<1>1. PICK s \in Statuses : Ask(r, "restoreStatus", "write", s) /\ UNCHANGED flowVars
  BY DEF AskRestoreStatus
<1>2. PICK op \in Ops, step \in Steps : op = "restoreStatus" /\ step = "write"
  BY DEF Ops, Steps, StatusOps
<1>3. Ask(r, op, step, s) /\ BoardSame /\ s \in BoardData
  BY <1>1, <1>2, BoardDataFacts DEF flowVars, BoardSame
<1>4. ASSUME NEW y \in RequestOf(BoardData), y.op = op, y.step = step, y.with = s, y.over = {}
      PROVE  BoardReqOK(y)
  BY <1>2, <1>4 DEF BoardReqOK, NamesOK, EmptyOK, InsertOK, ReviveOK, RemovalOK, EditOK,
     BulkOK, BulkOps, TargetsOK, AssignOK
<1> QED
  BY <1>3, <1>4, BoardAskKeeps

LEMMA RestoreStatusKeeps ==
  ASSUME BoardIInv, NEW r \in Requests, RestoreStatus(r), UNCHANGED task
  PROVE  BoardIInv'
<1>1. PICK x : x = req[r]
  OBVIOUS
<1>2. PICK s : s = x.with
  OBVIOUS
<1>3. x.op = "restoreStatus" /\ s \in Statuses
  BY <1>1, <1>2 DEF BoardIInv, RestoreStatus, At, BoardReqOK, RemovalOK
<1>4. UNCHANGED <<flow, uses, task>> /\ stat \in [Statuses -> StatRow]
  BY DEF RestoreStatus, BoardIInv, BoardTyped, Tables
<1>5. CASE Answer(r) /\ UNCHANGED stat
  BY <1>4, <1>5, BoardAnswerKeeps DEF BoardSame
<1>6. CASE Known(s) /\ stat' = [stat EXCEPT ![s].state = "live"] /\ Commit(r)
  <2>1. /\ stat' \in [Statuses -> StatRow]
        /\ \A q \in Statuses : /\ stat'[q].flow = stat[q].flow /\ stat'[q].done = stat[q].done
                               /\ stat'[q].pos = stat[q].pos /\ stat[q].pos \in Nat
        /\ stat'[s].state = "live" /\ \A q \in Statuses \ {s} : stat'[q].state = stat[q].state
    BY <1>3, <1>4, <1>6 DEF StatRow
  <2>2. PICK w : w = {x.op}
    OBVIOUS
  <2>3. ASSUME NEW q \in Statuses
        PROVE  StatusWritten(w, q)
    BY <1>6, <2>1 DEF StatusWritten, Known
  <2>4. BoardFramed(w) /\ Tables' /\ Belongs' /\ Counts'
    BY <1>4, <2>1, <2>3, StatusesWritten
  <2> QED
    BY <1>1, <1>6, <2>2, <2>4, BoardCommitKeeps
<1> QED
  BY <1>1, <1>2, <1>5, <1>6 DEF RestoreStatus


-----------------------------------------------------------------------------
\* The steps of single tasks.

TaskWritten(w, t) ==
  /\ task[t].state # "none" =>
       /\ task'[t].state # "none"
       /\ task'[t].state = "live" => task[t].state = "live"
       /\ w \intersect Placers = {} /\ task'[t].state = "live" => task'[t].prj = task[t].prj
  /\ task'[t].state = "live" => Known(task'[t].status)
  /\ w \intersect Fillers = {} /\ task'[t].state = "live" =>
       task[t].state = "live" /\ task'[t].status = task[t].status
  /\ w \intersect Assigners = {} /\ task[t].state = "live" =>
       task'[t].state = "live" /\ task'[t].who = task[t].who

LEMMA TasksWritten ==
  ASSUME BoardIInv, NEW w, UNCHANGED <<flow, stat, uses>>, task' \in [Tasks -> TaskRow],
         \A t \in Tasks : TaskWritten(w, t)
  PROVE  BoardFramed(w) /\ Tables' /\ Belongs' /\ Counts'
<1>1. Tables /\ Belongs /\ Counts
  BY DEF BoardIInv, BoardTyped
<1>2. /\ \A v : Rows(v)' = Rows(v)
      /\ \A s : Known(s)' <=> Known(s)
      /\ Defaults' = Defaults
  BY DEF Rows, Known, Defaults
<1>3. w \intersect Fillers = {} => \A v \in Workflows : TasksIn(v)' \subseteq TasksIn(v)
  BY DEF TasksIn, Live, TaskWritten
<1>4. /\ \A t \in Tasks : task[t].state # "none" =>
           /\ task'[t].state # "none"
           /\ t \in Live' => t \in Live
           /\ w \intersect Placers = {} /\ t \in Live' => task'[t].prj = task[t].prj
      /\ w \intersect Assigners = {} => \A t \in Live : t \in Live' /\ task'[t].who = task[t].who
  BY DEF Live, TaskWritten
<1>5. BoardFramed(w)
  <2> HIDE DEF Known, Rows, Live, TasksIn, Defaults
  <2> QED
    BY <1>2, <1>3, <1>4 DEF BoardFramed
<1>6. Tables' /\ Counts'
  BY <1>1, <1>2 DEF Tables, Counts
<1>7. \A t \in Live' : Known(task'[t].status)
  BY DEF Live, TaskWritten
<1>8. Belongs'
  <2> HIDE DEF Known, Live
  <2> QED
    BY <1>1, <1>2, <1>7 DEF Belongs
<1> QED
  BY <1>5, <1>6, <1>8

LEMMA AskInsertKeeps ==
  ASSUME BoardIInv, NEW r \in Requests, NEW op \in {"createTask", "bulkCreate"}, NEW p \in Projects,
         NEW s \in Statuses, NEW who \in SUBSET Users,
         Ask(r, op, "insert", [prj |-> p, status |-> s, who |-> who]), BoardSame
  PROVE  BoardIInv'
<1>1. PICK h : h = [prj |-> p, status |-> s, who |-> who]
  OBVIOUS
<1>2. h \in NewTask /\ h \in BoardData /\ op \in Ops
  BY <1>1, BoardDataFacts DEF NewTask, Ops, TaskOps
<1>3. PICK step \in Steps : step = "insert"
  BY DEF Steps
<1>4. Ask(r, op, step, h)
  BY <1>1, <1>3
<1>5. ASSUME NEW y \in RequestOf(BoardData), y.op = op, y.step = step, y.with = h, y.over = {}
      PROVE  BoardReqOK(y)
  BY <1>2, <1>3, <1>5 DEF BoardReqOK, NamesOK, EmptyOK, InsertOK, ReviveOK, RemovalOK, EditOK,
     BulkOK, BulkOps, TargetsOK, AssignOK, TaskOps
<1> QED
  BY <1>2, <1>4, <1>5, BoardAskKeeps

LEMMA AskCreateTaskKeeps ==
  ASSUME BoardIInv, NEW r \in Requests, AskCreateTask(r) \/ AskBulkCreate(r)
  PROVE  BoardIInv'
<1>1. PICK op \in {"createTask", "bulkCreate"}, p \in Projects, s \in Statuses, who \in SUBSET Users :
        /\ Ask(r, op, "insert", [prj |-> p, status |-> s, who |-> who])
        /\ UNCHANGED <<flowVars, task>>
  <2>1. CASE AskCreateTask(r)
    BY <2>1 DEF AskCreateTask
  <2>2. CASE AskBulkCreate(r)
    BY <2>2 DEF AskBulkCreate
  <2> QED
    BY <2>1, <2>2
<1>2. BoardSame
  BY <1>1 DEF flowVars, BoardSame
<1> QED
  BY <1>1, <1>2, AskInsertKeeps

LEMMA InsertKeeps ==
  ASSUME BoardIInv, NEW r \in Requests, CreateTask(r) \/ BulkCreate(r)
  PROVE  BoardIInv'
<1>1. PICK x : x = req[r]
  OBVIOUS
<1>2. PICK h : h = x.with
  OBVIOUS
<1>3. x.op \in {"createTask", "bulkCreate"} /\ UNCHANGED <<flow, stat, uses>>
  BY <1>1 DEF CreateTask, BulkCreate, At, flowVars
<1>4. h \in NewTask
  BY <1>1, <1>2, <1>3 DEF BoardIInv, BoardReqOK, EditOK
<1>5. CASE Answer(r) /\ UNCHANGED task
  BY <1>3, <1>5, BoardAnswerKeeps DEF BoardSame
<1>6. CASE /\ Known(h.status)
           /\ \E new \in SUBSET {t \in Tasks : task[t].state = "none"} :
                task' = [t \in Tasks |->
                           IF t \in new THEN [state |-> "live", prj |-> h.prj, status |-> h.status,
                                              stamped |-> FALSE, who |-> h.who]
                           ELSE task[t]]
           /\ Commit(r)
  <2>1. PICK new \in SUBSET {t \in Tasks : task[t].state = "none"} :
          task' = [t \in Tasks |->
                     IF t \in new THEN [state |-> "live", prj |-> h.prj, status |-> h.status,
                                        stamped |-> FALSE, who |-> h.who]
                     ELSE task[t]]
    BY <1>6
  <2>2. PICK row : row = [state |-> "live", prj |-> h.prj, status |-> h.status,
                          stamped |-> FALSE, who |-> h.who]
    OBVIOUS
  <2>3. row \in TaskRow /\ row.state = "live" /\ row.status = h.status
    BY <1>4, <2>2 DEF NewTask, TaskRow
  <2>4. task \in [Tasks -> TaskRow] /\ \A t \in Live : Known(task[t].status)
    BY DEF BoardIInv, BoardTyped, Tables, Belongs
  <2>5. /\ task' \in [Tasks -> TaskRow]
        /\ \A t \in new : task'[t] = row /\ task[t].state = "none"
        /\ \A t \in Tasks \ new : task'[t] = task[t]
    BY <2>1, <2>2, <2>3, <2>4
  <2>6. PICK w : w = {x.op}
    OBVIOUS
  <2>7. w \intersect Fillers # {}
    BY <1>3, <2>6 DEF Fillers
  <2>8. ASSUME NEW t \in Tasks
        PROVE  TaskWritten(w, t)
    BY <1>6, <2>3, <2>4, <2>5, <2>7 DEF TaskWritten, Live
  <2>9. BoardFramed(w) /\ Tables' /\ Belongs' /\ Counts'
    BY <1>3, <2>5, <2>8, TasksWritten
  <2> QED
    BY <1>1, <1>6, <2>6, <2>9, BoardCommitKeeps
<1> QED
  BY <1>1, <1>2, <1>5, <1>6 DEF CreateTask, BulkCreate, Insert

LEMMA PatchesTyped ==
  ASSUME BoardIInv, NEW patch \in Patches
  PROVE  /\ patch \in PatchData
         /\ patch.field = "status" =>
              /\ patch.to \in Statuses /\ Known(patch.to) /\ patch.done = stat[patch.to].done
<1>1. CASE \E s \in {x \in Statuses : Known(x)} : patch = Patch("status", s, stat[s].done)
  <2>1. PICK s \in Statuses : Known(s) /\ patch = Patch("status", s, stat[s].done)
    BY <1>1
  <2>2. PICK done \in BOOLEAN : done = stat[s].done
    BY DEF BoardIInv, BoardTyped, Tables, StatRow
  <2>3. patch = [field |-> "status", to |-> s, done |-> done]
    BY <2>1, <2>2 DEF Patch
  <2> QED
    BY <2>1, <2>2, <2>3 DEF PatchData
<1>2. CASE \E who \in SUBSET Users : patch = Patch("who", who, FALSE)
  BY <1>2 DEF Patch, PatchData
<1>3. CASE \E p \in Projects : patch = Patch("prj", p, FALSE)
  BY <1>3 DEF Patch, PatchData
<1> QED
  BY <1>1, <1>2, <1>3 DEF Patches, ToStatus

LEMMA AskUpdateTaskKeeps ==
  ASSUME BoardIInv, NEW r \in Requests, AskUpdateTask(r)
  PROVE  BoardIInv'
<1>1. PICK t \in Live, patch \in Patches :
        /\ Ask(r, "updateTask", "write", [id |-> t, patch |-> patch])
        /\ UNCHANGED <<flowVars, task>>
  BY DEF AskUpdateTask
<1>2. PICK h : h = [id |-> t, patch |-> patch]
  OBVIOUS
<1>3. /\ h \in EditData /\ h \in BoardData /\ h.patch = patch
      /\ patch.field = "status" => Known(patch.to) /\ patch.done = stat[patch.to].done
  <2>1. t \in Tasks
    BY DEF Live
  <2> HIDE DEF Patches
  <2> QED
    BY <1>2, <2>1, PatchesTyped, BoardDataFacts DEF EditData
<1>4. PICK op \in Ops, step \in Steps : op = "updateTask" /\ step = "write"
  BY DEF Ops, Steps, TaskOps
<1>5. Ask(r, op, step, h) /\ BoardSame
  BY <1>1, <1>2, <1>4 DEF flowVars, BoardSame
<1>6. ASSUME NEW y \in RequestOf(BoardData), y.op = op, y.step = step, y.with = h, y.over = {}
      PROVE  BoardReqOK(y)
  <2>1. EditOK(y)
    BY <1>3, <1>4, <1>6 DEF EditOK, Known
  <2> QED
    BY <1>4, <1>6, <2>1 DEF BoardReqOK, NamesOK, EmptyOK, InsertOK, ReviveOK, RemovalOK,
       BulkOK, BulkOps, TargetsOK, AssignOK, TaskOps
<1> QED
  BY <1>3, <1>5, <1>6, BoardAskKeeps

LEMMA UpdateTaskKeeps ==
  ASSUME BoardIInv, NEW r \in Requests, UpdateTask(r)
  PROVE  BoardIInv'
<1>1. PICK x : x = req[r]
  OBVIOUS
<1>2. PICK t, patch : t = x.with.id /\ patch = x.with.patch
  OBVIOUS
<1>3. x.op = "updateTask" /\ x.with \in EditData /\ UNCHANGED <<flow, stat, uses>>
  BY <1>1 DEF BoardIInv, UpdateTask, At, BoardReqOK, EditOK, flowVars
<1>4. t \in Tasks /\ patch \in PatchData
  BY <1>2, <1>3 DEF EditData
<1>5. CASE Answer(r) /\ UNCHANGED task
  BY <1>3, <1>5, BoardAnswerKeeps DEF BoardSame
<1>6. CASE /\ t \in Live /\ Known(Edited(task[t], patch).status)
           /\ task' = [task EXCEPT ![t] = Edited(task[t], patch)] /\ Commit(r)
  <2>1. PICK row : row = Edited(task[t], patch)
    OBVIOUS
  <2>2. task \in [Tasks -> TaskRow] /\ \A u \in Live : Known(task[u].status)
    BY DEF BoardIInv, BoardTyped, Tables, Belongs
  <2>3. row \in TaskRow /\ row.state = "live"
    <3>1. task[t] \in TaskRow /\ task[t].state = "live"
      BY <1>4, <1>6, <2>2 DEF Live
    <3>2. CASE patch.field = "status"
      <4>1. patch.to \in Statuses /\ patch.done \in BOOLEAN
        BY <1>4, <3>2 DEF PatchData
      <4>2. row = [task[t] EXCEPT !.status = patch.to, !.stamped = patch.done]
        BY <2>1, <3>2 DEF Edited
      <4> QED
        BY <3>1, <4>1, <4>2 DEF TaskRow
    <3>3. CASE patch.field = "who"
      <4>1. patch.to \in SUBSET Users
        BY <1>4, <3>3 DEF PatchData
      <4>2. row = [task[t] EXCEPT !.who = patch.to]
        BY <2>1, <3>3 DEF Edited
      <4> QED
        BY <3>1, <4>1, <4>2 DEF TaskRow
    <3>4. CASE patch.field = "prj"
      <4>1. patch.to \in Projects
        BY <1>4, <3>4 DEF PatchData
      <4>2. row = [task[t] EXCEPT !.prj = patch.to]
        BY <2>1, <3>4 DEF Edited
      <4> QED
        BY <3>1, <4>1, <4>2 DEF TaskRow
    <3> QED
      BY <1>4, <3>2, <3>3, <3>4 DEF PatchData
  <2>4. task' \in [Tasks -> TaskRow] /\ task'[t] = row /\ \A u \in Tasks \ {t} : task'[u] = task[u]
    BY <1>4, <1>6, <2>1, <2>2, <2>3
  <2>5. PICK w : w = {x.op}
    OBVIOUS
  <2>6. w \intersect Fillers # {} /\ w \intersect Placers # {} /\ w \intersect Assigners # {}
    BY <1>3, <2>5 DEF Fillers, Placers, Assigners
  <2>7. ASSUME NEW u \in Tasks
        PROVE  TaskWritten(w, u)
    BY <1>6, <2>1, <2>2, <2>3, <2>4, <2>6 DEF TaskWritten, Live
  <2>8. BoardFramed(w) /\ Tables' /\ Belongs' /\ Counts'
    BY <1>3, <2>4, <2>7, TasksWritten
  <2> QED
    BY <1>1, <1>6, <2>5, <2>8, BoardCommitKeeps
<1> QED
  BY <1>1, <1>2, <1>5, <1>6 DEF UpdateTask

LEMMA AskRemoveTaskKeeps ==
  ASSUME BoardIInv, NEW r \in Requests, AskRemoveTask(r)
  PROVE  BoardIInv'
<1>1. PICK t \in Tasks : Ask(r, "removeTask", "write", t) /\ UNCHANGED <<flowVars, task>>
  BY DEF AskRemoveTask, Live
<1>2. PICK op \in Ops, step \in Steps : op = "removeTask" /\ step = "write"
  BY DEF Ops, Steps, TaskOps
<1>3. Ask(r, op, step, t) /\ BoardSame /\ t \in BoardData
  BY <1>1, <1>2, BoardDataFacts DEF flowVars, BoardSame
<1>4. ASSUME NEW y \in RequestOf(BoardData), y.op = op, y.step = step, y.with = t, y.over = {}
      PROVE  BoardReqOK(y)
  BY <1>2, <1>4 DEF BoardReqOK, NamesOK, EmptyOK, InsertOK, ReviveOK, RemovalOK, EditOK,
     BulkOK, BulkOps, TargetsOK, AssignOK, TaskOps
<1> QED
  BY <1>3, <1>4, BoardAskKeeps

\* Tasks are deleted.
LEMMA DeletionsWritten ==
  ASSUME BoardIInv, NEW w, UNCHANGED <<flow, stat, uses>>, NEW ts \in SUBSET Tasks,
         \A t \in ts : task[t].state # "none", task' = Without(ts), w \intersect Assigners # {}
  PROVE  BoardFramed(w) /\ Tables' /\ Belongs' /\ Counts'
<1>1. /\ task' \in [Tasks -> TaskRow]
      /\ \A t \in Tasks \ ts : task'[t] = task[t]
      /\ \A t \in ts : task'[t].state = "gone"
  BY TasksGone DEF BoardIInv, BoardTyped
<1>2. ASSUME NEW t \in Tasks
      PROVE  TaskWritten(w, t)
  <2>1. t \in Live => Known(task[t].status)
    BY DEF BoardIInv, Belongs
  <2> QED
    BY <1>1, <2>1 DEF TaskWritten, Live
<1> QED
  BY <1>1, <1>2, TasksWritten

LEMMA RemoveTaskKeeps ==
  ASSUME BoardIInv, NEW r \in Requests, RemoveTask(r)
  PROVE  BoardIInv'
<1>1. PICK x : x = req[r]
  OBVIOUS
<1>2. PICK t : t = x.with
  OBVIOUS
<1>3. x.op = "removeTask" /\ t \in Tasks /\ UNCHANGED <<flow, stat, uses>>
  BY <1>1, <1>2 DEF BoardIInv, RemoveTask, At, BoardReqOK, EditOK, flowVars
<1>4. CASE Answer(r) /\ UNCHANGED task
  BY <1>3, <1>4, BoardAnswerKeeps DEF BoardSame
<1>5. CASE t \in Live /\ task' = Without({t}) /\ Commit(r)
  <2>1. PICK w : w = {x.op}
    OBVIOUS
  <2>2. w \intersect Assigners # {}
    BY <1>3, <2>1 DEF Assigners
  <2>3. PICK ts \in SUBSET Tasks : ts = {t}
    BY <1>3
  <2>4. task' = Without(ts) /\ \A u \in ts : task[u].state # "none"
    BY <1>5, <2>3 DEF Live
  <2>5. BoardFramed(w) /\ Tables' /\ Belongs' /\ Counts'
    BY <1>3, <2>2, <2>4, DeletionsWritten
  <2> QED
    BY <1>1, <1>5, <2>1, <2>5, BoardCommitKeeps
<1> QED
  BY <1>1, <1>2, <1>4, <1>5 DEF RemoveTask


-----------------------------------------------------------------------------
\* The steps of the bulk requests.

\* What a bulk request says of its tasks.
Accounted(h) ==
  /\ h \in BulkData
  /\ h.named \subseteq h.failed \union h.did \union h.todo
  /\ h.failed \intersect h.did = {} /\ h.todo \intersect (h.failed \union h.did) = {}

\* Tasks of todo that are through: done or failed.
Through(h, k, done, failed) ==
  /\ k.named = h.named /\ k.asked = h.asked
  /\ k.todo = h.todo \ (done \union failed)
  /\ k.did = h.did \union done /\ k.failed = h.failed \union failed

LEMMA ThroughAccounts ==
  ASSUME NEW h, Accounted(h), NEW k, NEW done \in SUBSET h.todo, NEW failed \in SUBSET h.todo,
         done \intersect failed = {},
         k \in [named : SUBSET Tasks, todo : SUBSET Tasks, failed : SUBSET Tasks, did : SUBSET Tasks,
                asked : {h.asked}],
         Through(h, k, done, failed)
  PROVE  Accounted(k) /\ k \in BoardData
<1>1. h.asked \in Asked
  BY DEF Accounted, BulkData
<1>2. k \in BulkData
  <2> HIDE DEF Asked
  <2> QED
    BY <1>1 DEF BulkData
<1>3. k \in BoardData
  BY <1>2, BoardDataFacts
<1> QED
  BY <1>2, <1>3 DEF Accounted, Through

Chooses(h, named, todo, asked) ==
  named \in SUBSET Tasks /\ todo \in SUBSET Tasks /\ h = Chosen(named, todo, asked)

LEMMA SelectionAccounts ==
  ASSUME NEW h, NEW named, NEW todo, NEW asked \in Asked, Chooses(h, named, todo, asked)
  PROVE  /\ h \in BulkData /\ Accounted(h) /\ h \in BoardData
         /\ h.todo = todo /\ h.did = {} /\ h.asked = asked
<1>1. /\ h = [named |-> named, todo |-> todo, failed |-> named \ todo, did |-> {}, asked |-> asked]
      /\ named \in SUBSET Tasks /\ todo \in SUBSET Tasks
  BY DEF Chooses, Chosen
<1>2. h \in BulkData /\ h.todo = todo /\ h.did = {} /\ h.asked = asked
  <2> HIDE DEF Asked
  <2> QED
    BY <1>1 DEF BulkData
<1> QED
  BY <1>1, <1>2, BoardDataFacts DEF Accounted

\* A request in its bulk steps meets the invariant, if what is said of its
\* tasks holds.
LEMMA BulkHolds ==
  ASSUME NEW y, y.op \in BulkOps, Accounted(y.with),
         y.op = "bulkDelete" => y.step \in {"check", "write", "reply"},
         y.op = "bulkStatus" => y.step \in {"next", "reply"},
         y.op = "bulkAssign" => y.step \in {"check", "clear", "assign", "reply"},
         y.step = "reply" => y.with.todo = {},
         y.op # "bulkStatus" /\ y.step # "reply" => y.with.did = {}
  PROVE  /\ TargetsOK(y) /\ AssignOK(y) => BoardReqOK(y)
         /\ TargetsOK(y)' /\ AssignOK(y)' => BoardReqOK(y)'
<1>1. BulkOK(y)
  BY DEF BulkOK, BulkOps, Accounted
<1>2. /\ TargetsOK(y) /\ AssignOK(y) => BoardReqOK(y)
  BY <1>1 DEF BoardReqOK, NamesOK, EmptyOK, InsertOK, ReviveOK, RemovalOK, EditOK, BulkOps, TaskOps
<1>3. /\ TargetsOK(y)' /\ AssignOK(y)' => BoardReqOK(y)'
  BY <1>1 DEF BoardReqOK, NamesOK, EmptyOK, InsertOK, ReviveOK, RemovalOK, EditOK, BulkOps, TaskOps, BulkOK
<1> QED
  BY <1>2, <1>3

\* What holds of a bulk request before its step.
LEMMA BulkBefore ==
  ASSUME BoardIInv, NEW r \in Requests, NEW x, x = req[r], x.op \in BulkOps
  PROVE  /\ Accounted(x.with) /\ BoardReqOK(x)
         /\ x.step = "reply" => x.with.todo = {}
         /\ x.op # "bulkStatus" /\ x.step # "reply" => x.with.did = {}
BY DEF BoardIInv, BoardReqOK, BulkOK, Accounted

SelectedTasks(todo) == todo \in SUBSET Tasks /\ todo \subseteq Live

LEMMA SelectionTyped ==
  ASSUME NEW named \in SUBSET Tasks, NEW excluded \in SUBSET Tasks, NEW p \in Projects
  PROVE  SelectedTasks(Selection(named, excluded, p))
BY DEF SelectedTasks, Selection, Live

LEMMA AskBulkDeleteKeeps ==
  ASSUME BoardIInv, NEW r \in Requests, AskBulkDelete(r)
  PROVE  BoardIInv'
<1>1. PICK named \in SUBSET Tasks, excluded \in SUBSET Tasks, p \in Projects :
        /\ Ask(r, "bulkDelete", "check", Chosen(named, Selection(named, excluded, p), {}))
        /\ UNCHANGED <<flowVars, task>>
  BY DEF AskBulkDelete
<1>2. PICK todo \in SUBSET Tasks : todo = Selection(named, excluded, p)
  BY SelectionTyped DEF SelectedTasks
<1>3. PICK asked \in Asked : asked = {}
  BY DEF Asked
<1>0. PICK h : h = Chosen(named, todo, asked)
  OBVIOUS
<1>4. /\ h \in BulkData /\ Accounted(h) /\ h \in BoardData
      /\ h.todo = todo /\ h.did = {} /\ h.asked = asked
  <2>1. Chooses(h, named, todo, asked)
    BY <1>0 DEF Chooses
  <2> QED
    BY <2>1, SelectionAccounts
<1>5. PICK op \in Ops, step \in Steps : op = "bulkDelete" /\ step = "check"
  BY DEF Ops, Steps, TaskOps
<1>6. Ask(r, op, step, h) /\ BoardSame
  BY <1>0, <1>1, <1>2, <1>3, <1>5 DEF flowVars, BoardSame
<1>7. ASSUME NEW y \in RequestOf(BoardData), y.op = op, y.step = step, y.with = h, y.over = {}
      PROVE  BoardReqOK(y)
  BY <1>4, <1>5, <1>7, BulkHolds DEF BulkOps, TargetsOK, AssignOK
<1> QED
  BY <1>4, <1>6, <1>7, BoardAskKeeps

LEMMA CheckDeleteKeeps ==
  ASSUME BoardIInv, NEW r \in Requests, CheckDelete(r)
  PROVE  BoardIInv'
<1>1. PICK x : x = req[r]
  OBVIOUS
<1>2. PICK h : h = x.with
  OBVIOUS
<1>3. x.op = "bulkDelete" /\ x.step = "check" /\ BoardSame
  BY <1>1 DEF CheckDelete, At, flowVars, BoardSame
<1>4. Accounted(h) /\ h.did = {} /\ h \in BulkData
  BY <1>1, <1>2, <1>3, BulkBefore DEF BulkOps, Accounted
<1>5. PICK may \in SUBSET (h.todo \intersect Live) :
        GoOn(r, IF may = {} THEN "reply" ELSE "write",
             [h EXCEPT !.todo = may, !.failed = @ \union (h.todo \ may)])
  BY <1>1, <1>2 DEF CheckDelete
<1>6. PICK k : k = [h EXCEPT !.todo = may, !.failed = @ \union (h.todo \ may)]
  OBVIOUS
<1>7. /\ k \in [named : SUBSET Tasks, todo : SUBSET Tasks, failed : SUBSET Tasks, did : SUBSET Tasks,
                asked : {h.asked}]
      /\ k.named = h.named /\ k.asked = h.asked /\ k.todo = may /\ k.did = {}
      /\ k.failed = h.failed \union (h.todo \ may)
  <2> HIDE DEF Asked
  <2> QED
    BY <1>4, <1>5, <1>6 DEF BulkData
<1>8. Accounted(k) /\ k \in BoardData
  <2>1. PICK done, failed : done = {} /\ failed = h.todo \ may
    OBVIOUS
  <2>2. Through(h, k, done, failed)
    BY <1>4, <1>5, <1>7, <2>1 DEF Through
  <2>3. done \in SUBSET h.todo /\ failed \in SUBSET h.todo /\ done \intersect failed = {}
    BY <2>1
  <2> QED
    BY <1>4, <1>7, <2>2, <2>3, ThroughAccounts
<1>9. PICK step \in Steps : step = IF may = {} THEN "reply" ELSE "write"
  BY DEF Steps
<1>10. GoOn(r, step, k)
  BY <1>5, <1>6, <1>9
<1>11. ASSUME NEW y \in RequestOf(BoardData), y.op = req[r].op, y.step = step, y.with = k,
              y.over = req[r].over
       PROVE  BoardReqOK(y)
  BY <1>1, <1>3, <1>7, <1>8, <1>9, <1>11, BulkHolds DEF BulkOps, TargetsOK, AssignOK
<1> QED
  BY <1>3, <1>8, <1>10, <1>11, BoardGoOnKeeps

LEMMA BulkDeleteKeeps ==
  ASSUME BoardIInv, NEW r \in Requests, BulkDelete(r)
  PROVE  BoardIInv'
<1>1. PICK x : x = req[r]
  OBVIOUS
<1>2. PICK h : h = x.with
  OBVIOUS
<1>3. x.op = "bulkDelete" /\ x.step = "write" /\ UNCHANGED <<flow, stat, uses>>
  BY <1>1 DEF BulkDelete, At, flowVars
<1>4. Accounted(h) /\ h.did = {} /\ h \in BulkData
  BY <1>1, <1>2, <1>3, BulkBefore DEF BulkOps, Accounted
<1>5. PICK k : k = [h EXCEPT !.did = @ \union h.todo, !.todo = {}]
  OBVIOUS
<1>6. /\ k \in [named : SUBSET Tasks, todo : SUBSET Tasks, failed : SUBSET Tasks, did : SUBSET Tasks,
                asked : {h.asked}]
      /\ k.named = h.named /\ k.asked = h.asked /\ k.todo = {} /\ k.did = h.did \union h.todo
      /\ k.failed = h.failed
  <2> HIDE DEF Asked
  <2> QED
    BY <1>4, <1>5 DEF BulkData
<1>7. Accounted(k) /\ k \in BoardData
  <2>1. PICK done, failed : done = h.todo /\ failed = {}
    OBVIOUS
  <2>2. Through(h, k, done, failed)
    BY <1>6, <2>1 DEF Through
  <2>3. done \in SUBSET h.todo /\ failed \in SUBSET h.todo /\ done \intersect failed = {}
    BY <2>1
  <2> QED
    BY <1>4, <1>6, <2>2, <2>3, ThroughAccounts
<1>8. PICK step \in Steps : step = "reply"
  BY DEF Steps
<1>9. CommitAnd(r, step, k)
  BY <1>1, <1>2, <1>5, <1>8 DEF BulkDelete
<1>10. BoardFramed({req[r].op}) /\ Tables' /\ Belongs' /\ Counts'
  <2>1. PICK w : w = {x.op}
    OBVIOUS
  <2>2. w \intersect Assigners # {}
    BY <1>3, <2>1 DEF Assigners
  <2>3. PICK ts : ts = h.todo \intersect Live
    OBVIOUS
  <2>4. ts \in SUBSET Tasks /\ \A t \in ts : task[t].state # "none"
    BY <2>3 DEF Live
  <2>5. task' = Without(ts)
    BY <1>1, <1>2, <2>3 DEF BulkDelete
  <2>6. BoardFramed(w) /\ Tables' /\ Belongs' /\ Counts'
    BY <1>3, <2>2, <2>4, <2>5, DeletionsWritten
  <2> QED
    BY <1>1, <2>1, <2>6
<1>11. ASSUME NEW y \in RequestOf(BoardData), y.op = req[r].op, y.step = step, y.with = k,
              y.over = req[r].over
       PROVE  BoardReqOK(y)'
  BY <1>1, <1>3, <1>6, <1>7, <1>8, <1>11, BulkHolds DEF BulkOps, TargetsOK, AssignOK
<1> QED
  BY <1>7, <1>9, <1>10, <1>11, BoardCommitAndKeeps


LEMMA TargetsTyped ==
  ASSUME BoardIInv, NEW t, NEW target, NEW to \in Targets(t, target)
  PROVE  /\ to \in Target /\ Known(to.id) /\ to.done = stat[to.id].done
         /\ stat[to.id].flow = uses[task[t].prj]
<1>1. PICK s \in Rows(uses[task[t].prj]) : to = [id |-> s, done |-> stat[s].done]
  BY DEF Targets
<1>2. s \in Statuses /\ Known(s) /\ stat[s].flow = uses[task[t].prj]
  BY DEF Rows
<1>3. PICK done \in BOOLEAN : done = stat[s].done
  BY <1>2 DEF BoardIInv, BoardTyped, Tables, StatRow
<1> QED
  BY <1>1, <1>2, <1>3 DEF Target

LEMMA AskBulkStatusKeeps ==
  ASSUME BoardIInv, NEW r \in Requests, AskBulkStatus(r)
  PROVE  BoardIInv'
<1>1. PICK named \in SUBSET Tasks, excluded \in SUBSET Tasks, p \in Projects,
           target \in Statuses \union {NoTarget} :
        LET todo == Selection(named, excluded, p) IN
        /\ Ask(r, "bulkStatus", IF todo = {} THEN "reply" ELSE "next",
               Chosen(named, todo, [t \in todo |-> Targets(t, target)]))
        /\ UNCHANGED <<flowVars, task>>
  BY DEF AskBulkStatus
<1>2. PICK todo \in SUBSET Tasks : todo = Selection(named, excluded, p) /\ todo \subseteq Live
  BY SelectionTyped DEF SelectedTasks
<1>3. PICK asked : asked = [t \in todo |-> Targets(t, target)]
  OBVIOUS
<1>4. ASSUME NEW t \in todo, NEW to \in asked[t]
      PROVE  /\ to \in Target /\ Known(to.id) /\ to.done = stat[to.id].done
             /\ stat[to.id].flow = uses[task[t].prj]
  <2>1. to \in Targets(t, target)
    BY <1>3
  <2> QED
    BY <2>1, TargetsTyped
<1>5. asked \in Asked
  <2>1. asked \in [todo -> SUBSET Target]
    <3>1. \A t \in todo : asked[t] \in SUBSET Target
      BY <1>4
    <3>2. asked = [t \in todo |-> asked[t]]
      BY <1>3
    <3> QED
      BY <3>1, <3>2
  <2> QED
    BY <2>1 DEF Asked
<1>6. PICK h : h = Chosen(named, todo, asked)
  OBVIOUS
<1>7. /\ h \in BulkData /\ Accounted(h) /\ h \in BoardData
      /\ h.todo = todo /\ h.did = {} /\ h.asked = asked
  <2>1. PICK a \in Asked : a = asked
    BY <1>5
  <2>2. Chooses(h, named, todo, a)
    BY <1>6, <2>1 DEF Chooses
  <2> QED
    BY <2>1, <2>2, SelectionAccounts
<1>8. PICK op \in Ops, step \in Steps : op = "bulkStatus" /\ step = IF todo = {} THEN "reply" ELSE "next"
  BY DEF Ops, Steps, TaskOps
<1>9. Ask(r, op, step, h) /\ BoardSame
  BY <1>1, <1>2, <1>3, <1>6, <1>8 DEF flowVars, BoardSame
<1>10. ASSUME NEW y \in RequestOf(BoardData), y.op = op, y.step = step, y.with = h, y.over = {}
       PROVE  BoardReqOK(y)
  <2>1. TargetsOK(y)
    BY <1>2, <1>3, <1>4, <1>7, <1>10 DEF TargetsOK, Known, Live
  <2>2. AssignOK(y)
    BY <1>8, <1>10 DEF AssignOK
  <2> QED
    BY <1>7, <1>8, <1>10, <2>1, <2>2, BulkHolds DEF BulkOps
<1> QED
  BY <1>7, <1>9, <1>10, BoardAskKeeps

\* One of the tasks to be done is through.
OneIsThrough(h, k, t, done) ==
  /\ t \in h.todo /\ done \subseteq {t}
  /\ k = [h EXCEPT !.todo = @ \ {t}, !.did = @ \union done, !.failed = @ \union ({t} \ done)]

LEMMA OneThrough ==
  ASSUME NEW h, Accounted(h), NEW t, NEW done, NEW k, OneIsThrough(h, k, t, done)
  PROVE  /\ Accounted(k) /\ k \in BoardData /\ k.todo = h.todo \ {t} /\ k.asked = h.asked
<1>1. /\ k \in [named : SUBSET Tasks, todo : SUBSET Tasks, failed : SUBSET Tasks, did : SUBSET Tasks,
                asked : {h.asked}]
      /\ k.named = h.named /\ k.asked = h.asked /\ k.todo = h.todo \ {t} /\ k.did = h.did \union done
      /\ k.failed = h.failed \union ({t} \ done)
  <2> HIDE DEF Asked
  <2> QED
    BY DEF Accounted, BulkData, OneIsThrough
<1>2. PICK failed : failed = {t} \ done
  OBVIOUS
<1>3. /\ Through(h, k, done, failed) /\ done \in SUBSET h.todo /\ failed \in SUBSET h.todo
      /\ done \intersect failed = {}
  BY <1>1, <1>2 DEF Through, OneIsThrough
<1>4. Accounted(k) /\ k \in BoardData
  BY <1>1, <1>3, ThroughAccounts
<1> QED
  BY <1>1, <1>4

LEMMA NextStatusKeeps ==
  ASSUME BoardIInv, NEW r \in Requests, NextStatus(r)
  PROVE  BoardIInv'
<1>1. PICK x : x = req[r]
  OBVIOUS
<1>2. PICK h : h = x.with
  OBVIOUS
<1>3. x.op = "bulkStatus" /\ x.step = "next" /\ UNCHANGED <<flow, stat, uses>>
  BY <1>1 DEF NextStatus, At, flowVars
<1>4. Accounted(h) /\ h \in BulkData /\ TargetsOK(x)
  BY <1>1, <1>2, <1>3, BulkBefore DEF BulkOps, Accounted, BoardReqOK
<1>5. ASSUME NEW t \in h.todo, NEW to \in h.asked[t], t \in Live, Known(to.id),
             task' = [task EXCEPT ![t].status = to.id, ![t].stamped = to.done],
             CommitAnd(r, IF h.todo = {t} THEN "reply" ELSE "next",
                       [h EXCEPT !.todo = @ \ {t}, !.did = @ \union {t}])
      PROVE  BoardIInv'
  <2>1. PICK k, done : done = {t} /\ k = [h EXCEPT !.todo = @ \ {t}, !.did = @ \union {t}]
    OBVIOUS
  <2>2. k = [h EXCEPT !.todo = @ \ {t}, !.did = @ \union done, !.failed = @ \union ({t} \ done)]
    BY <1>4, <2>1 DEF BulkData
  <2>3. Accounted(k) /\ k \in BoardData /\ k.todo = h.todo \ {t} /\ k.asked = h.asked
    <3>1. OneIsThrough(h, k, t, done)
      BY <2>1, <2>2 DEF OneIsThrough
    <3> QED
      BY <1>4, <3>1, OneThrough
  <2>4. to \in Target
    BY <1>2, <1>3, <1>4 DEF TargetsOK
  <2>5. /\ task \in [Tasks -> TaskRow] /\ \A u \in Live : Known(task[u].status)
        /\ t \in Tasks
    BY <1>5 DEF BoardIInv, BoardTyped, Tables, Belongs, Live
  <2>6. /\ task' \in [Tasks -> TaskRow]
        /\ task'[t].state = "live" /\ task'[t].prj = task[t].prj /\ task'[t].who = task[t].who
        /\ task'[t].status = to.id
        /\ \A u \in Tasks \ {t} : task'[u] = task[u]
    BY ZenonT(30), <1>5, <2>4, <2>5 DEF TaskRow, Target, Live
  <2>7. PICK w : w = {x.op}
    OBVIOUS
  <2>8. w \intersect Fillers # {} /\ w \intersect Placers = {} /\ w \intersect Recoders = {}
    BY <1>3, <2>7 DEF Fillers, Placers, Recoders
  <2>9. ASSUME NEW u \in Tasks
        PROVE  TaskWritten(w, u)
    BY <1>5, <2>5, <2>6, <2>8 DEF TaskWritten, Live
  <2>10. BoardFramed(w) /\ Tables' /\ Belongs' /\ Counts'
    BY <1>3, <2>6, <2>9, TasksWritten
  <2>11. PICK step \in Steps : step = IF h.todo = {t} THEN "reply" ELSE "next"
    BY DEF Steps
  <2>12. CommitAnd(r, step, k)
    BY <1>5, <2>1, <2>11
  <2>13. ASSUME NEW y \in RequestOf(BoardData), y.op = req[r].op, y.step = step, y.with = k,
                y.over = req[r].over
         PROVE  BoardReqOK(y)'
    <3>1. TargetsOK(y)'
      <4>1. \A u \in Live' : u \in Live /\ task'[u].prj = task[u].prj
        BY <1>5, <2>6 DEF Live
      <4>2. \A u \in k.todo : u \in h.todo /\ u \in Tasks
        BY <1>4, <2>3 DEF BulkData
      <4>3. \A u \in Tasks : task[u].state # "none" => task'[u].state # "none"
        BY <2>6
      <4> HIDE DEF Live
      <4> QED
        BY <1>1, <1>2, <1>3, <1>4, <2>3, <2>13, <4>1, <4>2, <4>3 DEF TargetsOK
    <3>2. AssignOK(y)'
      BY <1>1, <1>3, <2>13 DEF AssignOK
    <3> QED
      BY <1>1, <1>3, <2>3, <2>11, <2>13, <3>1, <3>2, BulkHolds DEF BulkOps
  <2>14. BoardFramed({req[r].op})
    BY <1>1, <2>7, <2>10
  <2> QED
    BY <2>3, <2>10, <2>12, <2>13, <2>14, BoardCommitAndKeeps
<1>6. ASSUME NEW t \in h.todo, UNCHANGED task,
             GoOn(r, IF h.todo = {t} THEN "reply" ELSE "next",
                  [h EXCEPT !.todo = @ \ {t}, !.failed = @ \union {t}])
      PROVE  BoardIInv'
  <2>1. PICK k, done : done = {} /\ k = [h EXCEPT !.todo = @ \ {t}, !.failed = @ \union {t}]
    OBVIOUS
  <2>2. k = [h EXCEPT !.todo = @ \ {t}, !.did = @ \union done, !.failed = @ \union ({t} \ done)]
    BY <1>4, <2>1 DEF BulkData
  <2>3. Accounted(k) /\ k \in BoardData /\ k.todo = h.todo \ {t} /\ k.asked = h.asked
    <3>1. OneIsThrough(h, k, t, done)
      BY <2>1, <2>2 DEF OneIsThrough
    <3> QED
      BY <1>4, <3>1, OneThrough
  <2>4. PICK step \in Steps : step = IF h.todo = {t} THEN "reply" ELSE "next"
    BY DEF Steps
  <2>5. GoOn(r, step, k) /\ BoardSame
    BY <1>3, <1>6, <2>1, <2>4 DEF BoardSame
  <2>6. ASSUME NEW y \in RequestOf(BoardData), y.op = req[r].op, y.step = step, y.with = k,
               y.over = req[r].over
        PROVE  BoardReqOK(y)
    <3>1. TargetsOK(y)
      BY <1>1, <1>2, <1>3, <1>4, <2>3, <2>6 DEF TargetsOK
    <3>2. AssignOK(y)
      BY <1>1, <1>3, <2>6 DEF AssignOK
    <3> QED
      BY <1>1, <1>3, <2>3, <2>4, <2>6, <3>1, <3>2, BulkHolds DEF BulkOps
  <2> QED
    BY <2>3, <2>5, <2>6, BoardGoOnKeeps
<1>7. \/ \E t \in h.todo : \E to \in h.asked[t] :
           /\ t \in Live /\ Known(to.id)
           /\ task' = [task EXCEPT ![t].status = to.id, ![t].stamped = to.done]
           /\ CommitAnd(r, IF h.todo = {t} THEN "reply" ELSE "next",
                        [h EXCEPT !.todo = @ \ {t}, !.did = @ \union {t}])
      \/ \E t \in h.todo :
           /\ GoOn(r, IF h.todo = {t} THEN "reply" ELSE "next",
                   [h EXCEPT !.todo = @ \ {t}, !.failed = @ \union {t}])
           /\ UNCHANGED task
  BY <1>1, <1>2 DEF NextStatus
<1> QED
  BY <1>5, <1>6, <1>7


LEMMA AskBulkAssignKeeps ==
  ASSUME BoardIInv, NEW r \in Requests, AskBulkAssign(r)
  PROVE  BoardIInv'
<1>1. PICK named \in SUBSET Tasks, excluded \in SUBSET Tasks, p \in Projects, who \in SUBSET Users :
        /\ Ask(r, "bulkAssign", "check", Chosen(named, Selection(named, excluded, p), who))
        /\ UNCHANGED <<flowVars, task>>
  BY DEF AskBulkAssign
<1>2. PICK todo \in SUBSET Tasks : todo = Selection(named, excluded, p)
  BY SelectionTyped DEF SelectedTasks
<1>3. PICK asked \in Asked : asked = who
  BY DEF Asked
<1>4. PICK h : h = Chosen(named, todo, asked)
  OBVIOUS
<1>5. /\ h \in BulkData /\ Accounted(h) /\ h \in BoardData
      /\ h.todo = todo /\ h.did = {} /\ h.asked = asked
  <2>1. Chooses(h, named, todo, asked)
    BY <1>4 DEF Chooses
  <2> QED
    BY <2>1, SelectionAccounts
<1>6. PICK op \in Ops, step \in Steps : op = "bulkAssign" /\ step = "check"
  BY DEF Ops, Steps, TaskOps
<1>7. Ask(r, op, step, h) /\ BoardSame
  BY <1>1, <1>2, <1>3, <1>4, <1>6 DEF flowVars, BoardSame
<1>8. ASSUME NEW y \in RequestOf(BoardData), y.op = op, y.step = step, y.with = h, y.over = {}
      PROVE  BoardReqOK(y)
  <2>1. AssignOK(y)
    BY <1>3, <1>5, <1>6, <1>8 DEF AssignOK
  <2> QED
    BY <1>5, <1>6, <1>8, <2>1, BulkHolds DEF BulkOps, TargetsOK
<1> QED
  BY <1>5, <1>7, <1>8, BoardAskKeeps

LEMMA CheckAssignKeeps ==
  ASSUME BoardIInv, NEW r \in Requests, CheckAssign(r)
  PROVE  BoardIInv'
<1>1. PICK x : x = req[r]
  OBVIOUS
<1>2. PICK h : h = x.with
  OBVIOUS
<1>3. x.op = "bulkAssign" /\ x.step = "check" /\ BoardSame
  BY <1>1 DEF CheckAssign, At, flowVars, BoardSame
<1>4. Accounted(h) /\ h.did = {} /\ h \in BulkData /\ h.asked \subseteq Users
  BY <1>1, <1>2, <1>3, BulkBefore DEF BulkOps, Accounted, BoardReqOK, AssignOK
<1>5. ASSUME NEW may \in SUBSET h.todo, h.todo \subseteq Live,
             GoOn(r, IF may = {} THEN "reply" ELSE "clear",
                  [h EXCEPT !.todo = may, !.failed = @ \union (h.todo \ may)])
      PROVE  BoardIInv'
  <2>1. PICK k : k = [h EXCEPT !.todo = may, !.failed = @ \union (h.todo \ may)]
    OBVIOUS
  <2>2. /\ k \in [named : SUBSET Tasks, todo : SUBSET Tasks, failed : SUBSET Tasks, did : SUBSET Tasks,
                  asked : {h.asked}]
        /\ k.named = h.named /\ k.asked = h.asked /\ k.todo = may /\ k.did = {}
        /\ k.failed = h.failed \union (h.todo \ may)
    <3> HIDE DEF Asked
    <3> QED
      BY <1>4, <1>5, <2>1 DEF BulkData
  <2>3. Accounted(k) /\ k \in BoardData
    <3>1. PICK done, failed : done = {} /\ failed = h.todo \ may
      OBVIOUS
    <3>2. Through(h, k, done, failed)
      BY <1>4, <1>5, <2>2, <3>1 DEF Through
    <3>3. done \in SUBSET h.todo /\ failed \in SUBSET h.todo /\ done \intersect failed = {}
      BY <3>1
    <3> QED
      BY <1>4, <2>2, <3>2, <3>3, ThroughAccounts
  <2>4. PICK step \in Steps : step = IF may = {} THEN "reply" ELSE "clear"
    BY DEF Steps
  <2>5. GoOn(r, step, k)
    BY <1>5, <2>1, <2>4
  <2>6. ASSUME NEW y \in RequestOf(BoardData), y.op = req[r].op, y.step = step, y.with = k,
               y.over = req[r].over
        PROVE  BoardReqOK(y)
    <3>1. AssignOK(y)
      BY <1>4, <1>5, <2>2, <2>4, <2>6 DEF AssignOK
    <3> QED
      BY <1>1, <1>3, <2>2, <2>3, <2>4, <2>6, <3>1, BulkHolds DEF BulkOps, TargetsOK
  <2> QED
    BY <1>3, <2>3, <2>5, <2>6, BoardGoOnKeeps
<1>6. \/ \E may \in SUBSET h.todo :
           /\ h.todo \subseteq Live
           /\ GoOn(r, IF may = {} THEN "reply" ELSE "clear",
                   [h EXCEPT !.todo = may, !.failed = @ \union (h.todo \ may)])
      \/ Answer(r)
  BY <1>1, <1>2 DEF CheckAssign
<1> QED
  BY <1>3, <1>5, <1>6, BoardAnswerKeeps

\* Assignees written on some tasks, with the rest of their rows left alone.
LEMMA AssigneesWritten ==
  ASSUME BoardIInv, NEW op \in {"bulkAssign"}, UNCHANGED <<flow, stat, uses>>,
         NEW ts \in SUBSET Tasks, NEW who \in [ts -> SUBSET Users],
         task' = [t \in Tasks |-> IF t \in ts THEN [task[t] EXCEPT !.who = who[t]] ELSE task[t]]
  PROVE  /\ BoardFramed({op}) /\ Tables' /\ Belongs' /\ Counts' /\ Live' = Live
         /\ \A t \in ts : task'[t].who = who[t]
<1>1. task \in [Tasks -> TaskRow] /\ \A t \in Live : Known(task[t].status)
  BY DEF BoardIInv, BoardTyped, Tables, Belongs
<1>2. task' \in [Tasks -> TaskRow]
  BY <1>1 DEF TaskRow
<1>3. ASSUME NEW t \in Tasks
      PROVE  /\ task'[t].state = task[t].state /\ task'[t].prj = task[t].prj
             /\ task'[t].status = task[t].status
             /\ t \in ts => task'[t].who = who[t]
  BY <1>1 DEF TaskRow
<1>4. PICK w : w = {op}
  OBVIOUS
<1>5. w \intersect Assigners # {}
  BY <1>4 DEF Assigners
<1>6. ASSUME NEW t \in Tasks
      PROVE  TaskWritten(w, t)
  <2>1. task[t].state = "live" => Known(task[t].status)
    BY <1>1 DEF Live
  <2> QED
    BY <1>3, <1>5, <2>1 DEF TaskWritten
<1>7. BoardFramed(w) /\ Tables' /\ Belongs' /\ Counts'
  BY <1>2, <1>6, TasksWritten
<1>8. Live' = Live
  BY <1>3 DEF Live
<1> QED
  BY <1>3, <1>4, <1>7, <1>8


\* What becomes of a request whose assignments are stored.
AllAssigned(h, k) == k = [h EXCEPT !.did = h.todo, !.todo = {}]

LEMMA AllAssignedAccounts ==
  ASSUME NEW h, NEW k, Accounted(h), h.did = {}, AllAssigned(h, k)
  PROVE  Accounted(k) /\ k \in BoardData /\ k.todo = {} /\ k.asked = h.asked
<1>1. /\ k \in [named : SUBSET Tasks, todo : SUBSET Tasks, failed : SUBSET Tasks, did : SUBSET Tasks,
                asked : {h.asked}]
      /\ k.named = h.named /\ k.asked = h.asked /\ k.todo = {} /\ k.did = h.todo
      /\ k.failed = h.failed
  <2> HIDE DEF Asked
  <2> QED
    BY DEF Accounted, BulkData, AllAssigned
<1>2. PICK done, failed : done = h.todo /\ failed = {}
  OBVIOUS
<1>3. /\ Through(h, k, done, failed)
      /\ done \in SUBSET h.todo /\ failed \in SUBSET h.todo /\ done \intersect failed = {}
  BY <1>1, <1>2 DEF Through
<1>4. Accounted(k) /\ k \in BoardData
  BY <1>1, <1>3, ThroughAccounts
<1> QED
  BY <1>1, <1>4

LEMMA ClearAssigneesKeeps ==
  ASSUME BoardIInv, NEW r \in Requests, ClearAssignees(r)
  PROVE  BoardIInv'
<1>1. PICK x : x = req[r]
  OBVIOUS
<1>2. PICK h : h = x.with
  OBVIOUS
<1>3. x.op = "bulkAssign" /\ x.step = "clear" /\ UNCHANGED <<flow, stat, uses>>
  BY <1>1 DEF ClearAssignees, At, flowVars
<1>4. Accounted(h) /\ h.did = {} /\ h \in BulkData /\ AssignOK(x) /\ h.asked \subseteq Users
  BY <1>1, <1>2, <1>3, BulkBefore DEF BulkOps, Accounted, BoardReqOK, AssignOK
<1>5. PICK ts \in SUBSET Tasks : ts = h.todo \intersect Live
  BY DEF Live
<1>6. PICK who \in [ts -> SUBSET Users] : who = [t \in ts |-> {}]
  OBVIOUS
<1>7. task' = [t \in Tasks |-> IF t \in ts THEN [task[t] EXCEPT !.who = who[t]] ELSE task[t]]
  BY <1>1, <1>2, <1>5, <1>6 DEF ClearAssignees
<1>8. PICK op \in {"bulkAssign"} : op = x.op
  BY <1>3
<1>9. /\ BoardFramed({op}) /\ Tables' /\ Belongs' /\ Counts' /\ Live' = Live
      /\ \A t \in ts : task'[t].who = who[t]
  BY <1>3, <1>7, AssigneesWritten
<1>10. PICK k : k = IF h.asked = {} THEN [h EXCEPT !.did = h.todo, !.todo = {}] ELSE h
  OBVIOUS
<1>11. PICK step \in Steps : step = IF h.asked = {} THEN "reply" ELSE "assign"
  BY DEF Steps
<1>12. /\ Accounted(k) /\ k \in BoardData /\ k.asked = h.asked
       /\ step = "reply" => k.todo = {}
       /\ step = "assign" => k = h
  <2>1. CASE h.asked = {}
    <3>1. AllAssigned(h, k)
      BY <1>10, <2>1 DEF AllAssigned
    <3> QED
      BY <1>4, <1>11, <2>1, <3>1, AllAssignedAccounts
  <2>2. CASE h.asked # {}
    <3>1. k = h /\ step = "assign"
      BY <1>10, <1>11, <2>2
    <3> QED
      BY <1>4, <3>1, BoardDataFacts
  <2> QED
    BY <2>1, <2>2
<1>13. CommitAnd(r, step, k)
  BY <1>1, <1>2, <1>10, <1>11 DEF ClearAssignees
<1>14. ASSUME NEW y \in RequestOf(BoardData), y.op = req[r].op, y.step = step, y.with = k,
              y.over = req[r].over
       PROVE  BoardReqOK(y)'
  <2>1. ASSUME step = "assign", y.over \intersect Assigners = {}
        PROVE  h.todo \subseteq Live' /\ \A t \in h.todo : task'[t].who = {}
    <3>1. h.todo \subseteq Live
      BY <1>1, <1>2, <1>3, <1>4, <1>14, <2>1 DEF AssignOK
    <3> QED
      BY <1>5, <1>6, <1>9, <3>1
  <2>2. AssignOK(y)'
    BY <1>4, <1>11, <1>12, <1>14, <2>1 DEF AssignOK
  <2>3. k.did = {} \/ step = "reply"
    BY <1>4, <1>11, <1>12
  <2> QED
    BY <1>1, <1>3, <1>11, <1>12, <1>14, <2>2, <2>3, BulkHolds DEF BulkOps, TargetsOK
<1>15. BoardFramed({req[r].op})
  BY <1>1, <1>8, <1>9
<1> QED
  BY <1>9, <1>12, <1>13, <1>14, <1>15, BoardCommitAndKeeps

LEMMA AssignKeeps ==
  ASSUME BoardIInv, NEW r \in Requests, Assign(r)
  PROVE  BoardIInv'
<1>1. PICK x : x = req[r]
  OBVIOUS
<1>2. PICK h : h = x.with
  OBVIOUS
<1>3. x.op = "bulkAssign" /\ x.step = "assign" /\ UNCHANGED <<flow, stat, uses>>
  BY <1>1 DEF Assign, At, flowVars
<1>4. Accounted(h) /\ h.did = {} /\ h \in BulkData /\ h.asked \subseteq Users
  BY <1>1, <1>2, <1>3, BulkBefore DEF BulkOps, Accounted, BoardReqOK, AssignOK
<1>5. CASE \A t \in h.todo : t \in Live /\ task[t].who \intersect h.asked = {}
  <2>1. PICK ts \in SUBSET Tasks : ts = h.todo
    BY <1>5 DEF Live
  <2>2. \A t \in ts : task[t].who \subseteq Users
    BY <2>1 DEF BoardIInv, BoardTyped, Tables, TaskRow
  <2>3. PICK who \in [ts -> SUBSET Users] : who = [t \in ts |-> task[t].who \union h.asked]
    BY <1>4, <2>2
  <2>4. /\ task' = [t \in Tasks |-> IF t \in h.todo THEN [task[t] EXCEPT !.who = @ \union h.asked]
                                                    ELSE task[t]]
        /\ CommitAnd(r, "reply", [h EXCEPT !.did = h.todo, !.todo = {}])
    BY <1>1, <1>2, <1>5 DEF Assign
  <2>5. task' = [t \in Tasks |-> IF t \in ts THEN [task[t] EXCEPT !.who = who[t]] ELSE task[t]]
    <3>1. \A t \in ts : [task[t] EXCEPT !.who = @ \union h.asked] = [task[t] EXCEPT !.who = who[t]]
      BY <2>1, <2>3 DEF BoardIInv, BoardTyped, Tables, TaskRow
    <3> QED
      BY <2>1, <2>4, <3>1
  <2>6. PICK op \in {"bulkAssign"} : op = x.op
    BY <1>3
  <2>7. BoardFramed({op}) /\ Tables' /\ Belongs' /\ Counts'
    BY <1>3, <2>5, AssigneesWritten
  <2>8. PICK k : AllAssigned(h, k)
    BY DEF AllAssigned
  <2>9. Accounted(k) /\ k \in BoardData /\ k.todo = {} /\ k.asked = h.asked
    BY <1>4, <2>8, AllAssignedAccounts
  <2>10. PICK step \in Steps : step = "reply"
    BY DEF Steps
  <2>11. CommitAnd(r, step, k)
    BY <2>4, <2>8, <2>10 DEF AllAssigned
  <2>12. ASSUME NEW y \in RequestOf(BoardData), y.op = req[r].op, y.step = step, y.with = k,
                y.over = req[r].over
         PROVE  BoardReqOK(y)'
    <3>1. AssignOK(y)'
      BY <1>4, <2>9, <2>10, <2>12 DEF AssignOK
    <3> QED
      BY <1>1, <1>3, <2>9, <2>10, <2>12, <3>1, BulkHolds DEF BulkOps, TargetsOK
  <2>13. BoardFramed({req[r].op})
    BY <1>1, <2>6, <2>7
  <2> QED
    BY <2>7, <2>9, <2>11, <2>12, <2>13, BoardCommitAndKeeps
<1>6. CASE ~(\A t \in h.todo : t \in Live /\ task[t].who \intersect h.asked = {})
  <2>1. Answer(r) /\ BoardSame
    BY <1>1, <1>2, <1>3, <1>6 DEF Assign, BoardSame
  <2> QED
    BY <2>1, BoardAnswerKeeps
<1> QED
  BY <1>5, <1>6

LEMMA ReplyKeeps ==
  ASSUME BoardIInv, NEW r \in Requests, Reply(r)
  PROVE  BoardIInv'
<1>1. Answer(r) /\ BoardSame
  BY DEF Reply, flowVars, BoardSame
<1> QED
  BY <1>1, BoardAnswerKeeps


-----------------------------------------------------------------------------
\* The invariant of the workflows and the tasks, and what it is for.

TaskNext == \E r \in Requests : TaskStep(r) /\ UNCHANGED mix

LEMMA BoardStutterKeeps == ASSUME BoardIInv, UNCHANGED boardVars PROVE BoardIInv'
<1>1. req' = req /\ BoardSame
  BY DEF boardVars, BoardSame
<1>2. BoardFramed({}) /\ Tables' /\ Belongs' /\ Counts'
  BY <1>1, BoardSameFacts
<1>3. ASSUME NEW r \in Requests
      PROVE  BoardReqOK(req[r])'
  <2>1. PICK x : x = req[r] /\ x = req'[r]
    BY <1>1
  <2>2. PICK w : w = {}
    OBVIOUS
  <2>3. Left(x, x, w)
    BY <1>2, <2>1, <2>2 DEF Left, BoardIInv, BoardTyped
  <2>4. BoardReqOK(x)'
    BY <2>3, RequestLeft
  <2>5. BoardReqOK(req[r])' <=> BoardReqOK(x)'
    BY <2>1
  <2> QED
    BY <2>4, <2>5
<1> QED
  BY <1>1, <1>2, <1>3 DEF BoardIInv, BoardTyped

LEMMA BoardNextKeeps == BoardIInv /\ [TaskNext]_boardVars => BoardIInv'
<1> SUFFICES ASSUME BoardIInv, [TaskNext]_boardVars PROVE BoardIInv'
  OBVIOUS
<1>1. CASE UNCHANGED boardVars
  BY <1>1, BoardStutterKeeps
<1>2. ASSUME NEW r \in Requests, TaskStep(r)
      PROVE  BoardIInv'
  <2>1. CASE FlowStep(r) /\ UNCHANGED task
    BY <2>1, AskCreateWorkflowKeeps, CreateWorkflowKeeps, AskMakeDefaultKeeps, MakeDefaultKeeps,
       ClearDefaultKeeps, SwitchWorkflowKeeps, AskCreateStatusKeeps, AskStatusFromProjectKeeps,
       InsertStatusKeeps, ReviveStatusKeeps, UpdateStatusKeeps, UpdatePositionsKeeps,
       AskRemoveStatusKeeps, RemoveStatusKeeps, AskRestoreStatusKeeps, RestoreStatusKeeps
       DEF FlowStep
  <2>2. CASE (\E w \in Workflows : Counted(w) = {} /\ AskRemoveWorkflow(r, w)) /\ UNCHANGED task
    BY <2>2, AskRemoveWorkflowKeeps
  <2>3. CASE DeleteWorkflow(r)
    BY <2>3, DeleteWorkflowKeeps
  <2>4. CASE AskCreateTask(r) \/ CreateTask(r) \/ AskBulkCreate(r) \/ BulkCreate(r)
    BY <2>4, AskCreateTaskKeeps, InsertKeeps
  <2>5. CASE AskUpdateTask(r) \/ UpdateTask(r) \/ AskRemoveTask(r) \/ RemoveTask(r)
    BY <2>5, AskUpdateTaskKeeps, UpdateTaskKeeps, AskRemoveTaskKeeps, RemoveTaskKeeps
  <2>6. CASE AskBulkDelete(r) \/ CheckDelete(r) \/ BulkDelete(r) \/ AskBulkStatus(r) \/ NextStatus(r)
    BY <2>6, AskBulkDeleteKeeps, CheckDeleteKeeps, BulkDeleteKeeps, AskBulkStatusKeeps,
       NextStatusKeeps
  <2>7. CASE AskBulkAssign(r) \/ CheckAssign(r) \/ ClearAssignees(r) \/ Assign(r) \/ Reply(r)
    BY <2>7, AskBulkAssignKeeps, CheckAssignKeeps, ClearAssigneesKeeps, AssignKeeps, ReplyKeeps
  <2> QED
    BY <1>2, <2>1, <2>2, <2>3, <2>4, <2>5, <2>6, <2>7 DEF TaskStep
<1> QED
  BY <1>1, <1>2 DEF TaskNext

LEMMA BoardStepMoves ==
  ASSUME BoardIInv, NEW r \in Requests, TaskStep(r)
  PROVE  OnlyMoves(r)
<1>1. PICK D : D = BoardData
  OBVIOUS
<1>2. req \in [Requests -> RequestOf(D)]
  BY <1>1 DEF BoardIInv, BoardTyped
<1>3. /\ \A op, step, with : Ask(r, op, step, with) => OnlyMoves(r)
      /\ \A step, with : GoOn(r, step, with) => OnlyMoves(r)
      /\ \A step, with : CommitAnd(r, step, with) => OnlyMoves(r)
      /\ \A op : Once(r, op) => OnlyMoves(r)
      /\ Answer(r) => OnlyMoves(r)
      /\ Commit(r) => OnlyMoves(r)
  BY <1>2, HandlersOnlyMove
<1>4. AskCreateWorkflow(r) \/ CreateWorkflow(r) \/ AskMakeDefault(r) \/ MakeDefault(r)
      \/ ClearDefault(r) \/ SwitchWorkflow(r) => OnlyMoves(r)
  BY <1>3, Zenon DEF AskCreateWorkflow, CreateWorkflow, AskMakeDefault, MakeDefault, ClearDefault,
     SwitchWorkflow
<1>5. AskCreateStatus(r) \/ AskStatusFromProject(r) \/ InsertStatus(r) \/ ReviveStatus(r)
      => OnlyMoves(r)
  BY <1>3, Zenon DEF AskCreateStatus, AskStatusFromProject, InsertStatus, ReviveStatus, Store
<1>6. UpdateStatus(r) \/ UpdatePositions(r) \/ AskRemoveStatus(r) \/ RemoveStatus(r)
      \/ AskRestoreStatus(r) \/ RestoreStatus(r) => OnlyMoves(r)
  BY <1>3, Zenon DEF UpdateStatus, UpdatePositions, AskRemoveStatus, RemoveStatus, AskRestoreStatus,
     RestoreStatus
<1>7. (\E w \in Workflows : AskRemoveWorkflow(r, w)) \/ DeleteWorkflow(r) => OnlyMoves(r)
  BY <1>3, Zenon DEF AskRemoveWorkflow, DeleteWorkflow, RemoveWorkflow
<1>8. AskCreateTask(r) \/ CreateTask(r) \/ AskBulkCreate(r) \/ BulkCreate(r) => OnlyMoves(r)
  BY <1>3, Zenon DEF AskCreateTask, CreateTask, AskBulkCreate, BulkCreate, Insert
<1>9. AskUpdateTask(r) \/ UpdateTask(r) \/ AskRemoveTask(r) \/ RemoveTask(r) => OnlyMoves(r)
  BY <1>3, Zenon DEF AskUpdateTask, UpdateTask, AskRemoveTask, RemoveTask
<1>10. AskBulkDelete(r) \/ CheckDelete(r) \/ BulkDelete(r) \/ AskBulkStatus(r) \/ NextStatus(r)
       => OnlyMoves(r)
  BY <1>3, Zenon DEF AskBulkDelete, CheckDelete, BulkDelete, AskBulkStatus, NextStatus
<1>11. AskBulkAssign(r) \/ CheckAssign(r) \/ ClearAssignees(r) \/ Assign(r) \/ Reply(r)
       => OnlyMoves(r)
  BY <1>3, Zenon DEF AskBulkAssign, CheckAssign, ClearAssignees, Assign, Reply
<1> QED
  BY <1>4, <1>5, <1>6, <1>7, <1>8, <1>9, <1>10, <1>11 DEF TaskStep, FlowStep

\* A request whose step this is.
LEMMA WhoMoves ==
  ASSUME BoardIInv, NEW r \in Requests, TaskStep(r), NEW q \in Requests, Moves(q)
  PROVE  q = r
BY BoardStepMoves DEF OnlyMoves, Moves


\* Which handler takes the step of a request that has begun.
LEMMA BoardHandlers ==
  ASSUME NEW r \in Requests, TaskStep(r), req[r].op # "idle"
  PROVE  /\ req[r].op = "makeDefault" /\ req[r].step = "write" => MakeDefault(r)
         /\ req[r].op = "createStatus" /\ req[r].step = "insert" => InsertStatus(r)
         /\ req[r].op = "removeStatus" /\ req[r].step = "write" => RemoveStatus(r)
         /\ req[r].op = "removeWorkflow" /\ req[r].step = "write" => DeleteWorkflow(r)
         /\ req[r].op = "updateTask" /\ req[r].step = "write" => UpdateTask(r)
         /\ req[r].op = "bulkStatus" /\ req[r].step = "next" => NextStatus(r)
         /\ req[r].op = "bulkAssign" /\ req[r].step = "assign" => Assign(r)
         /\ req[r].step = "reply" => Reply(r)
<1>1. \/ CreateWorkflow(r) \/ MakeDefault(r)
      \/ InsertStatus(r) \/ ReviveStatus(r) \/ RemoveStatus(r) \/ RestoreStatus(r)
      \/ DeleteWorkflow(r)
      \/ CreateTask(r) \/ BulkCreate(r) \/ UpdateTask(r) \/ RemoveTask(r)
      \/ CheckDelete(r) \/ BulkDelete(r) \/ NextStatus(r)
      \/ CheckAssign(r) \/ ClearAssignees(r) \/ Assign(r) \/ Reply(r)
  <2>1. /\ \A op, step, with : ~Ask(r, op, step, with)
        /\ \A op : ~Once(r, op)
    BY DEF Ask, Once, Active
  <2>2. /\ ~AskCreateWorkflow(r) /\ ~AskMakeDefault(r) /\ ~ClearDefault(r) /\ ~SwitchWorkflow(r)
        /\ ~AskCreateStatus(r) /\ ~AskStatusFromProject(r) /\ ~UpdateStatus(r)
        /\ ~UpdatePositions(r) /\ ~AskRemoveStatus(r) /\ ~AskRestoreStatus(r)
    BY <2>1, Zenon DEF AskCreateWorkflow, AskMakeDefault, ClearDefault, SwitchWorkflow,
       AskCreateStatus, AskStatusFromProject, UpdateStatus, UpdatePositions, AskRemoveStatus,
       AskRestoreStatus
  <2>3. /\ \A w \in Workflows : ~AskRemoveWorkflow(r, w)
        /\ ~AskCreateTask(r) /\ ~AskBulkCreate(r) /\ ~AskUpdateTask(r) /\ ~AskRemoveTask(r)
        /\ ~AskBulkDelete(r) /\ ~AskBulkStatus(r) /\ ~AskBulkAssign(r)
    BY <2>1, Zenon DEF AskRemoveWorkflow, AskCreateTask, AskBulkCreate, AskUpdateTask, AskRemoveTask,
       AskBulkDelete, AskBulkStatus, AskBulkAssign
  <2> QED
    BY <2>2, <2>3 DEF TaskStep, FlowStep
<1>2. PICK op, step : op = req[r].op /\ step = req[r].step
  OBVIOUS
<1>3. /\ CreateWorkflow(r) => op = "createWorkflow" /\ step = "write"
      /\ MakeDefault(r) => op = "makeDefault" /\ step = "write"
      /\ InsertStatus(r) => op \in {"createStatus", "statusFromProject"} /\ step = "insert"
      /\ ReviveStatus(r) => op = "createStatus" /\ step = "revive"
      /\ RemoveStatus(r) => op = "removeStatus" /\ step = "write"
      /\ RestoreStatus(r) => op = "restoreStatus" /\ step = "write"
      /\ DeleteWorkflow(r) => op = "removeWorkflow" /\ step = "write"
  BY <1>2 DEF CreateWorkflow, MakeDefault, InsertStatus, ReviveStatus, RemoveStatus, RestoreStatus,
     DeleteWorkflow, RemoveWorkflow, At
<1>4. /\ CreateTask(r) => op = "createTask" /\ step = "insert"
      /\ BulkCreate(r) => op = "bulkCreate" /\ step = "insert"
      /\ UpdateTask(r) => op = "updateTask" /\ step = "write"
      /\ RemoveTask(r) => op = "removeTask" /\ step = "write"
      /\ CheckDelete(r) \/ BulkDelete(r) => op = "bulkDelete" /\ step \in {"check", "write"}
      /\ NextStatus(r) => op = "bulkStatus" /\ step = "next"
      /\ CheckAssign(r) => op = "bulkAssign" /\ step = "check"
      /\ ClearAssignees(r) => op = "bulkAssign" /\ step = "clear"
      /\ Assign(r) => op = "bulkAssign" /\ step = "assign"
      /\ Reply(r) => step = "reply"
  BY <1>2 DEF CreateTask, BulkCreate, UpdateTask, RemoveTask, CheckDelete, BulkDelete, NextStatus,
     CheckAssign, ClearAssignees, Assign, Reply, At
<1> QED
  BY <1>1, <1>2, <1>3, <1>4

-----------------------------------------------------------------------------
\* The default workflow.

LEMMA OneDefaultStep ==
  ASSUME BoardIInv, NEW q \in Requests, TaskStep(q), NEW r \in Requests,
         At(r, "makeDefault", "write"), Moves(r), flow[req[r].with.w].state = "live",
         Alone(r, {"makeDefault", "createWorkflow"})
  PROVE  {w \in Workflows : flow'[w].default} = {req[r].with.w}
<1>1. PICK x : x = req[r]
  OBVIOUS
<1>2. PICK h : h = x.with
  OBVIOUS
<1>3. x.op = "makeDefault" /\ x.step = "write" /\ BoardReqOK(x) /\ MakeDefault(r)
  BY <1>1, WhoMoves, BoardHandlers DEF At, BoardIInv
<1>4. h \in MakeFlow /\ Defaults \subseteq h.clear \union {h.w}
  BY <1>1, <1>2, <1>3 DEF BoardReqOK, NamesOK, Alone, Namers
<1>5. flow' = [w \in Workflows |-> IF w = h.w THEN [flow[w] EXCEPT !.default = TRUE]
                                   ELSE IF w \in h.clear THEN [flow[w] EXCEPT !.default = FALSE]
                                   ELSE flow[w]]
  BY <1>1, <1>2, <1>3 DEF MakeDefault
<1>6. /\ flow \in [Workflows -> FlowRow]
      /\ \A w \in Workflows : flow[w].default => flow[w].state = "live"
  BY DEF BoardIInv, BoardTyped, Tables, Belongs
<1>7. h.w \in Workflows /\ flow'[h.w].default
  BY <1>4, <1>5, <1>6 DEF MakeFlow, FlowRow
<1>8. ASSUME NEW w \in Workflows, w # h.w
      PROVE  ~flow'[w].default
  <2>1. CASE w \in h.clear
    BY <1>5, <1>6, <1>8, <2>1 DEF FlowRow
  <2>2. CASE w \notin h.clear
    <3>1. flow'[w] = flow[w] /\ w \notin Defaults
      BY <1>4, <1>5, <1>8, <2>2
    <3> QED
      BY <1>6, <3>1 DEF Defaults
  <2> QED
    BY <2>1, <2>2
<1> QED
  BY <1>1, <1>2, <1>7, <1>8

\* Making a workflow the default leaves exactly that one, unless another request
\* named one in the meantime (makeWorkflowDefault; create and update with isDefault).
THEOREM Default == TaskSpec => OneDefault
<1>1. BoardIInv /\ [TaskNext]_boardVars =>
        [ \A r \in Requests :
            /\ At(r, "makeDefault", "write") /\ Moves(r) /\ flow[req[r].with.w].state = "live"
            /\ Alone(r, {"makeDefault", "createWorkflow"})
            => {w \in Workflows : flow'[w].default} = {req[r].with.w} ]_<<flow, stat, req>>
  <2> SUFFICES ASSUME BoardIInv, [TaskNext]_boardVars
               PROVE  [ \A r \in Requests :
                          /\ At(r, "makeDefault", "write") /\ Moves(r)
                          /\ flow[req[r].with.w].state = "live"
                          /\ Alone(r, {"makeDefault", "createWorkflow"})
                          => {w \in Workflows : flow'[w].default} = {req[r].with.w}
                      ]_<<flow, stat, req>>
    OBVIOUS
  <2>1. CASE UNCHANGED boardVars
    BY <2>1 DEF boardVars
  <2>2. CASE TaskNext
    BY <2>2, OneDefaultStep DEF TaskNext
  <2> QED
    BY <2>1, <2>2
<1> QED
  BY <1>1, BoardInitIInv, BoardNextKeeps, PTL DEF TaskSpec, TaskNext, OneDefault


-----------------------------------------------------------------------------
\* The order of the columns.

LEMMA NewStatusLastStep ==
  ASSUME BoardIInv, NEW q \in Requests, TaskStep(q), NEW r \in Requests, NEW s \in Statuses,
         At(r, "createStatus", "insert"), Moves(r),
         stat[s].state = "none", stat'[s].state = "live",
         Alone(r, {"createStatus", "statusFromProject", "createWorkflow"})
  PROVE  \A x \in Shown(stat'[s].flow) : stat[x].pos < stat'[s].pos
<1>1. PICK x : x = req[r]
  OBVIOUS
<1>2. PICK row : row = x.with
  OBVIOUS
<1>3. /\ x.op = "createStatus" /\ x.step = "insert" /\ BoardReqOK(x) /\ InsertStatus(r)
      /\ x.over \intersect Inserters = {}
  BY <1>1, WhoMoves, BoardHandlers DEF At, BoardIInv, Alone, Inserters
<1>4. /\ row \in StatRow
      /\ flow[row.flow].state = "live" => row.pos = Cardinality(Rows(row.flow)) + 1
  BY <1>2, <1>3 DEF BoardReqOK, InsertOK
<1>5. stat \in [Statuses -> StatRow]
  BY DEF BoardIInv, BoardTyped, Tables
<1>6. PICK c : c = CHOOSE y \in Unused : TRUE
  OBVIOUS
<1>7. Fits(c, row) /\ stat' = [stat EXCEPT ![c] = row]
  BY <1>1, <1>2, <1>3, <1>6 DEF InsertStatus, Store
<1>8. s = c /\ stat'[s] = row
  BY <1>5, <1>7
<1>9. PICK v \in Workflows : v = row.flow /\ flow[v].state = "live"
  BY <1>4, <1>7 DEF Fits, StatRow
<1>10. ASSUME NEW y \in Shown(v)
       PROVE  stat[y].pos < row.pos
  <2>1. y \in Statuses /\ Known(y) /\ stat[y].flow = v
    BY DEF Shown, Rows
  <2>2. stat[y].pos <= Cardinality(Rows(v)) /\ stat[y].pos \in Nat
    BY <1>5, <2>1 DEF BoardIInv, Counts, StatRow
  <2>3. Cardinality(Rows(v)) \in Nat
    <3>1. Rows(v) \in SUBSET Statuses
      BY DEF Rows
    <3> QED
      BY <3>1, RowsFinite
  <2> QED
    BY <1>4, <1>9, <2>2, <2>3
<1> QED
  BY <1>8, <1>9, <1>10

\* Positions without gaps stay so when one is taken out and those above move down.
LEMMA GapCloses ==
  ASSUME NEW S, IsFiniteSet(S), NEW f \in [S -> Nat], {f[s] : s \in S} = 1..Cardinality(S),
         NEW e \in S, NEW g,
         \A s \in S \ {e} : g[s] = IF f[s] > f[e] THEN f[s] - 1 ELSE f[s]
  PROVE  {g[s] : s \in S \ {e}} = 1..Cardinality(S \ {e})
<1>1. PICK N \in Nat : N = Cardinality(S)
  BY FS_CardinalityType
<1>2. Cardinality(S \ {e}) = N - 1
  BY <1>1, FS_RemoveElement
<1>3. \A s, t \in S : f[s] = f[t] => s = t
  <2>1. PICK T : T = 1..N
    OBVIOUS
  <2>2. f \in Surjection(S, T)
    <3>1. \A s \in S : f[s] \in T
      BY <1>1, <2>1
    <3>2. \A n \in T : \E s \in S : f[s] = n
      BY <1>1, <2>1
    <3> QED
      BY <3>1, <3>2 DEF Surjection
  <2>3. Cardinality(T) = N
    <3>1. 0 <= N /\ N \in Int /\ (1 > N => N = 0) /\ N - 1 + 1 = N
      OBVIOUS
    <3>2. Cardinality(1..N) = IF 1 > N THEN 0 ELSE N - 1 + 1
      BY <3>1, FS_Interval
    <3> QED
      BY <2>1, <3>1, <3>2
  <2>4. f \in Injection(S, T)
    <3>1. Cardinality(S) = Cardinality(T)
      BY <1>1, <2>3
    <3> QED
      BY <2>2, <3>1, FS_SurjSameCardinalityImpliesInj
  <2> QED
    BY <2>4 DEF Injection, IsInjective
<1>4. \A s \in S : f[s] \in 1..N
  BY <1>1
<1>5. \A n \in 1..N : \E s \in S : f[s] = n
  BY <1>1
<1>6. ASSUME NEW s \in S \ {e}
      PROVE  g[s] \in 1..(N - 1)
  <2>1. f[s] \in 1..N /\ f[e] \in 1..N /\ f[s] # f[e]
    BY <1>3, <1>4
  <2> QED
    BY <2>1
<1>7. ASSUME NEW n \in 1..(N - 1)
      PROVE  \E s \in S \ {e} : g[s] = n
  <2>1. f[e] \in 1..N
    BY <1>4
  <2>2. CASE n < f[e]
    <3>1. PICK s \in S : f[s] = n
      BY <1>5
    <3>2. s # e /\ ~(f[s] > f[e])
      BY <2>1, <2>2, <3>1
    <3> QED
      BY <3>1, <3>2
  <2>3. CASE ~(n < f[e])
    <3>1. n + 1 \in 1..N
      OBVIOUS
    <3>2. PICK s \in S : f[s] = n + 1
      BY <1>5, <3>1
    <3>3. s # e /\ f[s] > f[e] /\ f[s] - 1 = n
      BY <2>1, <2>3, <3>2
    <3> QED
      BY <3>2, <3>3
  <2> QED
    BY <2>2, <2>3
<1> QED
  BY <1>2, <1>6, <1>7

LEMMA RemovalClosesGapStep ==
  ASSUME BoardIInv, NEW q \in Requests, TaskStep(q), NEW r \in Requests,
         At(r, "removeStatus", "write"), Moves(r),
         NEW w, w = req[r].with.flow,
         {stat[s].pos : s \in Shown(w)} = 1..Cardinality(Shown(w)),
         Alone(r, {"removeStatus", "positions", "createStatus", "restoreStatus"})
  PROVE  {stat'[s].pos : s \in Shown(w) \ {req[r].with.id}} = 1..Cardinality(Shown(w) \ {req[r].with.id})
<1>1. PICK x : x = req[r]
  OBVIOUS
<1>2. PICK h : h = x.with
  OBVIOUS
<1>3. /\ x.op = "removeStatus" /\ x.step = "write" /\ BoardReqOK(x) /\ RemoveStatus(r)
      /\ x.over \intersect Movers = {}
  BY <1>1, WhoMoves, BoardHandlers DEF At, BoardIInv, Alone, Movers
<1>4. /\ h \in RemovalData /\ h.flow = w /\ stat[h.id].state # "none" /\ stat[h.id].flow = w
      /\ Known(h.id) => stat[h.id].state = "live" /\ stat[h.id].pos = h.pos
  BY <1>1, <1>2, <1>3 DEF BoardReqOK, RemovalOK
<1>5. stat \in [Statuses -> StatRow] /\ Belongs
  BY DEF BoardIInv, BoardTyped, Tables
<1>6. PICK e \in Statuses, pos \in Nat : e = h.id /\ pos = h.pos
  BY <1>4 DEF RemovalData
<1>7. w \in Workflows
  BY <1>4 DEF RemovalData
<1>8. PICK S \in SUBSET Statuses : S = Shown(w)
  BY DEF Shown, Rows
<1>9. IsFiniteSet(S)
  BY RowsFinite
<1>10. CASE Known(e)
  <2>1. e \in S /\ stat[e].pos = pos
    BY <1>4, <1>6, <1>8, <1>10 DEF Shown, Rows
  <2>2. stat' = [Shifted(w, pos) EXCEPT ![e].state = "deleted"]
    BY <1>1, <1>2, <1>3, <1>4, <1>6, <1>10 DEF RemoveStatus
  <2>3. PICK f \in [S -> Nat] : f = [s \in S |-> stat[s].pos]
    BY <1>5 DEF StatRow
  <2>4. PICK g : g = [s \in S |-> stat'[s].pos]
    OBVIOUS
  <2>5. ASSUME NEW s \in S \ {e}
        PROVE  g[s] = IF f[s] > f[e] THEN f[s] - 1 ELSE f[s]
    <3>1. PICK shifted : shifted = Shifted(w, pos)
      OBVIOUS
    <3>2. shifted = [t \in Statuses |-> IF t \in Rows(w) /\ stat[t].pos > pos
                                          THEN [stat[t] EXCEPT !.pos = @ - 1] ELSE stat[t]]
      BY <3>1 DEF Shifted
    <3>3. s \in Rows(w) /\ s \in Statuses /\ s # e
      BY <1>8 DEF Shown
    <3>4. stat'[s] = shifted[s]
      BY <2>2, <3>1, <3>2, <3>3
    <3>5. g[s] = stat'[s].pos /\ f[s] = stat[s].pos /\ f[e] = pos
      BY <2>1, <2>3, <2>4
    <3>6. stat[s] \in StatRow
      BY <1>5, <3>3
    <3>7. CASE stat[s].pos > pos
      <4>1. PICK n : n = stat[s].pos - 1
        OBVIOUS
      <4>2. shifted[s] = [stat[s] EXCEPT !.pos = n]
        BY <3>2, <3>3, <3>7, <4>1
      <4>3. shifted[s].pos = n
        BY <3>6, <4>2 DEF StatRow
      <4> QED
        BY <3>4, <3>5, <3>7, <4>1, <4>3
    <3>8. CASE ~(stat[s].pos > pos)
      <4>1. shifted[s] = stat[s]
        BY <3>2, <3>3, <3>8
      <4> QED
        BY <3>4, <3>5, <3>8, <4>1
    <3> QED
      BY <3>7, <3>8
  <2>6. {f[s] : s \in S} = 1..Cardinality(S)
    BY <1>8, <2>3
  <2>7. {g[s] : s \in S \ {e}} = 1..Cardinality(S \ {e})
    BY <1>9, <2>1, <2>5, <2>6, GapCloses
  <2>8. {g[s] : s \in S \ {e}} = {stat'[s].pos : s \in S \ {e}}
    BY <2>4
  <2> QED
    BY <1>1, <1>2, <1>6, <1>8, <2>7, <2>8
<1>11. CASE ~Known(e)
  <2>1. stat[e].state = "gone"
    BY <1>4, <1>5, <1>6, <1>11 DEF Known, StatRow
  <2>2. flow[w].state = "gone"
    BY <1>4, <1>5, <1>6, <2>1 DEF Belongs
  <2>3. S = {}
    BY <1>5, <1>8, <2>2 DEF Shown, Rows, Belongs
  <2>4. Cardinality(S \ {e}) = 0
    BY <2>3, FS_EmptySet
  <2>5. {stat'[s].pos : s \in S \ {e}} = {} /\ 1..0 = {}
    BY <2>3
  <2> QED
    BY <1>1, <1>2, <1>6, <1>8, <2>4, <2>5
<1> QED
  BY <1>10, <1>11


\* A new status comes after all that are shown, and a removal closes its gap,
\* whatever was deleted, restored and reordered before, unless another request
\* wrote positions since they were read (create, remove).
THEOREM Columns == TaskSpec => ColumnsInOrder
<1>1. BoardIInv /\ [TaskNext]_boardVars =>
        [ \A r \in Requests, s \in Statuses :
            /\ At(r, "createStatus", "insert") /\ Moves(r)
            /\ stat[s].state = "none" /\ stat'[s].state = "live"
            /\ Alone(r, {"createStatus", "statusFromProject", "createWorkflow"})
            => \A x \in Shown(stat'[s].flow) : stat[x].pos < stat'[s].pos ]_<<flow, stat, req>>
  <2> SUFFICES ASSUME BoardIInv, TaskNext
               PROVE  \A r \in Requests, s \in Statuses :
                        /\ At(r, "createStatus", "insert") /\ Moves(r)
                        /\ stat[s].state = "none" /\ stat'[s].state = "live"
                        /\ Alone(r, {"createStatus", "statusFromProject", "createWorkflow"})
                        => \A x \in Shown(stat'[s].flow) : stat[x].pos < stat'[s].pos
    BY DEF boardVars
  <2> QED
    BY NewStatusLastStep DEF TaskNext
<1>2. BoardIInv /\ [TaskNext]_boardVars =>
        [ \A r \in Requests :
            LET w == req[r].with.flow
                before == {stat[s].pos : s \in Shown(w)}
                left == Shown(w) \ {req[r].with.id}
            IN /\ At(r, "removeStatus", "write") /\ Moves(r)
               /\ before = 1..Cardinality(Shown(w))
               /\ Alone(r, {"removeStatus", "positions", "createStatus", "restoreStatus"})
               => {stat'[s].pos : s \in left} = 1..Cardinality(left) ]_<<flow, stat, req>>
  <2> SUFFICES ASSUME BoardIInv, TaskNext, NEW r \in Requests,
                      At(r, "removeStatus", "write"), Moves(r),
                      {stat[s].pos : s \in Shown(req[r].with.flow)}
                        = 1..Cardinality(Shown(req[r].with.flow)),
                      Alone(r, {"removeStatus", "positions", "createStatus", "restoreStatus"})
               PROVE  {stat'[s].pos : s \in Shown(req[r].with.flow) \ {req[r].with.id}}
                        = 1..Cardinality(Shown(req[r].with.flow) \ {req[r].with.id})
    BY DEF boardVars
  <2>1. PICK q \in Requests : TaskStep(q)
    BY DEF TaskNext
  <2>2. PICK w : w = req[r].with.flow
    OBVIOUS
  <2> QED
    BY <2>1, <2>2, RemovalClosesGapStep
<1> QED
  BY <1>1, <1>2, BoardInitIInv, BoardNextKeeps, PTL
     DEF TaskSpec, TaskNext, ColumnsInOrder, NewStatusLast, RemovalClosesGap


-----------------------------------------------------------------------------
\* The tasks.

LEMMA DeletesNoTaskStep ==
  ASSUME BoardIInv, NEW q \in Requests, TaskStep(q), NEW r \in Requests,
         At(r, "removeWorkflow", "write"), Moves(r),
         Alone(r, {"createTask", "bulkCreate", "updateTask", "bulkStatus"})
  PROVE  task' = task
<1>1. PICK x : x = req[r]
  OBVIOUS
<1>2. /\ x.op = "removeWorkflow" /\ x.step = "write" /\ BoardReqOK(x) /\ DeleteWorkflow(r)
      /\ x.over \intersect Fillers = {}
  BY <1>1, WhoMoves, BoardHandlers DEF At, BoardIInv, Alone, Fillers
<1>3. TasksIn(x.with) = {}
  BY <1>2 DEF BoardReqOK, EmptyOK
<1>4. task' = task \/ task' = Without({})
  BY <1>1, <1>2, <1>3 DEF DeleteWorkflow
<1>5. task = [t \in Tasks |-> task[t]]
  BY DEF BoardIInv, BoardTyped, Tables
<1>6. Without({}) = task
  BY <1>5 DEF Without
<1> QED
  BY <1>4, <1>6

\* remove deletes no task with the workflow, unless one was put into it between
\* the count and the delete.
THEOREM NoTaskDeleted == TaskSpec => DeletesNoTask
<1>1. BoardIInv /\ [TaskNext]_boardVars =>
        [ \A r \in Requests :
            At(r, "removeWorkflow", "write") /\ Moves(r)
            /\ Alone(r, {"createTask", "bulkCreate", "updateTask",
                          "bulkStatus"})
            => task' = task ]_boardVars
  BY DeletesNoTaskStep DEF TaskNext
<1> QED
  BY <1>1, BoardInitIInv, BoardNextKeeps, PTL DEF TaskSpec, TaskNext, DeletesNoTask

\* What a step of update or of the bulk change of status makes of a task's status.
LEMMA StatusGiven ==
  ASSUME BoardIInv, NEW q \in Requests, TaskStep(q), NEW r \in Requests, NEW t \in Live,
         req[r].op \in {"updateTask", "bulkStatus"}, Moves(r), task'[t] # task[t]
  PROVE  \/ /\ req[r].op = "bulkStatus" /\ req[r].step = "next" /\ t \in req[r].with.todo
            /\ \E to \in req[r].with.asked[t] : task'[t] = [task[t] EXCEPT !.status = to.id,
                                                                           !.stamped = to.done]
         \/ /\ req[r].op = "updateTask" /\ req[r].step = "write" /\ t = req[r].with.id
            /\ task'[t] = Edited(task[t], req[r].with.patch)
<1>1. PICK x : x = req[r]
  OBVIOUS
<1>2. PICK h : h = x.with
  OBVIOUS
<1>3. q = r /\ BoardReqOK(x) /\ TaskStep(r) /\ x.op # "idle"
  BY <1>1, WhoMoves DEF BoardIInv
<1>4. task \in [Tasks -> TaskRow] /\ t \in Tasks
  BY DEF BoardIInv, BoardTyped, Tables, Live
<1>5. CASE x.op = "updateTask"
  <2>1. x.step = "write" /\ UpdateTask(r)
    BY <1>1, <1>3, <1>5, BoardHandlers DEF BoardReqOK, EditOK
  <2>2. task' = [task EXCEPT ![h.id] = Edited(task[h.id], h.patch)]
    BY <1>1, <1>2, <2>1 DEF UpdateTask
  <2>3. t = h.id
    BY <1>4, <2>2
  <2> QED
    BY <1>1, <1>2, <1>4, <1>5, <2>1, <2>2, <2>3
<1>6. CASE x.op = "bulkStatus"
  <2>1. CASE x.step = "next"
    <3>1. NextStatus(r)
      BY <1>1, <1>3, <1>6, <2>1, BoardHandlers
    <3>2. PICK u \in h.todo : \E to \in h.asked[u] :
            u \in Live /\ task' = [task EXCEPT ![u].status = to.id, ![u].stamped = to.done]
      BY <1>1, <1>2, <3>1 DEF NextStatus
    <3>3. t = u
      BY <1>4, <3>2 DEF Live
    <3>4. PICK to \in h.asked[t] : task' = [task EXCEPT ![t].status = to.id, ![t].stamped = to.done]
      BY <3>2, <3>3
    <3>5. task'[t] = [task[t] EXCEPT !.status = to.id, !.stamped = to.done]
      BY <1>4, <3>4 DEF TaskRow
    <3> QED
      BY <1>1, <1>2, <1>6, <2>1, <3>2, <3>3, <3>5
  <2>2. CASE x.step = "reply"
    <3>1. task' = task
      <4>1. Reply(r)
        BY <1>1, <1>3, <2>2, BoardHandlers
      <4> QED
        BY <4>1 DEF Reply
    <3> QED
      BY <3>1
  <2> QED
    BY <1>3, <1>6, <2>1, <2>2 DEF BoardReqOK, BulkOK
<1> QED
  BY <1>1, <1>5, <1>6


LEMMA StampStep ==
  ASSUME BoardIInv, NEW q \in Requests, TaskStep(q), NEW r \in Requests, NEW t \in Live,
         req[r].op \in {"updateTask", "bulkStatus"}, Moves(r),
         task'[t].status # task[t].status, Alone(r, {"updateStatus", "createStatus"})
  PROVE  task'[t].stamped = stat[task'[t].status].done
<1>1. PICK x : x = req[r]
  OBVIOUS
<1>2. PICK h : h = x.with
  OBVIOUS
<1>3. BoardReqOK(x) /\ x.over \intersect Recoders = {}
  BY <1>1 DEF BoardIInv, Alone, Recoders
<1>4. task[t] \in TaskRow
  BY DEF BoardIInv, BoardTyped, Tables, Live
<1>5. CASE /\ x.op = "bulkStatus" /\ x.step = "next" /\ t \in h.todo
           /\ \E to \in h.asked[t] : task'[t] = [task[t] EXCEPT !.status = to.id, !.stamped = to.done]
  <2>1. PICK to \in h.asked[t] : task'[t] = [task[t] EXCEPT !.status = to.id, !.stamped = to.done]
    BY <1>5
  <2>2. to.done = stat[to.id].done
    BY <1>2, <1>3, <1>5 DEF BoardReqOK, TargetsOK
  <2> QED
    BY <1>4, <2>1, <2>2 DEF TaskRow
<1>6. CASE /\ x.op = "updateTask" /\ x.step = "write" /\ t = h.id
           /\ task'[t] = Edited(task[t], h.patch)
  <2>1. PICK patch \in PatchData : patch = h.patch
    BY <1>2, <1>3, <1>6 DEF BoardReqOK, EditOK, EditData
  <2>2. patch.field \in {"status", "who", "prj"}
    BY DEF PatchData
  <2>3. patch.field = "status"
    <3>1. CASE patch.field = "who"
      BY <1>4, <1>6, <2>1, <3>1 DEF Edited, TaskRow
    <3>2. CASE patch.field = "prj"
      BY <1>4, <1>6, <2>1, <3>2 DEF Edited, TaskRow
    <3> QED
      BY <2>2, <3>1, <3>2
  <2>4. patch.done = stat[patch.to].done
    BY <1>2, <1>3, <1>6, <2>1, <2>3 DEF BoardReqOK, EditOK
  <2>5. task'[t] = [task[t] EXCEPT !.status = patch.to, !.stamped = patch.done]
    BY <1>6, <2>1, <2>3 DEF Edited
  <2> QED
    BY <1>4, <2>4, <2>5 DEF TaskRow
<1> QED
  BY <1>1, <1>2, <1>5, <1>6, StatusGiven

\* Whoever changes a task's status leaves a stamp that agrees with the category
\* of the status, unless the category was edited since it was read (update,
\* bulkUpdateTasksStatus).
THEOREM Stamps == TaskSpec => StampFollowsStatus
<1>1. BoardIInv /\ [TaskNext]_boardVars =>
        [ \A r \in Requests, t \in Live :
            /\ req[r].op \in {"updateTask", "bulkStatus"} /\ Moves(r)
            /\ task'[t].status # task[t].status
            /\ Alone(r, {"updateStatus", "createStatus"})
            => task'[t].stamped = stat[task'[t].status].done ]_boardVars
  BY StampStep DEF TaskNext
<1> QED
  BY <1>1, BoardInitIInv, BoardNextKeeps, PTL DEF TaskSpec, TaskNext, StampFollowsStatus

LEMMA StaysInWorkflowStep ==
  ASSUME BoardIInv, NEW q \in Requests, TaskStep(q), NEW r \in Requests, NEW t \in Live,
         At(r, "bulkStatus", "next"), Moves(r), task'[t] # task[t],
         Alone(r, {"switchWorkflow", "updateTask"})
  PROVE  stat[task'[t].status].flow = uses[task[t].prj]
<1>1. PICK x : x = req[r]
  OBVIOUS
<1>2. PICK h : h = x.with
  OBVIOUS
<1>3. BoardReqOK(x) /\ x.over \intersect Placers = {} /\ x.op = "bulkStatus" /\ x.step = "next"
  BY <1>1 DEF BoardIInv, Alone, Placers, At
<1>4. task[t] \in TaskRow
  BY DEF BoardIInv, BoardTyped, Tables, Live
<1>5. /\ t \in h.todo
      /\ \E to \in h.asked[t] : task'[t] = [task[t] EXCEPT !.status = to.id, !.stamped = to.done]
  BY <1>1, <1>2, <1>3, StatusGiven
<1>6. PICK to \in h.asked[t] : task'[t] = [task[t] EXCEPT !.status = to.id, !.stamped = to.done]
  BY <1>5
<1>7. stat[to.id].flow = uses[task[t].prj]
  <2> HIDE DEF Live
  <2> QED
    BY <1>2, <1>3, <1>5 DEF BoardReqOK, TargetsOK
<1> QED
  BY <1>4, <1>6, <1>7 DEF TaskRow

LEMMA AnswersEachStep ==
  ASSUME BoardIInv, NEW r \in Requests, req[r].step = "reply"
  PROVE  /\ req[r].with.named \subseteq req[r].with.failed \union req[r].with.did
         /\ req[r].with.failed \intersect req[r].with.did = {}
<1>1. PICK x : x = req[r]
  OBVIOUS
<1>2. BoardReqOK(x) /\ x.step = "reply"
  BY <1>1 DEF BoardIInv
<1>3. x.op \in BulkOps
  BY <1>2 DEF BoardReqOK, NamesOK, EmptyOK, InsertOK, RemovalOK, EditOK, BulkOps, TaskOps
<1> QED
  BY <1>1, <1>2, <1>3 DEF BoardReqOK, BulkOK

LEMMA AssignedStep ==
  ASSUME BoardIInv, NEW q \in Requests, TaskStep(q), NEW r \in Requests,
         At(r, "bulkAssign", "assign"), req'[r].step # "assign",
         Alone(r, {"updateTask", "bulkAssign", "removeTask", "bulkDelete", "removeWorkflow"})
  PROVE  \A t \in req[r].with.todo : task'[t].who = req[r].with.asked
<1>1. PICK x : x = req[r]
  OBVIOUS
<1>2. PICK h : h = x.with
  OBVIOUS
<1>3. Moves(r)
  BY DEF At, Moves
<1>4. /\ x.op = "bulkAssign" /\ x.step = "assign" /\ BoardReqOK(x) /\ Assign(r)
      /\ x.over \intersect Assigners = {}
  BY <1>1, <1>3, WhoMoves, BoardHandlers DEF At, BoardIInv, Alone, Assigners
<1>5. h.todo \subseteq Live /\ \A t \in h.todo : task[t].who = {}
  BY <1>2, <1>4 DEF BoardReqOK, AssignOK
<1>6. task' = [t \in Tasks |-> IF t \in h.todo THEN [task[t] EXCEPT !.who = @ \union h.asked]
                                               ELSE task[t]]
  BY <1>1, <1>2, <1>4, <1>5 DEF Assign
<1>7. ASSUME NEW t \in h.todo
      PROVE  task'[t].who = h.asked
  <2>1. t \in Tasks /\ task[t] \in TaskRow /\ task[t].who = {}
    BY <1>5 DEF BoardIInv, BoardTyped, Tables, Live
  <2> QED
    BY <1>6, <2>1 DEF TaskRow
<1> QED
  BY <1>1, <1>2, <1>7

\* A bulk edit does to every task named what was asked, or says that it did not
\* (bulkUpdateTasksStatus, bulkDeleteTasks, bulkAssignTasks).
THEOREM BulkEdits == TaskSpec => BulkEditsAsAsked
<1>1. BoardIInv /\ [TaskNext]_boardVars =>
        [ \A r \in Requests, t \in Live :
            /\ At(r, "bulkStatus", "next") /\ Moves(r)
            /\ task'[t] # task[t]
            /\ Alone(r, {"switchWorkflow", "updateTask"})
            => stat[task'[t].status].flow = uses[task[t].prj] ]_boardVars
  BY StaysInWorkflowStep DEF TaskNext
<1>2. BoardIInv /\ [TaskNext]_boardVars =>
        [ \A r \in Requests :
            LET h == req[r].with IN
            req[r].step = "reply" /\ Moves(r)
            => h.named \subseteq h.failed \union h.did /\ h.failed \intersect h.did = {} ]_boardVars
  BY AnswersEachStep DEF TaskNext
<1>3. BoardIInv /\ [TaskNext]_boardVars =>
        [ \A r \in Requests :
            /\ At(r, "bulkAssign", "assign") /\ req'[r].step # "assign"
            /\ Alone(r, {"updateTask", "bulkAssign", "removeTask", "bulkDelete", "removeWorkflow"})
            => \A t \in req[r].with.todo : task'[t].who = req[r].with.asked ]_boardVars
  BY AssignedStep DEF TaskNext
<1> QED
  BY <1>1, <1>2, <1>3, BoardInitIInv, BoardNextKeeps, PTL
     DEF TaskSpec, TaskNext, BulkEditsAsAsked, BulkStaysInWorkflow, BulkAnswersEach, AssignedAsAsked

\* The workflows, statuses and tasks keep their types: a status belongs to a
\* live workflow, a project uses one, and a task is in a status that is stored.
THEOREM BoardTypes == TaskSpec => [](BoardTyped /\ FlowTypeOK /\ TaskTypeOK)
<1>1. BoardIInv => BoardTyped /\ FlowTypeOK /\ TaskTypeOK
  <2> SUFFICES ASSUME BoardIInv PROVE BoardTyped /\ FlowTypeOK /\ TaskTypeOK
    OBVIOUS
  <2>1. BoardTyped /\ Tables /\ Belongs /\ Counts
    BY DEF BoardIInv, BoardTyped
  <2>2. Cardinality(Statuses) \in Nat
    BY WorkflowsAssumption, FS_CardinalityType
  <2>3. ASSUME NEW s \in Statuses
        PROVE  stat[s].pos \in 0..(Cardinality(Statuses) + 1)
    BY <2>1, <2>2 DEF Tables, StatRow, Counts
  <2>4. FlowTypeOK
    BY <2>1, <2>3 DEF FlowTypeOK, Tables, Belongs, StatRow
  <2>5. TaskTypeOK
    BY <2>1 DEF TaskTypeOK, Tables, Belongs, TaskRow
  <2> QED
    BY <2>1, <2>4, <2>5
<1> QED
  BY <1>1, BoardInitIInv, BoardNextKeeps, PTL DEF TaskSpec, TaskNext

-----------------------------------------------------------------------------
\* The places of a browser tab (Directory).

Entry == [org : Orgs, edit : Nat]
PlaceRow == [live : BOOLEAN, archived : BOOLEAN, org : Orgs, edit : Nat]
Listings == UNION {[is -> Entry] : is \in SUBSET Places}
KeptType == [kind : Kinds, org : Orgs, list : Listings, current : Places \union {Nothing}, copy : Entry]

Writings == {"create", "update", "delete", "archive"}
AskedFor == [org : Orgs, place : Places \union {Nothing},
             answer : {Nothing} \union Entry \union Listings]
DirectoryCall ==
  [op : {"idle"} \union DirectoryOps, step : {"", "sent", "answered", "left"},
   with : {NoData} \union AskedFor, over : SUBSET {"list", "current", "write"}]

\* What there is to a call at each of its steps.
CallShaped(x) ==
  IF x.op = "idle" THEN x.step = ""
  ELSE /\ x.with \in AskedFor
       /\ x.step \in {"sent", "answered"} \/ (x.step = "left" /\ x.op \in Writings)
       /\ x.op \in {"find", "update", "delete", "archive"} => x.with.place \in Places
       /\ x.step = "answered" =>
            /\ x.op = "list" => x.with.answer \in Listings
            /\ x.op # "list" => x.with.place \in Places /\ x.with.answer \in Entry

DirectoryTyped ==
  /\ place \in [Places -> PlaceRow]
  /\ kept \in KeptType
  /\ req \in [Requests -> DirectoryCall]
  /\ \A r \in Requests : CallShaped(req[r])

\* An entry is what the server would answer for place i.
Right(i, e) == place[i].live /\ e = Held(i)
Listed(i, o) == place[i].live /\ ~place[i].archived /\ place[i].org = o

\* No write since call x was answered: its answer is still so.
AnswerRight(x) ==
  x.op # "idle" /\ x.step = "answered" /\ "write" \notin x.over =>
    /\ x.op = "list" => x.with.answer = ListOf(x.with.org)
    /\ x.op \in {"find", "update", "create"} => Right(x.with.place, x.with.answer)
    /\ x.op = "create" => Listed(x.with.place, x.with.org)
    /\ x.op = "delete" => ~place[x.with.place].live

\* A call whose answer, when it arrives, corrects place i in the list or the
\* current place, or marks it stale.
Corrects(x, i) == x.step = "answered" /\ x.with.place = i /\ x.op \in {"update", "delete"}
Adds(x, i) == x.step = "answered" /\ x.with.place = i /\ x.op = "create"
Loads(x) == x.op = "list" \/ (x.op = "archive" /\ x.step = "answered")

Corrected(i) == \E q \in Requests : Corrects(req[q], i)
Overtaking(i) == \E q \in Requests : Corrects(req[q], i) /\ "write" \in req[q].over
Added(i) == \E q \in Requests : Adds(req[q], i)
Loading == \E q \in Requests : Loads(req[q])

EntryHeld(i) ==
  /\ Right(i, kept.list[i]) \/ Corrected(i)
  /\ place[i].org = kept.org \/ Overtaking(i)
  /\ place[i].archived => Loading

ListHeld ==
  "list" \notin stale =>
    /\ \A i \in DOMAIN kept.list : EntryHeld(i)
    /\ kept.kind # "members" =>
         \A i \in Places : Listed(i, kept.org) => i \in DOMAIN kept.list \/ Added(i)

CurrentHeld ==
  "current" \notin stale /\ kept.current # Nothing =>
    Right(kept.current, kept.copy) \/ Corrected(kept.current)

AnswersHeld == \A r \in Requests : AnswerRight(req[r])

DirectoryIInv == DirectoryTyped /\ AnswersHeld /\ ListHeld /\ CurrentHeld

-----------------------------------------------------------------------------
\* Call r goes on as x, and the others are marked with what it wrote, m.
CallGoes(r, x, m) ==
  /\ req' \in [Requests -> DirectoryCall] /\ req'[r] = x /\ CallShaped(x)
  /\ \A q \in Requests \ {r} :
       /\ req'[q].op = req[q].op /\ req'[q].step = req[q].step /\ req'[q].with = req[q].with
       /\ req'[q].over = IF req[q].op = "idle" THEN req[q].over ELSE req[q].over \union m

LEMMA DirectoryIdle == Idle \in DirectoryCall /\ CallShaped(Idle) /\ Idle.op = "idle" /\ Idle.step = ""
<1>1. PICK d : d = NoData
  OBVIOUS
<1>2. Idle = [op |-> "idle", step |-> "", with |-> d, over |-> {}]
  BY <1>1 DEF Idle
<1> QED
  BY <1>1, <1>2 DEF DirectoryCall, CallShaped

\* Typed as long as what goes on is, and the tables are.
LEMMA DirectoryStaysTyped ==
  ASSUME DirectoryTyped, NEW r \in Requests, NEW x, NEW m, CallGoes(r, x, m),
         place' \in [Places -> PlaceRow], kept' \in KeptType
  PROVE  DirectoryTyped'
<1>1. ASSUME NEW q \in Requests PROVE CallShaped(req'[q])
  <2>1. CASE q = r
    BY <2>1 DEF CallGoes
  <2>2. CASE q # r
    <3>1. /\ CallShaped(req[q]) /\ req'[q].op = req[q].op
          /\ req'[q].step = req[q].step /\ req'[q].with = req[q].with
      BY <2>2 DEF CallGoes, DirectoryTyped
    <3> QED
      BY <3>1 DEF CallShaped
  <2> QED
    BY <2>1, <2>2
<1> QED
  BY <1>1 DEF DirectoryTyped, CallGoes

\* The answers of the others stay right when no place changes, or they are marked.
LEMMA AnswersStay ==
  ASSUME DirectoryTyped, AnswersHeld, NEW r \in Requests, NEW x, NEW m, CallGoes(r, x, m),
         place' = place \/ "write" \in m, AnswerRight(x)'
  PROVE  AnswersHeld'
<1>1. ASSUME NEW q \in Requests PROVE AnswerRight(req[q])'
  <2>1. CASE q = r
    BY <2>1 DEF CallGoes, AnswerRight, Right, Listed, ListOf, Entries, Held
  <2>2. CASE q # r
    <3>1. /\ AnswerRight(req[q]) /\ req'[q].op = req[q].op
          /\ req'[q].step = req[q].step /\ req'[q].with = req[q].with
          /\ req'[q].over = IF req[q].op = "idle" THEN req[q].over ELSE req[q].over \union m
      BY <2>2 DEF CallGoes, AnswersHeld
    <3> QED
      BY <3>1 DEF AnswerRight, Right, Listed, ListOf, Entries, Held
  <2> QED
    BY <2>1, <2>2
<1> QED
  BY <1>1 DEF AnswersHeld

\* Whatever covers a place still does after a step, but for the call that takes it.
LEMMA CoversStay ==
  ASSUME NEW r \in Requests, NEW x, NEW m, CallGoes(r, x, m), NEW i
  PROVE  /\ Corrected(i) => Corrected(i)' \/ Corrects(req[r], i)
         /\ Overtaking(i) => Overtaking(i)' \/ (Corrects(req[r], i) /\ "write" \in req[r].over)
         /\ "write" \in m /\ Corrected(i) => Overtaking(i)' \/ Corrects(req[r], i)
         /\ Added(i) => Added(i)' \/ Adds(req[r], i)
         /\ Loading => Loading' \/ Loads(req[r])
         /\ Corrects(x, i) => Corrected(i)'
         /\ Adds(x, i) => Added(i)'
         /\ Loads(x) => Loading'
<1>1. ASSUME NEW q \in Requests, q # r
      PROVE  /\ Corrects(req[q], i) => Corrects(req'[q], i)
             /\ Corrects(req[q], i) /\ "write" \in req[q].over \union m => "write" \in req'[q].over
             /\ Adds(req[q], i) => Adds(req'[q], i)
             /\ Loads(req[q]) => Loads(req'[q])
  BY <1>1 DEF CallGoes, Corrects, Adds, Loads
<1>2. req'[r] = x
  BY DEF CallGoes
<1>3. (Corrected(i) => Corrected(i)' \/ Corrects(req[r], i)) /\ (Corrects(x, i) => Corrected(i)')
  BY <1>1, <1>2 DEF Corrected
<1>4. /\ Overtaking(i) => Overtaking(i)' \/ (Corrects(req[r], i) /\ "write" \in req[r].over)
      /\ "write" \in m /\ Corrected(i) => Overtaking(i)' \/ Corrects(req[r], i)
  BY <1>1 DEF Overtaking, Corrected
<1>5. (Added(i) => Added(i)' \/ Adds(req[r], i)) /\ (Adds(x, i) => Added(i)')
  BY <1>1, <1>2 DEF Added
<1>6. (Loading => Loading' \/ Loads(req[r])) /\ (Loads(x) => Loading')
  BY <1>1, <1>2 DEF Loading
<1> QED
  BY <1>3, <1>4, <1>5, <1>6

\* The list stays as good as it is while nobody writes it or a place, and what is
\* to correct it is not the call that goes on.
LEMMA ListStays ==
  ASSUME ListHeld, NEW r \in Requests, NEW x, NEW m, CallGoes(r, x, m),
         place' = place, kept'.list = kept.list, kept'.org = kept.org, kept'.kind = kept.kind,
         "list" \in stale => "list" \in stale',
         ~(req[r].step = "answered" /\ req[r].op \in Writings), req[r].op = "list" => x.op = "list"
  PROVE  ListHeld'
<1>1. ASSUME NEW i
      PROVE  /\ Corrected(i) => Corrected(i)'
             /\ Overtaking(i) => Overtaking(i)'
             /\ Added(i) => Added(i)'
             /\ Loading => Loading'
  BY CoversStay DEF Corrects, Adds, Loads, Writings
<1>2. ASSUME NEW i, EntryHeld(i) PROVE EntryHeld(i)'
  BY <1>1, <1>2 DEF EntryHeld, Right, Held
<1> QED
  BY <1>1, <1>2 DEF ListHeld, Listed

LEMMA ListMarked == ASSUME "list" \in stale' PROVE ListHeld'
BY DEF ListHeld

LEMMA CurrentStays ==
  ASSUME CurrentHeld, NEW r \in Requests, NEW x, NEW m, CallGoes(r, x, m),
         place' = place, kept'.current = kept.current, kept'.copy = kept.copy,
         "current" \in stale => "current" \in stale',
         ~(req[r].step = "answered" /\ req[r].op \in {"update", "delete"})
  PROVE  CurrentHeld'
<1>1. Corrected(kept.current) => Corrected(kept.current)'
  BY CoversStay DEF Corrects, Corrected
<1> QED
  BY <1>1 DEF CurrentHeld, Right, Held, Corrected

LEMMA CurrentMarked == ASSUME "current" \in stale' \/ kept'.current = Nothing PROVE CurrentHeld'
BY DEF CurrentHeld

-----------------------------------------------------------------------------
\* Calls that begin.
LEMMA AskingGoes ==
  ASSUME DirectoryTyped, NEW r \in Requests, NEW op \in DirectoryOps, NEW o \in Orgs,
         NEW i \in Places \union {Nothing}, op \in {"find", "update", "delete", "archive"} => i \in Places,
         Ask(r, op, "sent", [org |-> o, place |-> i, answer |-> Nothing])
  PROVE  /\ req[r].op = "idle" /\ req[r].step = ""
         /\ \E x \in DirectoryCall : CallGoes(r, x, {}) /\ x.op = op /\ x.step = "sent"
<1>1. PICK d : d = [org |-> o, place |-> i, answer |-> Nothing]
  OBVIOUS
<1>2. d \in AskedFor /\ d.place = i
  BY <1>1 DEF AskedFor
<1>3. PICK x : x = [op |-> op, step |-> "sent", with |-> d, over |-> {}]
  OBVIOUS
<1>4. x \in DirectoryCall /\ x.op = op /\ x.step = "sent" /\ x.with = d
  BY <1>2, <1>3 DEF DirectoryCall
<1>5. CallShaped(x)
  BY <1>2, <1>4 DEF CallShaped, DirectoryOps
<1>6. req[r].op = "idle" /\ req' = [req EXCEPT ![r] = x]
  BY <1>1, <1>3 DEF Ask, Active
<1>7. CallGoes(r, x, {})
  BY <1>4, <1>5, <1>6 DEF CallGoes, DirectoryTyped
<1> QED
  BY <1>4, <1>6, <1>7 DEF DirectoryTyped, CallShaped

LEMMA DirectoryAsks ==
  ASSUME DirectoryIInv, NEW r \in Requests, NEW x, CallGoes(r, x, {}), x.op # "idle", x.step = "sent",
         req[r].op = "idle", req[r].step = "", place' = place, kept' \in KeptType,
         kept' = kept \/ ("list" \in stale' /\ kept'.current = kept.current /\ kept'.copy = kept.copy),
         stale \subseteq stale'
  PROVE  DirectoryIInv'
<1>1. DirectoryTyped'
  BY DirectoryStaysTyped DEF DirectoryIInv, DirectoryTyped
<1>2. AnswersHeld'
  BY AnswersStay DEF DirectoryIInv, AnswerRight
<1>3. ListHeld'
  BY ListStays, ListMarked DEF DirectoryIInv
<1>4. CurrentHeld'
  BY CurrentStays DEF DirectoryIInv
<1> QED
  BY <1>1, <1>2, <1>3, <1>4 DEF DirectoryIInv

LEMMA KeptPlaces ==
  ASSUME DirectoryTyped
  PROVE  kept.org \in Orgs /\ DOMAIN kept.list \subseteq Places /\ kept.list \in [DOMAIN kept.list -> Entry]
BY DEF DirectoryTyped, KeptType, Listings

LEMMA AskKeeps ==
  ASSUME DirectoryIInv, NEW r \in Requests,
         AskList(r) \/ Find(r) \/ Change(r) \/ New(r)
  PROVE  DirectoryIInv'
<1>1. DirectoryTyped /\ kept.org \in Orgs /\ kept \in KeptType
  BY KeptPlaces DEF DirectoryIInv, DirectoryTyped
<1>2. ASSUME NEW op \in DirectoryOps, NEW i \in Places \union {Nothing},
             op \in {"find", "update", "delete", "archive"} => i \in Places,
             Asking(r, op, i), UNCHANGED <<place, kept, stale>>
      PROVE  DirectoryIInv'
  <2>1. Ask(r, op, "sent", [org |-> kept.org, place |-> i, answer |-> Nothing])
    BY <1>2 DEF Asking
  <2>2. req[r].op = "idle" /\ req[r].step = ""
    BY <1>1, <1>2, <2>1, AskingGoes
  <2>3. PICK x \in DirectoryCall : CallGoes(r, x, {}) /\ x.op = op /\ x.step = "sent"
    BY <1>1, <1>2, <2>1, AskingGoes
  <2>4. x.op # "idle"
    BY <2>3 DEF DirectoryOps
  <2> QED
    BY <1>1, <1>2, <2>2, <2>3, <2>4, DirectoryAsks
<1>3. CASE AskList(r)
  BY <1>2, <1>3 DEF AskList, DirectoryOps
<1>4. CASE Find(r)
  <2>1. PICK i \in DOMAIN kept.list : Asking(r, "find", i) /\ UNCHANGED <<place, kept, stale>>
    BY <1>4 DEF Find
  <2>2. i \in Places
    BY <1>1, KeptPlaces
  <2> QED
    BY <1>2, <2>1, <2>2 DEF DirectoryOps
<1>5. CASE Change(r)
  <2>1. PICK i \in DOMAIN kept.list, op \in {"update", "delete", "archive"} :
          Asking(r, op, i) /\ UNCHANGED <<place, kept, stale>>
    BY <1>5 DEF Change
  <2>2. i \in Places
    BY <1>1, KeptPlaces
  <2> QED
    BY <1>2, <2>1, <2>2 DEF DirectoryOps
<1>6. CASE New(r)
  BY <1>2, <1>6 DEF New, DirectoryOps
<1> QED
  BY <1>3, <1>4, <1>5, <1>6

\* The tab does something that no call is part of.
LEMMA CallsStill ==
  ASSUME DirectoryIInv, req' = req, place' = place, kept' \in KeptType
  PROVE  /\ DirectoryTyped' /\ AnswersHeld'
         /\ \A i : /\ Corrected(i)' <=> Corrected(i)
                   /\ Overtaking(i)' <=> Overtaking(i)
                   /\ Added(i)' <=> Added(i)
         /\ Loading' <=> Loading
<1>1. DirectoryTyped'
  BY DEF DirectoryIInv, DirectoryTyped
<1>2. AnswersHeld'
  BY DEF DirectoryIInv, AnswersHeld, AnswerRight, Right, Listed, ListOf, Entries, Held
<1>3. \A i : /\ Corrected(i)' <=> Corrected(i)
             /\ Overtaking(i)' <=> Overtaking(i)
             /\ Added(i)' <=> Added(i)
  BY DEF Corrected, Overtaking, Added
<1>4. Loading' <=> Loading
  BY DEF Loading
<1> QED
  BY <1>1, <1>2, <1>3, <1>4

LEMMA EnterKeeps ==
  ASSUME DirectoryIInv, NEW r \in Requests, Enter(r)
  PROVE  DirectoryIInv'
<1>1. PICK o \in Orgs \ {kept.org} :
        /\ IF Joins(o) THEN UNCHANGED req
           ELSE Ask(r, "list", "sent", [org |-> o, place |-> Nothing, answer |-> Nothing])
        /\ kept' = [kept EXCEPT !.org = o] /\ stale' = stale \union {"list"} /\ place' = place
  BY DEF Enter
<1>2. kept' \in KeptType /\ kept'.current = kept.current /\ kept'.copy = kept.copy
  BY <1>1 DEF DirectoryIInv, DirectoryTyped, KeptType
<1>3. CASE req' = req
  <2>1. DirectoryTyped' /\ AnswersHeld' /\ ListHeld'
    BY <1>1, <1>2, <1>3, CallsStill, ListMarked
  <2>2. Corrected(kept.current)' <=> Corrected(kept.current)
    BY <1>1, <1>2, <1>3, CallsStill DEF Corrected
  <2>3. CurrentHeld'
    BY <1>1, <1>2, <1>3, <2>2 DEF DirectoryIInv, CurrentHeld, Right, Held, Corrected
  <2> QED
    BY <2>1, <2>3 DEF DirectoryIInv
<1>4. CASE Ask(r, "list", "sent", [org |-> o, place |-> Nothing, answer |-> Nothing])
  <2>1. "list" \in DirectoryOps /\ DirectoryTyped
    BY DEF DirectoryOps, DirectoryIInv
  <2>2. req[r].op = "idle" /\ req[r].step = ""
    BY <1>4, <2>1, AskingGoes
  <2>3. PICK x \in DirectoryCall : CallGoes(r, x, {}) /\ x.op = "list" /\ x.step = "sent"
    BY <1>4, <2>1, AskingGoes
  <2> QED
    BY <1>1, <1>2, <2>2, <2>3, DirectoryAsks
<1> QED
  BY <1>1, <1>3, <1>4

LEMMA SelectKeeps ==
  ASSUME DirectoryIInv, Select
  PROVE  DirectoryIInv'
<1>1. PICK i \in DOMAIN kept.list \union {Nothing} :
        kept' = [kept EXCEPT !.current = i, !.copy = IF i = Nothing THEN @ ELSE kept.list[i]]
  BY DEF Select
<1>2. req' = req /\ place' = place
      /\ stale' = IF "list" \in stale THEN stale \union {"current"} ELSE stale \ {"current"}
  BY DEF Select
<1>3. PICK e : e = IF i = Nothing THEN kept.copy ELSE kept.list[i]
  OBVIOUS
<1>4. kept \in KeptType /\ e \in Entry /\ i \in Places \union {Nothing}
  BY <1>3, KeptPlaces DEF DirectoryIInv, DirectoryTyped, KeptType
<1>5. kept' = [kept EXCEPT !.current = i, !.copy = e]
  BY <1>1, <1>3, <1>4 DEF KeptType
<1>6. /\ kept' \in KeptType /\ kept'.list = kept.list /\ kept'.org = kept.org /\ kept'.kind = kept.kind
      /\ kept'.current = i /\ kept'.copy = e
  BY <1>4, <1>5 DEF KeptType
<1>7. /\ DirectoryTyped' /\ AnswersHeld'
      /\ \A j : /\ Corrected(j)' <=> Corrected(j)
                /\ Overtaking(j)' <=> Overtaking(j)
                /\ Added(j)' <=> Added(j)
      /\ Loading' <=> Loading
  BY <1>2, <1>6, CallsStill
<1>8. ASSUME NEW j, EntryHeld(j) PROVE EntryHeld(j)'
  BY <1>2, <1>6, <1>7, <1>8 DEF EntryHeld, Right, Held
<1>9. ListHeld'
  BY <1>2, <1>6, <1>7, <1>8 DEF DirectoryIInv, ListHeld, Listed
<1>10. CurrentHeld'
  <2>1. CASE "list" \in stale \/ i = Nothing
    BY <1>2, <1>6, <2>1, CurrentMarked
  <2>2. CASE "list" \notin stale /\ i # Nothing
    <3>1. EntryHeld(i)
      BY <2>2 DEF DirectoryIInv, ListHeld
    <3>2. Right(i, e) \/ Corrected(i)
      BY <1>3, <2>2, <3>1 DEF EntryHeld
    <3>3. Right(i, e)' <=> Right(i, e)
      BY <1>2 DEF Right, Held
    <3> QED
      BY <1>6, <1>7, <3>2, <3>3 DEF CurrentHeld
  <2> QED
    BY <2>1, <2>2
<1> QED
  BY <1>7, <1>9, <1>10 DEF DirectoryIInv

LEMMA ServeReadKeeps ==
  ASSUME DirectoryIInv, NEW r \in Requests, ServeRead(r)
  PROVE  DirectoryIInv'
<1>1. req[r].step = "sent" /\ place' = place /\ kept' = kept /\ stale' = stale
  BY DEF ServeRead
<1>2. PICK w, z : w = req[r].with /\ z = req[r]
  OBVIOUS
<1>3. z \in DirectoryCall /\ CallShaped(z) /\ z.op # "idle" /\ w \in AskedFor /\ place \in [Places -> PlaceRow]
  BY <1>1, <1>2 DEF DirectoryIInv, DirectoryTyped, CallShaped
<1>4. \E a : /\ Answering(r, a)
             /\ \/ z.op = "list" /\ a = ListOf(w.org)
                \/ z.op = "find" /\ place[w.place].live /\ a = Held(w.place)
  BY <1>2 DEF ServeRead
<1>5. PICK a : /\ Answering(r, a)
               /\ \/ z.op = "list" /\ a = ListOf(w.org)
                  \/ z.op = "find" /\ place[w.place].live /\ a = Held(w.place)
  BY <1>4
<1>6. (z.op = "list" => a \in Listings) /\ (z.op = "find" => w.place \in Places /\ a \in Entry)
  <2>1. ASSUME NEW i \in Places PROVE Held(i) \in Entry
    BY <1>3 DEF Held, Entry, PlaceRow
  <2>2. PICK is : is = {i \in Places : place[i].live /\ ~place[i].archived /\ place[i].org = w.org}
    OBVIOUS
  <2>3. ListOf(w.org) = [i \in is |-> Held(i)] /\ is \in SUBSET Places
    BY <2>2 DEF ListOf, Entries
  <2>4. ListOf(w.org) \in [is -> Entry]
    BY <2>1, <2>3
  <2>5. ListOf(w.org) \in Listings
    BY <2>3, <2>4 DEF Listings
  <2> QED
    BY <1>2, <1>3, <1>5, <2>1, <2>5 DEF CallShaped
<1>7. PICK v : v = [w EXCEPT !.answer = a]
  OBVIOUS
<1>8. v \in AskedFor /\ v.org = w.org /\ v.place = w.place /\ v.answer = a
  BY <1>3, <1>5, <1>6, <1>7 DEF AskedFor
<1>9. PICK x : x = [z EXCEPT !.step = "answered", !.with = v, !.over = @ \ {"write"}]
  OBVIOUS
<1>10. x \in DirectoryCall /\ x.op = z.op /\ x.step = "answered" /\ x.with = v
  BY <1>3, <1>8, <1>9 DEF DirectoryCall
<1>11. req' = [req EXCEPT ![r] = x]
  <2>1. req' = [req EXCEPT ![r] = [z EXCEPT !.step = "answered", !.with.answer = a, !.over = @ \ {"write"}]]
    BY <1>2, <1>5 DEF Answering
  <2>2. [z EXCEPT !.step = "answered", !.with.answer = a, !.over = @ \ {"write"}] = x
    BY <1>2, <1>3, <1>7, <1>9 DEF DirectoryCall
  <2> QED
    BY <2>1, <2>2
<1>12. CallShaped(x)
  BY <1>3, <1>5, <1>6, <1>8, <1>10 DEF CallShaped
<1>13. CallGoes(r, x, {})
  BY <1>10, <1>11, <1>12 DEF CallGoes, DirectoryIInv, DirectoryTyped
<1>14. AnswerRight(x)'
  <2>1. AnswerRight(x)
    BY <1>5, <1>8, <1>10 DEF AnswerRight, Right
  <2> QED
    BY <1>1, <2>1 DEF AnswerRight, Right, Listed, ListOf, Entries, Held
<1>15. DirectoryTyped' /\ AnswersHeld'
  BY <1>1, <1>13, <1>14, DirectoryStaysTyped, AnswersStay DEF DirectoryIInv, DirectoryTyped
<1>16. ListHeld' /\ CurrentHeld'
  BY <1>1, <1>2, <1>10, <1>13, ListStays, CurrentStays DEF DirectoryIInv
<1> QED
  BY <1>15, <1>16 DEF DirectoryIInv

-----------------------------------------------------------------------------
\* Calls that mark the others.
LEMMA MarksOthers ==
  ASSUME DirectoryTyped, NEW r \in Requests, NEW x \in DirectoryCall, CallShaped(x),
         NEW m \in SUBSET {"list", "current", "write"},
         req' = [q \in Requests |-> IF q = r THEN x
                                    ELSE IF Active(q) THEN [req[q] EXCEPT !.over = @ \union m]
                                    ELSE req[q]]
  PROVE  CallGoes(r, x, m)
<1>1. ASSUME NEW q \in Requests \ {r}
      PROVE  /\ req'[q] \in DirectoryCall
             /\ req'[q].op = req[q].op /\ req'[q].step = req[q].step /\ req'[q].with = req[q].with
             /\ req'[q].over = IF req[q].op = "idle" THEN req[q].over ELSE req[q].over \union m
  <2>1. req[q] \in DirectoryCall
    BY DEF DirectoryTyped
  <2>2. CASE req[q].op = "idle"
    <3>1. req'[q] = req[q]
      BY <2>2 DEF Active
    <3> QED
      BY <2>1, <2>2, <3>1
  <2>3. CASE req[q].op # "idle"
    <3>1. req'[q] = [req[q] EXCEPT !.over = @ \union m]
      BY <2>3 DEF Active
    <3> QED
      BY <2>1, <2>3, <3>1 DEF DirectoryCall
  <2> QED
    BY <2>2, <2>3
<1>2. req'[r] = x
  OBVIOUS
<1>3. req' \in [Requests -> DirectoryCall]
  BY <1>1, <1>2
<1> QED
  BY <1>1, <1>2, <1>3 DEF CallGoes

LEMMA DoneGoes ==
  ASSUME DirectoryTyped, NEW r \in Requests, NEW m \in SUBSET {"list", "current", "write"}, Done(r, m)
  PROVE  CallGoes(r, Idle, m)
BY DirectoryIdle, MarksOthers DEF Done

-----------------------------------------------------------------------------
\* A write of the server: what becomes of its place, and of its call.
Wrote(w, op, i, z) ==
  \/ op = "create" /\ ~place[i].live /\ z.live /\ ~z.archived /\ z.org = w.org
  \/ /\ op \in {"update", "delete", "archive"} /\ i = w.place /\ place[i].live
     /\ z.org = place[i].org
     /\ op # "archive" => z.archived = place[i].archived
     /\ op = "update" => z.live
     /\ op = "delete" => ~z.live
     /\ op = "archive" => z.live /\ z.archived /\ z.edit = place[i].edit

Replies(x, y, i, z) ==
  /\ x.op = y.op /\ x.step = "answered" /\ x.over = {}
  /\ x.with.org = y.with.org /\ x.with.place = i /\ x.with.answer = [org |-> z.org, edit |-> z.edit]

LEMMA WriteRow ==
  ASSUME DirectoryTyped, NEW r \in Requests, ServeWrite(r)
  PROVE  \E i \in Places, z \in PlaceRow :
           /\ place' = [place EXCEPT ![i] = z]
           /\ Wrote(req[r].with, req[r].op, i, z)
           /\ req' = [q \in Requests |->
                IF q = r
                THEN IF req[r].step = "left" THEN Idle
                     ELSE [req[r] EXCEPT !.step = "answered", !.over = {}, !.with.place = i,
                             !.with.answer = [org |-> z.org, edit |-> z.edit]]
                ELSE IF Active(q) THEN [req[q] EXCEPT !.over = @ \union {"write"}] ELSE req[q]]
<1>1. PICK op : op = req[r].op
  OBVIOUS
<1>2. PICK i \in Places :
    /\ req[r].step \in {"sent", "left"}
    /\ \/ op = "create" /\ ~place[i].live
          /\ place' = [place EXCEPT ![i] = [live |-> TRUE, archived |-> FALSE,
                                           org |-> req[r].with.org, edit |-> 0]]
       \/ op \in {"update", "delete", "archive"} /\ i = req[r].with.place /\ place[i].live
          /\ place' = [place EXCEPT ![i] =
               CASE op = "update" -> [@ EXCEPT !.edit = place[i].edit + 1]
                 [] op = "delete" -> [@ EXCEPT !.live = FALSE]
                 [] OTHER -> [@ EXCEPT !.archived = TRUE]]
    /\ req' = [q \in Requests |->
                IF q = r
                THEN IF req[r].step = "left" THEN Idle
                     ELSE [req[r] EXCEPT !.step = "answered", !.over = {}, !.with.place = i,
                             !.with.answer = [org |-> place'[i].org, edit |-> place'[i].edit]]
                ELSE IF Active(q) THEN [req[q] EXCEPT !.over = @ \union {"write"}] ELSE req[q]]
  BY <1>1 DEF ServeWrite
<1>3. PICK y : y = place[i]
  OBVIOUS
<1>4. y \in PlaceRow
  BY <1>3 DEF DirectoryTyped
<1>5. req[r].with.org \in Orgs
  BY <1>2 DEF DirectoryTyped, CallShaped, AskedFor
<1>6. \E z \in PlaceRow : place' = [place EXCEPT ![i] = z] /\ Wrote(req[r].with, op, i, z)
  <2>1. CASE op = "create"
    <3>1. PICK z : z = [live |-> TRUE, archived |-> FALSE, org |-> req[r].with.org, edit |-> 0]
      OBVIOUS
    <3>2. z \in PlaceRow /\ z.live /\ ~z.archived /\ z.org = req[r].with.org
      BY <1>5, <3>1 DEF PlaceRow
    <3>3. place' = [place EXCEPT ![i] = z]
      BY <1>2, <2>1, <3>1
    <3>4. Wrote(req[r].with, op, i, z)
      BY <1>2, <2>1, <3>2 DEF Wrote
    <3> QED
      BY <3>2, <3>3, <3>4
  <2>2. CASE op = "update"
    <3>1. PICK z : z = [y EXCEPT !.edit = @ + 1]
      OBVIOUS
    <3>2. z \in PlaceRow /\ z.live = y.live /\ z.archived = y.archived /\ z.org = y.org
      BY <1>4, <3>1 DEF PlaceRow
    <3>3. place' = [place EXCEPT ![i] = z]
      BY <1>2, <1>3, <2>2, <3>1
    <3>4. Wrote(req[r].with, op, i, z)
      BY <1>2, <1>3, <2>2, <3>2 DEF Wrote
    <3> QED
      BY <3>2, <3>3, <3>4
  <2>3. CASE op = "delete"
    <3>1. PICK z : z = [y EXCEPT !.live = FALSE]
      OBVIOUS
    <3>2. z \in PlaceRow /\ ~z.live /\ z.archived = y.archived /\ z.org = y.org
      BY <1>4, <3>1 DEF PlaceRow
    <3>3. place' = [place EXCEPT ![i] = z]
      BY <1>2, <1>3, <2>3, <3>1
    <3>4. Wrote(req[r].with, op, i, z)
      BY <1>2, <1>3, <2>3, <3>2 DEF Wrote
    <3> QED
      BY <3>2, <3>3, <3>4
  <2>4. CASE op = "archive"
    <3>1. PICK z : z = [y EXCEPT !.archived = TRUE]
      OBVIOUS
    <3>2. z \in PlaceRow /\ z.live = y.live /\ z.archived /\ z.org = y.org /\ z.edit = y.edit
      BY <1>4, <3>1 DEF PlaceRow
    <3>3. place' = [place EXCEPT ![i] = z]
      BY <1>2, <1>3, <2>4, <3>1
    <3>4. Wrote(req[r].with, op, i, z)
      BY <1>2, <1>3, <2>4, <3>2 DEF Wrote
    <3> QED
      BY <3>2, <3>3, <3>4
  <2> QED
    BY <1>2, <2>1, <2>2, <2>3, <2>4
<1>7. PICK z \in PlaceRow : place' = [place EXCEPT ![i] = z] /\ Wrote(req[r].with, op, i, z)
  BY <1>6
<1>8. place'[i] = z
  BY <1>7 DEF DirectoryTyped
<1>9. req' = [q \in Requests |->
                IF q = r
                THEN IF req[r].step = "left" THEN Idle
                     ELSE [req[r] EXCEPT !.step = "answered", !.over = {}, !.with.place = i,
                             !.with.answer = [org |-> z.org, edit |-> z.edit]]
                ELSE IF Active(q) THEN [req[q] EXCEPT !.over = @ \union {"write"}] ELSE req[q]]
  BY <1>2, <1>8
<1> QED
  BY <1>1, <1>7, <1>9

LEMMA ServeWriteGoes ==
  ASSUME DirectoryTyped, NEW r \in Requests, ServeWrite(r)
  PROVE  \E i \in Places, z \in PlaceRow, x \in DirectoryCall :
           /\ place' = [place EXCEPT ![i] = z]
           /\ Wrote(req[r].with, req[r].op, i, z)
           /\ CallGoes(r, x, {"write"})
           /\ \/ x = Idle /\ stale' = {"list", "current"}
              \/ req[r].step = "sent" /\ Replies(x, req[r], i, z) /\ stale' = stale
<1>1. PICK i \in Places, z \in PlaceRow :
           /\ place' = [place EXCEPT ![i] = z]
           /\ Wrote(req[r].with, req[r].op, i, z)
           /\ req' = [q \in Requests |->
                IF q = r
                THEN IF req[r].step = "left" THEN Idle
                     ELSE [req[r] EXCEPT !.step = "answered", !.over = {}, !.with.place = i,
                             !.with.answer = [org |-> z.org, edit |-> z.edit]]
                ELSE IF Active(q) THEN [req[q] EXCEPT !.over = @ \union {"write"}] ELSE req[q]]
  BY WriteRow
<1>2. PICK y : y = req[r]
  OBVIOUS
<1>3. y \in DirectoryCall /\ CallShaped(y) /\ y.op \in Writings /\ y.step \in {"sent", "left"}
  BY <1>1, <1>2 DEF DirectoryTyped, Wrote, Writings, ServeWrite
<1>4. CASE y.step = "left"
  <2>1. req' = [q \in Requests |-> IF q = r THEN Idle
                                   ELSE IF Active(q) THEN [req[q] EXCEPT !.over = @ \union {"write"}]
                                   ELSE req[q]]
    BY <1>1, <1>2, <1>4
  <2>2. CallGoes(r, Idle, {"write"})
    BY <2>1, DirectoryIdle, MarksOthers
  <2>3. stale' = {"list", "current"}
    BY <1>2, <1>4 DEF ServeWrite
  <2> QED
    BY <1>1, <2>2, <2>3, DirectoryIdle
<1>5. CASE y.step = "sent"
  <2>1. PICK w, a : w = y.with /\ a = [org |-> z.org, edit |-> z.edit]
    OBVIOUS
  <2>2. w \in AskedFor /\ a \in Entry
    BY <1>3, <1>5, <2>1 DEF CallShaped, Entry, PlaceRow, Writings
  <2>3. PICK v : v = [w EXCEPT !.place = i, !.answer = a]
    OBVIOUS
  <2>4. v \in AskedFor /\ v.org = w.org /\ v.place = i /\ v.answer = a
    BY <2>2, <2>3 DEF AskedFor
  <2>5. PICK x : x = [y EXCEPT !.step = "answered", !.over = {}, !.with = v]
    OBVIOUS
  <2>6. x \in DirectoryCall /\ x.op = y.op /\ x.step = "answered" /\ x.over = {} /\ x.with = v
    BY <1>3, <2>4, <2>5 DEF DirectoryCall
  <2>7. [y EXCEPT !.step = "answered", !.over = {}, !.with.place = i, !.with.answer = a] = x
    BY <1>3, <2>1, <2>3, <2>5 DEF DirectoryCall
  <2>8. req' = [q \in Requests |-> IF q = r THEN x
                                   ELSE IF Active(q) THEN [req[q] EXCEPT !.over = @ \union {"write"}]
                                   ELSE req[q]]
    BY <1>1, <1>2, <1>5, <2>1, <2>7
  <2>9. CallShaped(x)
    BY <1>3, <2>2, <2>4, <2>6 DEF CallShaped, Writings
  <2>10. CallGoes(r, x, {"write"})
    BY <2>6, <2>8, <2>9, MarksOthers
  <2>11. Replies(x, req[r], i, z)
    BY <1>2, <2>1, <2>4, <2>6 DEF Replies
  <2>12. stale' = stale
    BY <1>2, <1>5 DEF ServeWrite
  <2> QED
    BY <1>1, <1>2, <1>5, <2>6, <2>10, <2>11, <2>12
<1> QED
  BY <1>3, <1>4, <1>5

\* Place i after the write: what held of an entry of it, or is corrected.
LEMMA WrittenEntry ==
  ASSUME DirectoryTyped, NEW r \in Requests, NEW i \in Places, NEW z \in PlaceRow, NEW x,
         place' = [place EXCEPT ![i] = z], Wrote(req[r].with, req[r].op, i, z),
         CallGoes(r, x, {"write"}), req[r].step = "sent", Replies(x, req[r], i, z),
         NEW j \in Places, NEW e
  PROVE  /\ Right(j, e) \/ Corrected(j) => Right(j, e)' \/ Corrected(j)'
         /\ Right(j, e) \/ Corrected(j) =>
              \A o : place[j].org = o \/ Overtaking(j) => place'[j].org = o \/ Overtaking(j)'
         /\ (place[j].archived => Loading) => (place'[j].archived => Loading')
         /\ \A o : Listed(j, o)' => Listed(j, o) \/ Added(j)'
<1>1. /\ Corrected(j) => Corrected(j)' /\ Overtaking(j)'
      /\ Overtaking(j) => Overtaking(j)'
      /\ Loading => Loading'
      /\ Corrects(x, j) => Corrected(j)'
      /\ Adds(x, j) => Added(j)'
      /\ Loads(x) => Loading'
  BY CoversStay DEF Corrects, Loads, Wrote
<1>2. CASE j # i
  <2>1. place'[j] = place[j]
    BY <1>2 DEF DirectoryTyped
  <2> QED
    BY <1>1, <2>1 DEF Right, Held, Listed
<1>3. CASE j = i
  <2>1. place'[j] = z
    BY <1>3 DEF DirectoryTyped
  <2>2. CASE req[r].op = "create"
    <3>1. ~place[j].live /\ z.live /\ ~z.archived
      BY <1>3, <2>2 DEF Wrote
    <3>2. Adds(x, j)
      BY <1>3, <2>2 DEF Adds, Replies
    <3> QED
      BY <1>1, <2>1, <3>1, <3>2 DEF Right
  <2>3. CASE req[r].op = "archive"
    <3>1. place[j].live /\ z.live /\ z.archived /\ z.org = place[j].org /\ z.edit = place[j].edit
      BY <1>3, <2>3 DEF Wrote
    <3>2. Loads(x)
      BY <2>3 DEF Loads, Replies
    <3>3. Right(j, e) => Right(j, e)'
      BY <2>1, <3>1 DEF Right, Held
    <3> QED
      BY <1>1, <2>1, <3>1, <3>2, <3>3 DEF Listed
  <2>4. CASE req[r].op \in {"update", "delete"}
    <3>1. /\ place[j].live /\ z.org = place[j].org
          /\ z.archived = place[j].archived
      BY <1>3, <2>4 DEF Wrote
    <3>2. Corrects(x, j)
      BY <1>3, <2>4 DEF Corrects, Replies
    <3> QED
      BY <1>1, <2>1, <3>1, <3>2 DEF Listed
  <2> QED
    BY <2>2, <2>3, <2>4 DEF Wrote
<1> QED
  BY <1>2, <1>3

LEMMA ServeWriteKeeps ==
  ASSUME DirectoryIInv, NEW r \in Requests, ServeWrite(r)
  PROVE  DirectoryIInv'
<1>1. DirectoryTyped /\ kept' = kept
  BY DEF DirectoryIInv, ServeWrite
<1>2. PICK i \in Places, z \in PlaceRow, x \in DirectoryCall :
           /\ place' = [place EXCEPT ![i] = z]
           /\ Wrote(req[r].with, req[r].op, i, z)
           /\ CallGoes(r, x, {"write"})
           /\ \/ x = Idle /\ stale' = {"list", "current"}
              \/ req[r].step = "sent" /\ Replies(x, req[r], i, z) /\ stale' = stale
  BY <1>1, ServeWriteGoes
<1>3. place' \in [Places -> PlaceRow] /\ place'[i] = z /\ kept' \in KeptType
  BY <1>1, <1>2 DEF DirectoryTyped
<1>4. DirectoryTyped'
  BY <1>1, <1>2, <1>3, DirectoryStaysTyped
<1>5. CASE x = Idle /\ stale' = {"list", "current"}
  <2>1. AnswerRight(x)'
    BY <1>5, DirectoryIdle DEF AnswerRight
  <2> QED
    BY <1>1, <1>2, <1>4, <1>5, <2>1, AnswersStay, ListMarked, CurrentMarked DEF DirectoryIInv
<1>6. CASE req[r].step = "sent" /\ Replies(x, req[r], i, z) /\ stale' = stale
  <2>1. AnswerRight(x)'
    <3>1. Held(i)' = x.with.answer /\ (x.op # "delete" => z.live)
      BY <1>2, <1>3, <1>6 DEF Held, Replies, Wrote
    <3> QED
      BY <1>2, <1>3, <1>6, <3>1 DEF AnswerRight, Right, Listed, Replies, Wrote
  <2>2. AnswersHeld'
    BY <1>1, <1>2, <2>1, AnswersStay DEF DirectoryIInv
  <2>3. ASSUME NEW j \in Places, NEW e
        PROVE  /\ Right(j, e) \/ Corrected(j) => Right(j, e)' \/ Corrected(j)'
               /\ Right(j, e) \/ Corrected(j) =>
                    \A o : place[j].org = o \/ Overtaking(j) => place'[j].org = o \/ Overtaking(j)'
               /\ (place[j].archived => Loading) => (place'[j].archived => Loading')
               /\ \A o : Listed(j, o)' => Listed(j, o) \/ Added(j)'
    BY <1>1, <1>2, <1>6, WrittenEntry
  <2>4. ListHeld'
    <3>1. SUFFICES ASSUME "list" \notin stale
                   PROVE  /\ \A j \in DOMAIN kept.list : EntryHeld(j)'
                          /\ kept.kind # "members" =>
                               \A j \in Places : Listed(j, kept.org)' => j \in DOMAIN kept.list \/ Added(j)'
      BY <1>1, <1>6 DEF ListHeld
    <3>2. ASSUME NEW j \in DOMAIN kept.list PROVE EntryHeld(j)'
      <4>1. EntryHeld(j) /\ j \in Places
        BY <1>1, <3>1, KeptPlaces DEF DirectoryIInv, ListHeld
      <4>2. PICK e, o : e = kept.list[j] /\ o = kept.org
        OBVIOUS
      <4>3. Right(j, e)' \/ Corrected(j)'
        BY <2>3, <4>1, <4>2 DEF EntryHeld
      <4>4. place'[j].org = o \/ Overtaking(j)'
        BY <2>3, <4>1, <4>2 DEF EntryHeld
      <4>5. place'[j].archived => Loading'
        BY <2>3, <4>1, <4>2 DEF EntryHeld
      <4> QED
        BY <1>1, <4>2, <4>3, <4>4, <4>5 DEF EntryHeld
    <3>3. ASSUME kept.kind # "members", NEW j \in Places, Listed(j, kept.org)'
          PROVE  j \in DOMAIN kept.list \/ Added(j)'
      <4>1. PICK o : o = kept.org
        OBVIOUS
      <4>2. Listed(j, o)'
        BY <1>1, <3>3, <4>1 DEF Listed
      <4>3. Listed(j, o) \/ Added(j)'
        BY <2>3, <4>2
      <4>4. Added(j) => Added(j)'
        BY <1>2, <1>6, CoversStay DEF Adds
      <4> QED
        BY <3>1, <3>3, <4>1, <4>3, <4>4 DEF DirectoryIInv, ListHeld
    <3> QED
      BY <3>2, <3>3
  <2>5. CurrentHeld'
    <3>1. SUFFICES ASSUME "current" \notin stale, kept.current # Nothing
                   PROVE  Right(kept.current, kept.copy)' \/ Corrected(kept.current)'
      BY <1>1, <1>6 DEF CurrentHeld
    <3>2. PICK j, e : j = kept.current /\ e = kept.copy
      OBVIOUS
    <3>3. j \in Places
      BY <3>1, <3>2 DEF DirectoryIInv, DirectoryTyped, KeptType
    <3>4. Right(j, e) \/ Corrected(j)
      BY <3>1, <3>2 DEF DirectoryIInv, CurrentHeld
    <3>5. Right(j, e)' \/ Corrected(j)'
      BY <2>3, <3>3, <3>4
    <3> QED
      BY <1>1, <3>2, <3>5 DEF Right, Held, Corrected
  <2> QED
    BY <1>4, <2>2, <2>4, <2>5 DEF DirectoryIInv
<1> QED
  BY <1>2, <1>5, <1>6

-----------------------------------------------------------------------------
\* Answers that arrive.
LEMMA ListingOf == ASSUME NEW is \in SUBSET Places, NEW f \in [is -> Entry] PROVE f \in Listings
BY DEF Listings

LEMMA Arrives ==
  ASSUME DirectoryIInv, NEW r \in Requests, req[r].step = "answered", req[r].op # "idle"
  PROVE  /\ DirectoryTyped /\ kept \in KeptType
         /\ req[r].with \in AskedFor /\ CallShaped(req[r]) /\ AnswerRight(req[r])
         /\ \A part : ~Overtook(r, part) => "write" \notin req[r].over
BY DEF DirectoryIInv, DirectoryTyped, AnswersHeld, CallShaped, Overtook

LEMMA DoneKeeps ==
  ASSUME DirectoryIInv, NEW r \in Requests, NEW m \in SUBSET {"list", "current", "write"}, Done(r, m),
         place' = place, kept' \in KeptType
  PROVE  /\ DirectoryTyped' /\ AnswersHeld' /\ CallGoes(r, Idle, m)
         /\ \A i, e : Right(i, e)' <=> Right(i, e)
         /\ \A i, o : Listed(i, o)' <=> Listed(i, o)
<1>1. CallGoes(r, Idle, m)
  BY DoneGoes DEF DirectoryIInv
<1>2. AnswerRight(Idle)'
  BY DirectoryIdle DEF AnswerRight
<1>3. DirectoryTyped' /\ AnswersHeld'
  BY <1>1, <1>2, DirectoryStaysTyped, AnswersStay DEF DirectoryIInv, DirectoryTyped
<1> QED
  BY <1>1, <1>3 DEF Right, Listed, Held

LEMMA ListLoadedKeeps ==
  ASSUME DirectoryIInv, NEW r \in Requests, ListLoaded(r)
  PROVE  DirectoryIInv'
<1>1. PICK w : w = req[r].with
  OBVIOUS
<1>2. /\ req[r].op = "list" /\ req[r].step = "answered" /\ kept' = [kept EXCEPT !.list = w.answer]
      /\ stale' = (stale \ {"list"}) \union Marked(r, "list")
                  \union (IF w.org # kept.org THEN {"list"} ELSE {})
      /\ Done(r, {"list"}) /\ place' = place
  BY <1>1 DEF ListLoaded
<1>3. /\ DirectoryTyped /\ kept \in KeptType /\ w.answer \in Listings /\ AnswerRight(req[r])
      /\ ~Overtook(r, "list") => "write" \notin req[r].over
  BY <1>1, <1>2, Arrives DEF CallShaped
<1>4. /\ kept' \in KeptType /\ kept'.list = w.answer /\ kept'.org = kept.org /\ kept'.kind = kept.kind
      /\ kept'.current = kept.current /\ kept'.copy = kept.copy
  BY <1>2, <1>3 DEF KeptType
<1>5. DirectoryTyped' /\ AnswersHeld' /\ CallGoes(r, Idle, {"list"})
  BY <1>2, <1>4, DoneKeeps
<1>6. CurrentHeld'
  BY <1>2, <1>4, <1>5, CurrentStays DEF DirectoryIInv
<1>7. ListHeld'
  <2>1. SUFFICES ASSUME "list" \notin stale'
                 PROVE  ListHeld'
    BY ListMarked
  <2>2. w.org = kept.org /\ "write" \notin req[r].over
    BY <1>2, <1>3, <2>1 DEF Marked
  <2>3. w.answer = ListOf(kept.org)
    BY <1>1, <1>2, <1>3, <2>2 DEF AnswerRight
  <2>4. PICK f, o : f = ListOf(o) /\ o = kept.org
    OBVIOUS
  <2>5. /\ DOMAIN f = {i \in Places : Listed(i, o)}
        /\ \A i \in DOMAIN f : f[i] = Held(i)
    BY <2>4 DEF ListOf, Entries, Listed
  <2>6. ASSUME NEW i \in DOMAIN f PROVE EntryHeld(i)'
    <3>1. Right(i, f[i])' /\ place'[i].org = o /\ ~place'[i].archived
      BY <1>2, <2>5 DEF Right, Listed, Held
    <3> QED
      BY <1>4, <2>3, <2>4, <3>1 DEF EntryHeld
  <2>7. ASSUME NEW i \in Places, Listed(i, o)' PROVE i \in DOMAIN f
    BY <1>2, <2>5, <2>7 DEF Listed
  <2> QED
    BY <1>4, <2>3, <2>4, <2>6, <2>7 DEF ListHeld, Listed
<1> QED
  BY <1>5, <1>6, <1>7 DEF DirectoryIInv

LEMMA FoundKeeps ==
  ASSUME DirectoryIInv, NEW r \in Requests, Found(r)
  PROVE  DirectoryIInv'
<1>1. PICK w : w = req[r].with
  OBVIOUS
<1>2. /\ req[r].op = "find" /\ req[r].step = "answered" /\ Done(r, {"current"}) /\ place' = place
      /\ \/ kept' = kept /\ stale' = stale
         \/ /\ kept' = [kept EXCEPT !.current = w.place, !.copy = w.answer]
            /\ stale' = (stale \ {"current"}) \union Marked(r, "current")
  BY <1>1 DEF Found
<1>3. /\ DirectoryTyped /\ kept \in KeptType /\ w.answer \in Entry /\ w.place \in Places
      /\ AnswerRight(req[r]) /\ (~Overtook(r, "current") => "write" \notin req[r].over)
  BY <1>1, <1>2, Arrives DEF CallShaped
<1>4. /\ kept' \in KeptType /\ kept'.list = kept.list /\ kept'.org = kept.org /\ kept'.kind = kept.kind
      /\ "list" \in stale => "list" \in stale'
  BY <1>2, <1>3 DEF KeptType
<1>5. /\ DirectoryTyped' /\ AnswersHeld' /\ CallGoes(r, Idle, {"current"})
      /\ \A i, e : Right(i, e)' <=> Right(i, e)
  BY <1>2, <1>4, DoneKeeps
<1>6. ListHeld'
  <2>1. req[r].op # "list" /\ req[r].op \notin Writings
    BY <1>2 DEF Writings
  <2> QED
    BY <1>2, <1>4, <1>5, <2>1, ListStays DEF DirectoryIInv
<1>7. CurrentHeld'
  <2>1. CASE kept' = kept /\ stale' = stale
    BY <1>2, <1>5, <2>1, CurrentStays DEF DirectoryIInv
  <2>2. CASE /\ kept' = [kept EXCEPT !.current = w.place, !.copy = w.answer]
             /\ stale' = (stale \ {"current"}) \union Marked(r, "current")
    <3>1. CASE Overtook(r, "current")
      BY <2>2, <3>1, CurrentMarked DEF Marked
    <3>2. CASE ~Overtook(r, "current")
      <4>1. Right(w.place, w.answer)
        BY <1>1, <1>2, <1>3, <3>2 DEF AnswerRight
      <4>2. kept'.current = w.place /\ kept'.copy = w.answer
        BY <1>3, <2>2 DEF KeptType
      <4> QED
        BY <1>5, <4>1, <4>2 DEF CurrentHeld
    <3> QED
      BY <3>1, <3>2
  <2> QED
    BY <1>2, <2>1, <2>2
<1> QED
  BY <1>5, <1>6, <1>7 DEF DirectoryIInv

\* An entry that the answer is not about.
LEMMA EntryStays ==
  ASSUME NEW r \in Requests, NEW x, NEW m, CallGoes(r, x, m), NEW j, EntryHeld(j),
         place' = place, kept'.org = kept.org, kept'.list[j] = kept.list[j],
         ~Corrects(req[r], j), ~Loads(req[r]) \/ Loading'
  PROVE  EntryHeld(j)'
<1>1. /\ Corrected(j) => Corrected(j)'
      /\ Overtaking(j) => Overtaking(j)'
      /\ Loading => Loading'
  BY CoversStay
<1> QED
  BY <1>1 DEF EntryHeld, Right, Held

\* A place that is listed, and not added by the answer.
LEMMA ListedStays ==
  ASSUME ListHeld, "list" \notin stale, kept.kind # "members", NEW r \in Requests, NEW x, NEW m,
         CallGoes(r, x, m), NEW j \in Places, ~Adds(req[r], j), Listed(j, kept.org)
  PROVE  j \in DOMAIN kept.list \/ Added(j)'
BY CoversStay DEF ListHeld

LEMMA CreatedKeeps ==
  ASSUME DirectoryIInv, NEW r \in Requests, Created(r)
  PROVE  DirectoryIInv'
<1>1. PICK w, f : w = req[r].with /\ f = kept.list
  OBVIOUS
<1>2. PICK g : g = [i \in DOMAIN f \union {w.place} |-> IF i = w.place THEN w.answer ELSE f[i]]
  OBVIOUS
<1>3. /\ req[r].op = "create" /\ req[r].step = "answered" /\ Done(r, {"list"}) /\ place' = place
      /\ \/ kept' = kept /\ kept.kind = "members"
         \/ kept' = [kept EXCEPT !.list = g]
      /\ stale' = stale \union Marked(r, "list") \union (IF w.org # kept.org THEN {"list"} ELSE {})
  BY <1>1, <1>2 DEF Created
<1>4. /\ DirectoryTyped /\ kept \in KeptType /\ w.answer \in Entry /\ w.place \in Places
      /\ AnswerRight(req[r]) /\ (~Overtook(r, "list") => "write" \notin req[r].over)
  BY <1>1, <1>3, Arrives DEF CallShaped
<1>5. DOMAIN f \subseteq Places /\ f \in [DOMAIN f -> Entry]
  BY <1>1, <1>4, KeptPlaces
<1>6. g \in [DOMAIN f \union {w.place} -> Entry] /\ DOMAIN f \union {w.place} \in SUBSET Places
  BY <1>2, <1>4, <1>5
<1>7. g \in Listings /\ DOMAIN g = DOMAIN f \union {w.place}
  BY <1>6, ListingOf
<1>8. PICK h : h = IF kept' = kept /\ kept.kind = "members" THEN f ELSE g
  OBVIOUS
<1>9. /\ kept' \in KeptType /\ kept'.org = kept.org /\ kept'.kind = kept.kind /\ kept'.list = h
      /\ kept'.current = kept.current /\ kept'.copy = kept.copy
  BY <1>1, <1>3, <1>4, <1>7, <1>8 DEF KeptType
<1>10. /\ DirectoryTyped' /\ AnswersHeld' /\ CallGoes(r, Idle, {"list"})
       /\ \A i, e : Right(i, e)' <=> Right(i, e)
       /\ \A i, o : Listed(i, o)' <=> Listed(i, o)
  BY <1>3, <1>9, DoneKeeps
<1>11. CurrentHeld'
  BY <1>3, <1>9, <1>10, CurrentStays DEF DirectoryIInv
<1>12. ListHeld'
  <2>1. SUFFICES ASSUME "list" \notin stale'
                 PROVE  ListHeld'
    BY ListMarked
  <2>2. "list" \notin stale /\ w.org = kept.org /\ "write" \notin req[r].over
    BY <1>3, <1>4, <2>1 DEF Marked
  <2>3. Right(w.place, w.answer) /\ Listed(w.place, kept.org)
    BY <1>1, <1>3, <1>4, <2>2 DEF AnswerRight
  <2>4. \A j : ~Corrects(req[r], j) /\ ~Loads(req[r])
    BY <1>3 DEF Corrects, Loads
  <2>5. ASSUME NEW j \in DOMAIN h PROVE EntryHeld(j)'
    <3>1. CASE j \in DOMAIN f /\ h[j] = f[j]
      <4>1. EntryHeld(j)
        BY <1>1, <2>2, <3>1 DEF DirectoryIInv, ListHeld
      <4> QED
        BY <1>1, <1>3, <1>9, <1>10, <2>4, <3>1, <4>1, EntryStays
    <3>2. CASE j = w.place /\ h[j] = w.answer
      <4>1. Right(j, h[j])' /\ place'[j].org = kept.org /\ ~place'[j].archived
        BY <1>3, <1>10, <2>3, <3>2 DEF Listed
      <4> QED
        BY <1>9, <4>1 DEF EntryHeld
    <3> QED
      BY <1>2, <1>7, <1>8, <3>1, <3>2
  <2>6. ASSUME kept.kind # "members", NEW j \in Places, Listed(j, kept.org)
        PROVE  j \in DOMAIN h \/ Added(j)'
    <3>1. CASE j = w.place
      BY <1>7, <1>8, <2>6, <3>1
    <3>2. CASE j # w.place
      <4>1. ~Adds(req[r], j)
        BY <1>1, <3>2 DEF Adds
      <4>2. j \in DOMAIN kept.list \/ Added(j)'
        BY <1>10, <2>2, <2>6, <4>1, ListedStays DEF DirectoryIInv
      <4> QED
        BY <1>1, <1>7, <1>8, <4>2
    <3> QED
      BY <3>1, <3>2
  <2> QED
    BY <1>9, <1>10, <2>5, <2>6 DEF ListHeld, Listed
<1> QED
  BY <1>10, <1>11, <1>12 DEF DirectoryIInv

LEMMA UpdatedKeeps ==
  ASSUME DirectoryIInv, NEW r \in Requests, Updated(r)
  PROVE  DirectoryIInv'
<1>1. PICK w, f, c : w = req[r].with /\ f = kept.list
                     /\ c = IF kept.current = w.place THEN w.answer ELSE kept.copy
  OBVIOUS
<1>2. PICK g : g = [i \in DOMAIN f |-> IF i = w.place THEN w.answer ELSE f[i]]
  OBVIOUS
<1>3. /\ req[r].op = "update" /\ req[r].step = "answered" /\ Done(r, {"list", "current"}) /\ place' = place
      /\ kept' = [kept EXCEPT !.list = g, !.copy = c]
      /\ stale' = stale \union Marked(r, "list") \union Marked(r, "current")
  BY <1>1, <1>2 DEF Updated
<1>4. /\ DirectoryTyped /\ kept \in KeptType /\ w.answer \in Entry /\ w.place \in Places
      /\ AnswerRight(req[r])
      /\ \A part : ~Overtook(r, part) => "write" \notin req[r].over
  BY <1>1, <1>3, Arrives DEF CallShaped
<1>5. DOMAIN f \subseteq Places /\ f \in [DOMAIN f -> Entry]
  BY <1>1, <1>4, KeptPlaces
<1>6. g \in [DOMAIN f -> Entry] /\ DOMAIN f \in SUBSET Places /\ c \in Entry
  BY <1>1, <1>2, <1>4, <1>5 DEF KeptType
<1>7. g \in Listings /\ DOMAIN g = DOMAIN f
  BY <1>6, ListingOf
<1>8. /\ kept' \in KeptType /\ kept'.org = kept.org /\ kept'.kind = kept.kind /\ kept'.list = g
      /\ kept'.current = kept.current /\ kept'.copy = c
  BY <1>3, <1>4, <1>6, <1>7 DEF KeptType
<1>9. /\ DirectoryTyped' /\ AnswersHeld' /\ CallGoes(r, Idle, {"list", "current"})
      /\ \A i, e : Right(i, e)' <=> Right(i, e)
      /\ \A i, o : Listed(i, o)' <=> Listed(i, o)
  BY <1>3, <1>8, DoneKeeps
<1>10. ASSUME "list" \notin stale' \/ "current" \notin stale'
       PROVE  "write" \notin req[r].over /\ Right(w.place, w.answer)
  <2>1. "write" \notin req[r].over
    BY <1>3, <1>4, <1>10 DEF Marked
  <2> QED
    BY <1>1, <1>3, <1>4, <2>1 DEF AnswerRight
<1>11. \A j : /\ j # w.place => ~Corrects(req[r], j)
              /\ ~Loads(req[r]) /\ ~Adds(req[r], j)
  BY <1>1, <1>3 DEF Corrects, Loads, Adds
<1>12. CurrentHeld'
  <2>1. SUFFICES ASSUME "current" \notin stale', kept.current # Nothing
                 PROVE  Right(kept.current, c) \/ Corrected(kept.current)'
    BY <1>3, <1>8, <1>9 DEF CurrentHeld, Corrected
  <2>2. CASE kept.current = w.place
    BY <1>1, <1>10, <2>1, <2>2
  <2>3. CASE kept.current # w.place
    <3>1. Right(kept.current, kept.copy) \/ Corrected(kept.current)
      BY <1>3, <2>1 DEF DirectoryIInv, CurrentHeld
    <3>2. PICK j : j = kept.current
      OBVIOUS
    <3>3. Corrected(j) => Corrected(j)'
      BY <1>9, <1>11, <2>3, <3>2, CoversStay
    <3>4. Corrected(kept.current) => Corrected(kept.current)'
      BY <1>8, <3>2, <3>3 DEF Corrected
    <3> QED
      BY <1>1, <2>3, <3>1, <3>4
  <2> QED
    BY <2>2, <2>3
<1>13. ListHeld'
  <2>1. SUFFICES ASSUME "list" \notin stale'
                 PROVE  ListHeld'
    BY ListMarked
  <2>2. "list" \notin stale /\ "write" \notin req[r].over /\ Right(w.place, w.answer)
    BY <1>3, <1>10, <2>1
  <2>3. ASSUME NEW j \in DOMAIN g PROVE EntryHeld(j)'
    <3>1. EntryHeld(j)
      BY <1>1, <1>7, <2>2 DEF DirectoryIInv, ListHeld
    <3>2. CASE j # w.place
      <4>1. g[j] = f[j]
        BY <1>2, <1>7, <3>2
      <4> QED
        BY <1>1, <1>3, <1>8, <1>9, <1>11, <3>1, <3>2, <4>1, EntryStays
    <3>3. CASE j = w.place
      <4>1. Right(j, g[j])'
        BY <1>2, <1>7, <1>9, <2>2, <3>3
      <4>2. (Overtaking(j) => Overtaking(j)') /\ (Loading => Loading')
        BY <1>9, <1>11, <2>2, CoversStay
      <4> QED
        BY <1>3, <1>8, <3>1, <4>1, <4>2 DEF EntryHeld
    <3> QED
      BY <3>2, <3>3
  <2>4. ASSUME kept.kind # "members", NEW j \in Places, Listed(j, kept.org)
        PROVE  j \in DOMAIN g \/ Added(j)'
    BY <1>1, <1>7, <1>9, <1>11, <2>2, <2>4, ListedStays DEF DirectoryIInv
  <2> QED
    BY <1>8, <1>9, <2>3, <2>4 DEF ListHeld, Listed
<1> QED
  BY <1>9, <1>12, <1>13 DEF DirectoryIInv

LEMMA DeletedKeeps ==
  ASSUME DirectoryIInv, NEW r \in Requests, Deleted(r)
  PROVE  DirectoryIInv'
<1>1. PICK w, f, c : w = req[r].with /\ f = kept.list
                     /\ c = IF kept.current = w.place THEN Nothing ELSE kept.current
  OBVIOUS
<1>2. PICK g : g = Restrict(f, DOMAIN f \ {w.place})
  OBVIOUS
<1>3. /\ req[r].op = "delete" /\ req[r].step = "answered" /\ Done(r, {"list", "current"}) /\ place' = place
      /\ kept' = [kept EXCEPT !.list = g, !.current = c]
      /\ stale' = stale \union Marked(r, "list") \union Marked(r, "current")
  BY <1>1, <1>2 DEF Deleted
<1>4. /\ DirectoryTyped /\ kept \in KeptType /\ w.place \in Places
      /\ AnswerRight(req[r])
      /\ \A part : ~Overtook(r, part) => "write" \notin req[r].over
  BY <1>1, <1>3, Arrives DEF CallShaped
<1>5. DOMAIN f \subseteq Places /\ f \in [DOMAIN f -> Entry]
  BY <1>1, <1>4, KeptPlaces
<1>6. PICK is : is = DOMAIN f \ {w.place}
  OBVIOUS
<1>7. g = [i \in is |-> f[i]] /\ is \in SUBSET Places /\ is \subseteq DOMAIN f
  BY <1>2, <1>5, <1>6 DEF Restrict
<1>8. g \in Listings /\ DOMAIN g = is /\ \A i \in is : g[i] = f[i]
  <2>1. g \in [is -> Entry]
    BY <1>5, <1>7
  <2> QED
    BY <1>7, <2>1, ListingOf
<1>9. /\ kept' \in KeptType /\ kept'.org = kept.org /\ kept'.kind = kept.kind /\ kept'.list = g
      /\ kept'.current = c /\ kept'.copy = kept.copy
  BY <1>1, <1>3, <1>4, <1>8 DEF KeptType
<1>10. /\ DirectoryTyped' /\ AnswersHeld' /\ CallGoes(r, Idle, {"list", "current"})
       /\ \A i, e : Right(i, e)' <=> Right(i, e)
       /\ \A i, o : Listed(i, o)' <=> Listed(i, o)
  BY <1>3, <1>9, DoneKeeps
<1>11. \A j : /\ j # w.place => ~Corrects(req[r], j)
              /\ ~Loads(req[r]) /\ ~Adds(req[r], j)
  BY <1>1, <1>3 DEF Corrects, Loads, Adds
<1>12. CurrentHeld'
  <2>1. CASE "current" \in stale' \/ c = Nothing
    BY <1>9, <2>1, CurrentMarked
  <2>2. CASE "current" \notin stale' /\ c # Nothing
    <3>1. kept.current # w.place /\ c = kept.current /\ kept.current # Nothing /\ "current" \notin stale
      BY <1>1, <1>3, <2>2
    <3>2. Right(kept.current, kept.copy) \/ Corrected(kept.current)
      BY <3>1 DEF DirectoryIInv, CurrentHeld
    <3>3. PICK j, e : j = kept.current /\ e = kept.copy
      OBVIOUS
    <3>4. Corrected(j) => Corrected(j)'
      BY <1>10, <1>11, <3>1, <3>3, CoversStay
    <3>5. Right(j, e)' \/ Corrected(j)'
      BY <1>10, <3>2, <3>3, <3>4
    <3> QED
      BY <1>9, <3>1, <3>3, <3>5 DEF CurrentHeld, Corrected, Right, Held
  <2> QED
    BY <2>1, <2>2
<1>13. ListHeld'
  <2>1. SUFFICES ASSUME "list" \notin stale'
                 PROVE  ListHeld'
    BY ListMarked
  <2>2. "list" \notin stale /\ ~place[w.place].live
    <3>1. "list" \notin stale /\ "write" \notin req[r].over
      BY <1>3, <1>4, <2>1 DEF Marked
    <3> QED
      BY <1>1, <1>3, <1>4, <3>1 DEF AnswerRight
  <2>3. ASSUME NEW j \in is PROVE EntryHeld(j)'
    <3>1. EntryHeld(j) /\ j # w.place
      BY <1>1, <1>6, <2>2 DEF DirectoryIInv, ListHeld
    <3> QED
      BY <1>1, <1>3, <1>8, <1>9, <1>10, <1>11, <3>1, EntryStays
  <2>4. ASSUME kept.kind # "members", NEW j \in Places, Listed(j, kept.org)
        PROVE  j \in is \/ Added(j)'
    <3>1. j # w.place
      BY <2>2, <2>4 DEF Listed
    <3>2. j \in DOMAIN f \/ Added(j)'
      BY <1>1, <1>10, <1>11, <2>2, <2>4, ListedStays DEF DirectoryIInv
    <3> QED
      BY <1>6, <3>1, <3>2
  <2> QED
    BY <1>8, <1>9, <1>10, <2>3, <2>4 DEF ListHeld, Listed
<1> QED
  BY <1>10, <1>12, <1>13 DEF DirectoryIInv

\* The list is loaded again, by this call or another, or it is stale.
LEMMA ArchivedKeeps ==
  ASSUME DirectoryIInv, NEW r \in Requests, Archived(r)
  PROVE  DirectoryIInv'
<1>1. PICK d : d = [org |-> kept.org, place |-> Nothing, answer |-> Nothing]
  OBVIOUS
<1>2. PICK x : x = [op |-> "list", step |-> "sent", over |-> {}, with |-> d]
  OBVIOUS
<1>3. /\ req[r].op = "archive" /\ req[r].step = "answered" /\ place' = place /\ kept' = kept
      /\ stale' = stale \union (IF kept.kind = "project" THEN {"list"} ELSE {})
      /\ \/ (kept.kind = "project" \/ Joins(kept.org)) /\ Done(r, {})
         \/ req' = [req EXCEPT ![r] = x]
  BY <1>1, <1>2 DEF Archived
<1>4. DirectoryTyped /\ kept \in KeptType /\ kept.org \in Orgs
  BY <1>3, Arrives, KeptPlaces
<1>5. /\ d \in AskedFor /\ x \in DirectoryCall /\ CallShaped(x) /\ x.op = "list" /\ x.step = "sent"
      /\ x.with = d
  <2>1. d \in AskedFor
    BY <1>1, <1>4 DEF AskedFor
  <2>2. x \in DirectoryCall /\ x.op = "list" /\ x.step = "sent" /\ x.with = d
    BY <1>2, <2>1 DEF DirectoryCall, DirectoryOps
  <2> QED
    BY <2>1, <2>2 DEF CallShaped
<1>6. \E y : /\ CallGoes(r, y, {}) /\ AnswerRight(y)'
             /\ kept.kind = "project" \/ Loading'
  <2>1. CASE (kept.kind = "project" \/ Joins(kept.org)) /\ Done(r, {})
    <3>1. CallGoes(r, Idle, {}) /\ AnswerRight(Idle)'
      BY <1>4, <2>1, DoneGoes, DirectoryIdle DEF AnswerRight
    <3>2. CASE Joins(kept.org)
      <4>1. PICK q \in Requests : req[q].op = "list"
        BY <3>2 DEF Joins, InFlight
      <4>2. req'[q].op = "list"
        BY <1>3, <3>1, <4>1 DEF CallGoes
      <4>3. Loading'
        BY <4>2 DEF Loading, Loads
      <4> QED
        BY <3>1, <4>3
    <3> QED
      BY <2>1, <3>1, <3>2
  <2>2. CASE req' = [req EXCEPT ![r] = x]
    <3>1. CallGoes(r, x, {}) /\ AnswerRight(x)'
      BY <1>4, <1>5, <2>2 DEF CallGoes, DirectoryTyped, AnswerRight
    <3>2. Loading'
      BY <1>5, <3>1, CoversStay DEF Loads
    <3> QED
      BY <3>1, <3>2
  <2> QED
    BY <1>3, <2>1, <2>2
<1>7. PICK y : /\ CallGoes(r, y, {}) /\ AnswerRight(y)'
               /\ kept.kind = "project" \/ Loading'
  BY <1>6
<1>8. DirectoryTyped' /\ AnswersHeld'
  BY <1>3, <1>4, <1>7, DirectoryStaysTyped, AnswersStay DEF DirectoryIInv, DirectoryTyped
<1>9. CurrentHeld'
  BY <1>3, <1>7, CurrentStays DEF DirectoryIInv
<1>10. ListHeld'
  <2>1. CASE kept.kind = "project"
    BY <1>3, <2>1, ListMarked
  <2>2. CASE kept.kind # "project"
    <3>1. stale' = stale /\ Loading'
      BY <1>3, <1>7, <2>2
    <3>2. \A j : ~Corrects(req[r], j) /\ ~Adds(req[r], j)
      BY <1>3 DEF Corrects, Adds
    <3>3. ASSUME NEW j, EntryHeld(j) PROVE EntryHeld(j)'
      BY <1>3, <1>7, <3>1, <3>2, <3>3, EntryStays
    <3>4. ASSUME "list" \notin stale, kept.kind # "members", NEW j \in Places, Listed(j, kept.org)
          PROVE  j \in DOMAIN kept.list \/ Added(j)'
      BY <1>7, <3>2, <3>4, ListedStays DEF DirectoryIInv
    <3> QED
      BY <1>3, <3>1, <3>3, <3>4 DEF DirectoryIInv, ListHeld, Listed
  <2> QED
    BY <2>1, <2>2
<1> QED
  BY <1>8, <1>9, <1>10 DEF DirectoryIInv

LEMMA GivesUpKeeps ==
  ASSUME DirectoryIInv, NEW r \in Requests, GivesUp(r)
  PROVE  DirectoryIInv'
<1>1. PICK z : z = req[r]
  OBVIOUS
<1>2. PICK x : x = [z EXCEPT !.step = "left"]
  OBVIOUS
<1>3. /\ z.op # "idle" /\ place' = place /\ "list" \in stale' /\ stale \subseteq stale'
      /\ z.op # "list" => "current" \in stale'
      /\ kept' = kept \/ kept' = [kept EXCEPT !.current = Nothing]
      /\ \/ z.op \notin {"list", "find"} /\ req' = [req EXCEPT ![r] = x]
         \/ Done(r, {"list"})
  BY <1>1, <1>2 DEF GivesUp, Active
<1>4. DirectoryTyped /\ kept \in KeptType /\ z \in DirectoryCall /\ CallShaped(z)
  BY <1>1 DEF DirectoryIInv, DirectoryTyped
<1>5. /\ kept' \in KeptType
      /\ kept'.current = Nothing \/ (kept'.current = kept.current /\ kept'.copy = kept.copy)
  BY <1>3, <1>4 DEF KeptType
<1>6. \E y, m : CallGoes(r, y, m) /\ AnswerRight(y)'
  <2>1. CASE z.op \notin {"list", "find"} /\ req' = [req EXCEPT ![r] = x]
    <3>1. z.op \in Writings
      BY <1>3, <1>4, <2>1 DEF DirectoryCall, DirectoryOps, Writings
    <3>2. x \in DirectoryCall /\ x.op = z.op /\ x.step = "left" /\ x.with = z.with
      BY <1>2, <1>4 DEF DirectoryCall
    <3>3. CallShaped(x) /\ AnswerRight(x)'
      BY <1>3, <1>4, <3>1, <3>2 DEF CallShaped, AnswerRight
    <3>4. CallGoes(r, x, {})
      BY <1>4, <2>1, <3>2, <3>3 DEF CallGoes, DirectoryTyped
    <3> QED
      BY <3>3, <3>4
  <2>2. CASE Done(r, {"list"})
    BY <1>4, <2>2, DoneGoes, DirectoryIdle DEF AnswerRight
  <2> QED
    BY <1>3, <2>1, <2>2
<1>7. PICK y, m : CallGoes(r, y, m) /\ AnswerRight(y)'
  BY <1>6
<1>8. DirectoryTyped' /\ AnswersHeld'
  BY <1>3, <1>4, <1>5, <1>7, DirectoryStaysTyped, AnswersStay DEF DirectoryIInv, DirectoryTyped
<1>9. CurrentHeld'
  BY <1>1, <1>3, <1>5, <1>7, CurrentStays, CurrentMarked DEF DirectoryIInv
<1> QED
  BY <1>3, <1>8, <1>9, ListMarked DEF DirectoryIInv

-----------------------------------------------------------------------------
LEMMA DirectoryStarts == HandlersInit /\ DirectoryInit => DirectoryIInv
<1>1. SUFFICES ASSUME HandlersInit, DirectoryInit
               PROVE  DirectoryIInv
  OBVIOUS
<1>2. PICK k \in Kinds, o \in Orgs, present \in SUBSET Places, whose \in [Places -> Orgs] :
    /\ place = [i \in Places |-> [live |-> i \in present, archived |-> FALSE,
                                 org |-> whose[i], edit |-> 0]]
    /\ \E now \in {Nothing} \union {i \in present : whose[i] = o} :
         kept = [kind |-> k, org |-> o, list |-> ListOf(o), current |-> now, copy |-> [org |-> o, edit |-> 0]]
  BY <1>1 DEF DirectoryInit
<1>3. PICK now \in {Nothing} \union {i \in present : whose[i] = o} :
         kept = [kind |-> k, org |-> o, list |-> ListOf(o), current |-> now, copy |-> [org |-> o, edit |-> 0]]
  BY <1>2
<1>4. PICK e, f : f = ListOf(o) /\ e = [org |-> o, edit |-> 0]
  OBVIOUS
<1>5. /\ kept = [kind |-> k, org |-> o, list |-> f, current |-> now, copy |-> e]
      /\ f = ListOf(o) /\ e = [org |-> o, edit |-> 0]
  BY <1>3, <1>4
<1>6. /\ place \in [Places -> PlaceRow]
      /\ \A i \in Places : place[i].live = (i \in present) /\ ~place[i].archived
                           /\ place[i].org = whose[i] /\ place[i].edit = 0
  BY <1>2 DEF PlaceRow
<1>7. PICK is : is = {i \in Places : Listed(i, o)}
  OBVIOUS
<1>8. /\ f = [i \in is |-> Held(i)] /\ is \in SUBSET Places
      /\ \A i \in is : Held(i) \in Entry
  BY <1>5, <1>6, <1>7 DEF ListOf, Entries, Listed, Held, Entry, PlaceRow
<1>9. f \in Listings /\ DOMAIN f = is /\ \A i \in is : f[i] = Held(i)
  <2>1. f \in [is -> Entry]
    BY <1>8
  <2> QED
    BY <1>8, <2>1, ListingOf
<1>10. e \in Entry
  BY <1>5 DEF Entry
<1>11. /\ kept \in KeptType /\ kept.org = o /\ kept.list = f /\ kept.current = now /\ kept.copy = e
  BY <1>5, <1>9, <1>10 DEF KeptType
<1>12. \A r \in Requests : req[r] = Idle
  BY <1>1 DEF HandlersInit
<1>13. DirectoryTyped
  <2>1. req \in [Requests -> DirectoryCall]
    BY <1>1, <1>12, DirectoryIdle DEF HandlersInit
  <2> QED
    BY <1>6, <1>11, <1>12, <2>1, DirectoryIdle DEF DirectoryTyped
<1>14. AnswersHeld
  BY <1>12, DirectoryIdle DEF AnswersHeld, AnswerRight
<1>15. ListHeld
  <2>1. ASSUME NEW i \in is PROVE EntryHeld(i)
    BY <1>6, <1>7, <1>9, <1>11 DEF EntryHeld, Right, Listed
  <2> QED
    BY <1>7, <1>9, <1>11, <2>1 DEF ListHeld
<1>16. CurrentHeld
  <2>1. ASSUME now # Nothing PROVE Right(now, e)
    BY <1>5, <1>6, <2>1 DEF Right, Held
  <2> QED
    BY <1>11, <2>1 DEF CurrentHeld
<1> QED
  BY <1>13, <1>14, <1>15, <1>16 DEF DirectoryIInv

LEMMA DirectoryStepKeeps ==
  ASSUME DirectoryIInv, [DirectoryNext]_<<handlerVars, directoryVars>>
  PROVE  DirectoryIInv'
<1>1. CASE UNCHANGED <<handlerVars, directoryVars>>
  <2>1. req' = req /\ place' = place /\ kept' = kept /\ stale' = stale
    BY <1>1 DEF handlerVars, directoryVars
  <2>2. kept' \in KeptType
    BY <2>1 DEF DirectoryIInv, DirectoryTyped
  <2>3. /\ DirectoryTyped' /\ AnswersHeld'
        /\ \A i : /\ Corrected(i)' <=> Corrected(i)
                  /\ Overtaking(i)' <=> Overtaking(i)
                  /\ Added(i)' <=> Added(i)
        /\ Loading' <=> Loading
    BY <2>1, <2>2, CallsStill
  <2>4. ASSUME NEW i, EntryHeld(i) PROVE EntryHeld(i)'
    BY <2>1, <2>3, <2>4 DEF EntryHeld, Right, Held
  <2>5. ListHeld'
    BY <2>1, <2>3, <2>4 DEF DirectoryIInv, ListHeld, Listed
  <2>6. CurrentHeld'
    BY <2>1 DEF DirectoryIInv, CurrentHeld, Right, Held, Corrected
  <2> QED
    BY <2>3, <2>5, <2>6 DEF DirectoryIInv
<1>2. CASE Select
  BY <1>2, SelectKeeps
<1>3. ASSUME NEW r \in Requests, DirectoryStep(r) PROVE DirectoryIInv'
  <2>1. CASE AskList(r) \/ Find(r) \/ Change(r) \/ New(r)
    BY <2>1, AskKeeps
  <2>2. CASE Enter(r)
    BY <2>2, EnterKeeps
  <2>3. CASE ServeRead(r)
    BY <2>3, ServeReadKeeps
  <2>4. CASE ServeWrite(r)
    BY <2>4, ServeWriteKeeps
  <2>5. CASE ListLoaded(r)
    BY <2>5, ListLoadedKeeps
  <2>6. CASE Found(r)
    BY <2>6, FoundKeeps
  <2>7. CASE Created(r)
    BY <2>7, CreatedKeeps
  <2>8. CASE Updated(r)
    BY <2>8, UpdatedKeeps
  <2>9. CASE Deleted(r)
    BY <2>9, DeletedKeeps
  <2>10. CASE Archived(r)
    BY <2>10, ArchivedKeeps
  <2>11. CASE GivesUp(r)
    BY <2>11, GivesUpKeeps
  <2> QED
    BY <1>3, <2>1, <2>2, <2>3, <2>4, <2>5, <2>6, <2>7, <2>8, <2>9, <2>10, <2>11 DEF DirectoryStep
<1> QED
  BY <1>1, <1>2, <1>3 DEF DirectoryNext

\* When no call is under way, nothing is left to correct the list or the current
\* place: they are right, or marked stale.
LEMMA QuietDirectory == DirectoryIInv => DirectoryTrue
<1>1. SUFFICES ASSUME DirectoryIInv, \A r \in Requests : ~Active(r)
               PROVE  /\ "list" \notin stale =>
                           /\ \A i \in DOMAIN kept.list : i \in DOMAIN ListOf(kept.org) /\ kept.list[i] = Held(i)
                           /\ kept.kind # "members" => DOMAIN kept.list = DOMAIN ListOf(kept.org)
                      /\ "current" \notin stale /\ kept.current # Nothing =>
                           place[kept.current].live /\ kept.copy = Held(kept.current)
  BY DEF DirectoryTrue
<1>2. \A i : ~Corrected(i) /\ ~Overtaking(i) /\ ~Added(i) /\ ~Loading
  BY <1>1 DEF Corrected, Overtaking, Added, Loading, Corrects, Adds, Loads, Active
<1>3. DOMAIN ListOf(kept.org) = {i \in Places : Listed(i, kept.org)}
  BY DEF ListOf, Entries, Listed
<1>4. DOMAIN kept.list \subseteq Places
  BY <1>1, KeptPlaces DEF DirectoryIInv
<1>5. ASSUME "list" \notin stale, NEW i \in DOMAIN kept.list
      PROVE  i \in DOMAIN ListOf(kept.org) /\ kept.list[i] = Held(i)
  BY <1>1, <1>2, <1>3, <1>4, <1>5 DEF DirectoryIInv, ListHeld, EntryHeld, Right, Listed
<1>6. ASSUME "list" \notin stale, kept.kind # "members"
      PROVE  DOMAIN kept.list = DOMAIN ListOf(kept.org)
  BY <1>1, <1>2, <1>3, <1>5, <1>6 DEF DirectoryIInv, ListHeld
<1>7. ASSUME "current" \notin stale, kept.current # Nothing
      PROVE  place[kept.current].live /\ kept.copy = Held(kept.current)
  BY <1>1, <1>2, <1>7 DEF DirectoryIInv, CurrentHeld, Right
<1> QED
  BY <1>5, <1>6, <1>7

\* What a tab keeps of the places around its tasks is typed: its list is one of
\* entries, and every call has what its step needs.
THEOREM DirectoryTypes == DirectorySpec => []DirectoryTyped
<1>1. DirectoryIInv => DirectoryTyped
  BY DEF DirectoryIInv
<1> QED
  BY <1>1, DirectoryStarts, DirectoryStepKeeps, PTL DEF DirectorySpec

\* For any number of calls, places and organizations: once every call has ended, a
\* list and a current place that were not written out of order are as the server
\* has them.
THEOREM DirectoryAgrees == DirectorySpec => []DirectoryTrue
BY DirectoryStarts, DirectoryStepKeeps, QuietDirectory, PTL DEF DirectorySpec
=============================================================================
