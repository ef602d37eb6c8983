---------------------- MODULE TaskDependencies_proofs ----------------------
(***************************************************************************)
(* For any set of tasks and any number of concurrent requests, the         *)
(* dependency graph stays acyclic as long as no edge is written on a       *)
(* validation that another write overtook.                                 *)
(***************************************************************************)
EXTENDS TaskDependencies, SequenceTheorems, TLAPS

(* A walk that follows every dependency and ends with a closed set that    *)
(* holds the blocking task and not the dependent one proves that the new   *)
(* edge closes no cycle.                                                   *)
LEMMA AddEdgeAcyclic ==
  ASSUME NEW E, NEW V, NEW a \in Tasks, NEW b \in Tasks,
         Acyclic(E), \A e \in E : e[1] \in V => e[2] \in V,
         b \in V, a \notin V
  PROVE  Acyclic(E \union {<<a, b>>})
<1> SUFFICES ASSUME NEW S \in SUBSET Tasks, S # {},
                    \A x \in S : \E y \in S : <<x, y>> \in E \union {<<a, b>>}
             PROVE  FALSE
  BY DEF Acyclic
<1>1. PICK x \in S : \A y \in S : <<x, y>> \notin E
  BY DEF Acyclic
<1>2. a \in S /\ b \in S
  BY <1>1
<1> DEFINE T == S \cap V
<1>3. T # {}
  BY <1>2
<1>4. \A z \in T : \E y \in T : <<z, y>> \in E
  <2> TAKE z \in T
  <2>1. PICK y \in S : <<z, y>> \in E \union {<<a, b>>}
    OBVIOUS
  <2>2. z # a
    OBVIOUS
  <2>3. <<z, y>> \in E
    BY <2>1, <2>2
  <2>4. y \in V
    BY <2>3
  <2> QED
    BY <2>3, <2>4
<1> QED
  BY <1>3, <1>4 DEF Acyclic

LEMMA SubgraphAcyclic ==
  ASSUME NEW E, NEW F, Acyclic(E), F \subseteq E
  PROVE  Acyclic(F)
BY DEF Acyclic

LEMMA PendingCons ==
  ASSUME NEW A \in SUBSET Tasks, NEW s \in Seq(SUBSET Tasks)
  PROVE  Pending(<<A>> \o s) = A \union Pending(s)
<1> DEFINE t == <<A>> \o s
<1>1. /\ Len(t) = Len(s) + 1 /\ DOMAIN t = 1 .. Len(s) + 1 /\ DOMAIN s = 1 .. Len(s)
      /\ t[1] = A /\ \A i \in 1 .. Len(s) : t[i + 1] = s[i]
  OBVIOUS
<1>2. Pending(t) \subseteq A \union Pending(s)
  <2> SUFFICES ASSUME NEW i \in DOMAIN t PROVE t[i] \subseteq A \union Pending(s)
    BY DEF Pending
  <2>1. CASE i = 1
    BY <1>1, <2>1
  <2>2. CASE i # 1
    <3>1. i - 1 \in DOMAIN s /\ t[i] = s[i - 1]
      BY <1>1, <2>2
    <3> QED
      BY <3>1 DEF Pending
  <2> QED
    BY <2>1, <2>2
<1>3. A \subseteq Pending(t)
  BY <1>1 DEF Pending
<1>4. ASSUME NEW i \in DOMAIN s PROVE s[i] \subseteq Pending(t)
  <2>1. i + 1 \in DOMAIN t /\ t[i + 1] = s[i]
    BY <1>1
  <2> QED
    BY <2>1 DEF Pending
<1>5. Pending(s) \subseteq Pending(t)
  BY <1>4 DEF Pending
<1> QED
  BY <1>2, <1>3, <1>5

LEMMA PendingTail ==
  ASSUME NEW s \in Seq(SUBSET Tasks), s # <<>>
  PROVE  Pending(s) \subseteq Head(s) \union Pending(Tail(s))
<1>1. /\ Len(s) \in Nat \ {0} /\ DOMAIN s = 1 .. Len(s) /\ DOMAIN Tail(s) = 1 .. Len(s) - 1
      /\ Head(s) = s[1] /\ \A i \in 1 .. Len(s) - 1 : Tail(s)[i] = s[i + 1]
  OBVIOUS
<1> SUFFICES ASSUME NEW i \in DOMAIN s
             PROVE  s[i] \subseteq Head(s) \union Pending(Tail(s))
  BY DEF Pending
<1>2. CASE i = 1
  BY <1>1, <1>2
<1>3. CASE i # 1
  <2>1. i - 1 \in DOMAIN Tail(s) /\ Tail(s)[i - 1] = s[i]
    BY <1>1, <1>3
  <2> QED
    BY <2>1 DEF Pending
<1> QED
  BY <1>2, <1>3

LEMMA HeadPending ==
  ASSUME NEW s \in Seq(SUBSET Tasks), s # <<>>
  PROVE  Head(s) \subseteq Pending(s)
<1>1. 1 \in DOMAIN s /\ Head(s) = s[1]
  OBVIOUS
<1> QED
  BY <1>1 DEF Pending

LEMMA TailPending ==
  ASSUME NEW s \in Seq(SUBSET Tasks), s # <<>>
  PROVE  Pending(Tail(s)) \subseteq Pending(s)
<1>1. /\ Len(s) \in Nat \ {0} /\ DOMAIN s = 1 .. Len(s) /\ DOMAIN Tail(s) = 1 .. Len(s) - 1
      /\ \A i \in 1 .. Len(s) - 1 : Tail(s)[i] = s[i + 1]
  OBVIOUS
<1> SUFFICES ASSUME NEW i \in DOMAIN Tail(s) PROVE Tail(s)[i] \subseteq Pending(s)
  BY DEF Pending
<1>2. i + 1 \in DOMAIN s /\ Tail(s)[i] = s[i + 1]
  BY <1>1
<1> QED
  BY <1>2 DEF Pending

LEMMA PendingUnit ==
  ASSUME NEW A PROVE Pending(<<A>>) = A /\ Pending(<<>>) = {}
BY DEF Pending

-----------------------------------------------------------------------------
(* What the requests rely on between two of their queries: a pair under    *)
(* validation has a list of tries that contains or has yielded its         *)
(* blocking task, and an update still writes the pair that it validated.   *)
ShapeOK(r) ==
  /\ pc[r] \in {"lookup", "exists"} => todo[r] # <<>>
  /\ pc[r] = "walk" => stack[r] # <<>>
  /\ pc[r] = "write" => stack[r] = <<>>
  /\ Validating(r) => /\ edge[r] \in Edges
                      /\ edge[r][2] \in visited[r] \union Pending(stack[r])
  /\ Validating(r) /\ "insert" \notin window[r] /\ todo[r] = <<>> /\ row[r] # NoEdge
       => edge[r] = Merge(row[r], patch[r])

WalkShape == \A r \in Requests : ShapeOK(r)

CoversOK(r) == Validating(r) /\ "insert" \notin window[r] => WalkCovers(r)

IInv == TypeOK /\ WalkShape /\ WalkCoversDependencies /\ AcyclicUnlessRaced

LEMMA TailType ==
  ASSUME NEW S, NEW s \in Seq(S), s # <<>>
  PROVE  Head(s) \in S /\ Tail(s) \in Seq(S) /\ Len(s) \in Nat /\ (Tail(s) = <<>> <=> Len(s) = 1)
<1>1. Head(s) \in S /\ Tail(s) \in Seq(S) /\ Len(s) \in Nat \ {0} /\ Len(Tail(s)) = Len(s) - 1
  OBVIOUS
<1>2. Tail(s) = <<>> <=> Len(Tail(s)) = 0
  BY <1>1, EmptySeq
<1> QED
  BY <1>1, <1>2

LEMMA BodiesType == Bodies \subseteq Seq(Edges) \ {<<>>}
<1> SUFFICES ASSUME NEW n \in 1 .. MaxBulk, NEW b \in [1 .. n -> Edges]
             PROVE  b \in Seq(Edges) /\ b # <<>>
  BY DEF Bodies
<1>1. n \in Nat \ {0}
  BY MaxBulkAssumption
<1>2. b \in Seq(Edges)
  BY <1>1
<1>3. Len(b) = n
  BY <1>1
<1> QED
  BY <1>1, <1>2, <1>3

LEMMA InitIInv == Init => IInv
<1> SUFFICES ASSUME Init PROVE IInv
  OBVIOUS
<1> USE DEF Init, GraphInit
<1>1. TypeOK
  <2>1. GraphTypeOK
    BY DEF GraphTypeOK
  <2>2. todo \in [Requests -> Seq(Edges)] /\ stack \in [Requests -> Seq(SUBSET Tasks)]
    OBVIOUS
  <2>3. patch \in [Requests -> Patches]
    BY DEF Patches
  <2>4. row \in [Requests -> deps \union {NoEdge}] /\ edge \in [Requests -> Edges \union {NoEdge}]
    OBVIOUS
  <2>5. /\ pc \in [Requests -> {"idle", "lookup", "exists", "walk", "write", "delete"}]
        /\ visited \in [Requests -> SUBSET Tasks]
        /\ window \in [Requests -> SUBSET {"insert", "delete"}]
        /\ raced \in BOOLEAN
    OBVIOUS
  <2> QED
    BY <2>1, <2>2, <2>3, <2>4, <2>5 DEF TypeOK
<1>2. WalkShape
  BY DEF WalkShape, ShapeOK, Validating
<1>3. WalkCoversDependencies
  BY DEF WalkCoversDependencies, Validating
<1>4. AcyclicUnlessRaced
  BY DEF AcyclicUnlessRaced, Acyclic
<1> QED
  BY <1>1, <1>2, <1>3, <1>4 DEF IInv

\* What an answer does to the request that gets it.
LEMMA AnswerFrame ==
  ASSUME TypeOK, NEW r \in Requests, Answer(r)
  PROVE  /\ todo' \in [Requests -> Seq(Edges)]
         /\ pc' \in [Requests -> {"idle", "lookup", "exists", "walk", "write", "delete"}]
         /\ edge' \in [Requests -> Edges \union {NoEdge}]
         /\ patch' \in [Requests -> Patches]
         /\ visited' \in [Requests -> SUBSET Tasks]
         /\ stack' \in [Requests -> Seq(SUBSET Tasks)]
         /\ pc'[r] \in {"idle", "lookup"} /\ (pc'[r] = "lookup" => todo'[r] # <<>>)
         /\ \A q \in Requests \ {r} :
              /\ pc'[q] = pc[q] /\ todo'[q] = todo[q] /\ edge'[q] = edge[q]
              /\ patch'[q] = patch[q] /\ visited'[q] = visited[q] /\ stack'[q] = stack[q]
<1> USE DEF TypeOK, Answer
<1>1. todo' \in [Requests -> Seq(Edges)]
  BY TailType
<1>2. pc' \in [Requests -> {"idle", "lookup", "exists", "walk", "write", "delete"}]
  OBVIOUS
<1>3. edge' \in [Requests -> Edges \union {NoEdge}]
  OBVIOUS
<1>4. patch' \in [Requests -> Patches]
  BY DEF Patches
<1>5. visited' \in [Requests -> SUBSET Tasks]
  OBVIOUS
<1>6. stack' \in [Requests -> Seq(SUBSET Tasks)]
  OBVIOUS
<1>7. pc'[r] \in {"idle", "lookup"}
  OBVIOUS
<1>8. pc'[r] = "lookup" => todo'[r] # <<>>
  <2>1. todo[r] \in Seq(Edges)
    OBVIOUS
  <2>2. pc'[r] = "lookup" => Len(todo[r]) > 1
    OBVIOUS
  <2>3. Len(todo[r]) > 1 => todo[r] # <<>>
    BY <2>1, EmptySeq
  <2>4. todo[r] # <<>> => todo'[r] = Tail(todo[r])
    OBVIOUS
  <2>5. todo[r] # <<>> => Len(todo[r]) \in Nat /\ (Tail(todo[r]) = <<>> <=> Len(todo[r]) = 1)
    BY <2>1, TailType, Zenon
  <2> QED
    BY <2>2, <2>3, <2>4, <2>5
<1>9. \A q \in Requests \ {r} :
        /\ pc'[q] = pc[q] /\ todo'[q] = todo[q] /\ edge'[q] = edge[q]
        /\ patch'[q] = patch[q] /\ visited'[q] = visited[q] /\ stack'[q] = stack[q]
  OBVIOUS
<1> QED
  BY <1>1, <1>2, <1>3, <1>4, <1>5, <1>6, <1>7, <1>8, <1>9

-----------------------------------------------------------------------------
\* An answer without a write to the graph: the other requests see nothing.
LEMMA RefuseKeepsIInv ==
  ASSUME IInv, NEW r \in Requests, Answer(r),
         UNCHANGED <<tasks, deps, raced>>,
         row' \in [Requests -> deps \union {NoEdge}],
         window' \in [Requests -> SUBSET {"insert", "delete"}],
         \A q \in Requests \ {r} : row'[q] = row[q] /\ window'[q] = window[q]
  PROVE  IInv'
<1> USE DEF IInv
<1>1. TypeOK'
  BY AnswerFrame DEF TypeOK, GraphTypeOK
<1>2. ~Validating(r)' /\ \A q \in Requests \ {r} : Validating(q)' = Validating(q)
  BY AnswerFrame DEF Validating
<1>3. WalkShape'
  <2> SUFFICES ASSUME NEW q \in Requests PROVE ShapeOK(q)'
    BY DEF WalkShape
  <2>1. CASE q = r
    BY <2>1, <1>2, AnswerFrame DEF ShapeOK, Validating
  <2>2. CASE q # r
    <3>1. /\ pc'[q] = pc[q] /\ todo'[q] = todo[q] /\ edge'[q] = edge[q] /\ row'[q] = row[q]
          /\ patch'[q] = patch[q] /\ visited'[q] = visited[q] /\ stack'[q] = stack[q]
          /\ window'[q] = window[q]
      BY <2>2, AnswerFrame
    <3>2. ShapeOK(q)
      BY DEF WalkShape
    <3> QED
      BY <3>1, <3>2 DEF ShapeOK, Validating
  <2> QED
    BY <2>1, <2>2
<1>4. WalkCoversDependencies'
  <2> SUFFICES ASSUME NEW q \in Requests PROVE CoversOK(q)'
    BY DEF WalkCoversDependencies, CoversOK
  <2>1. CASE q = r
    BY <2>1, <1>2 DEF CoversOK
  <2>2. CASE q # r
    BY <2>2, <1>2, AnswerFrame DEF WalkCoversDependencies, CoversOK, WalkCovers, Validating
  <2> QED
    BY <2>1, <2>2
<1>5. AcyclicUnlessRaced'
  BY DEF AcyclicUnlessRaced, Acyclic
<1> QED
  BY <1>1, <1>3, <1>4, <1>5

-----------------------------------------------------------------------------
\* A write to the graph by r: the others in progress see that it happened.
LEMMA WroteFrame ==
  ASSUME TypeOK, NEW r \in Requests, NEW kind \in {"insert", "delete"},
         Wrote(r, kind), Answer(r)
  PROVE  /\ window' \in [Requests -> SUBSET {"insert", "delete"}]
         /\ \A q \in Requests \ {r} : Validating(q) => window'[q] = window[q] \union {kind}
<1>1. \A q \in Requests : window[q] \subseteq {"insert", "delete"}
  BY DEF TypeOK
<1> QED
  BY <1>1 DEF Wrote

\* After an insert by r, what the others rely on no longer depends on the graph.
LEMMA InsertKeepsShape ==
  ASSUME IInv, NEW r \in Requests, Answer(r),
         \A q \in Requests : Validating(q)' => "insert" \in window'[q]
  PROVE  WalkShape'
<1> USE DEF IInv
<1> SUFFICES ASSUME NEW q \in Requests PROVE ShapeOK(q)'
  BY DEF WalkShape
<1>1. CASE q = r
  BY <1>1, AnswerFrame DEF ShapeOK, Validating
<1>2. CASE q # r
  <2>1. /\ pc'[q] = pc[q] /\ todo'[q] = todo[q] /\ edge'[q] = edge[q]
        /\ visited'[q] = visited[q] /\ stack'[q] = stack[q]
    BY <1>2, AnswerFrame
  <2>2. ShapeOK(q)
    BY DEF WalkShape
  <2> QED
    BY <2>1, <2>2 DEF ShapeOK, Validating
<1> QED
  BY <1>1, <1>2

LEMMA CommitCreateKeepsIInv ==
  ASSUME IInv, NEW r \in Requests, CommitCreate(r)
  PROVE  IInv'
<1> USE DEF IInv
<1>1. CASE edge[r] \in deps \/ ~Exist(edge[r])
  <2>1. Answer(r) /\ Unread(r) /\ UNCHANGED <<tasks, deps, row, raced>>
    BY <1>1 DEF CommitCreate
  <2>2. /\ window' \in [Requests -> SUBSET {"insert", "delete"}]
        /\ \A q \in Requests \ {r} : window'[q] = window[q]
    BY <2>1 DEF Unread, TypeOK
  <2>3. row' \in [Requests -> deps \union {NoEdge}]
    BY <2>1 DEF TypeOK
  <2> QED
    BY <2>1, <2>2, <2>3, RefuseKeepsIInv
<1>2. CASE edge[r] \notin deps /\ Exist(edge[r])
  <2>1. /\ Answer(r) /\ Wrote(r, "insert") /\ UNCHANGED <<tasks, row>>
        /\ deps' = deps \union {edge[r]} /\ raced' = (raced \/ "insert" \in window[r])
    BY <1>2 DEF CommitCreate
  <2>2. Validating(r) /\ ShapeOK(r) /\ CoversOK(r) /\ pc[r] = "write"
    BY DEF CommitCreate, Validating, WalkShape, WalkCoversDependencies, CoversOK
  <2>3. TypeOK'
    <3>1. edge[r] \in tasks \X tasks
      BY <1>2, <2>2 DEF ShapeOK, Exist, Edges
    <3>2. row' \in [Requests -> deps' \union {NoEdge}]
      BY <2>1 DEF TypeOK
    <3>3. raced' \in BOOLEAN
      BY <2>1 DEF TypeOK
    <3> QED
      BY <2>1, <3>1, <3>2, <3>3, WroteFrame, AnswerFrame DEF TypeOK, GraphTypeOK
  <2>4. ~Validating(r)' /\ \A q \in Requests \ {r} : Validating(q)' = Validating(q)
    BY <2>1, AnswerFrame DEF Validating
  <2>5. \A q \in Requests : Validating(q)' => "insert" \in window'[q]
    BY <2>1, <2>4, WroteFrame
  <2>6. WalkShape'
    BY <2>1, <2>4, <2>5, InsertKeepsShape
  <2>7. WalkCoversDependencies'
    BY <2>5 DEF WalkCoversDependencies
  <2>8. AcyclicUnlessRaced'
    <3> SUFFICES ASSUME ~raced, "insert" \notin window[r] PROVE Acyclic(deps')
      BY <2>1 DEF AcyclicUnlessRaced, Acyclic
    <3>1. Acyclic(deps)
      BY DEF AcyclicUnlessRaced
    <3>2. stack[r] = <<>> /\ Pending(stack[r]) = {}
      BY <2>2, PendingUnit DEF ShapeOK
    <3>3. WalkCovers(r)
      BY <2>2 DEF CoversOK
    <3>4. /\ edge[r] \in Edges /\ edge[r][2] \in visited[r] /\ edge[r][1] \notin visited[r]
          /\ \A e \in deps : e[1] \in visited[r] => e[2] \in visited[r]
      BY <2>2, <3>2, <3>3 DEF ShapeOK, WalkCovers
    <3>5. edge[r] = <<edge[r][1], edge[r][2]>> /\ edge[r][1] \in Tasks /\ edge[r][2] \in Tasks
      BY <3>4 DEF Edges
    <3>6. Acyclic(deps \union {<<edge[r][1], edge[r][2]>>})
      BY <3>1, <3>4, <3>5, AddEdgeAcyclic
    <3> QED
      BY <2>1, <3>5, <3>6
  <2> QED
    BY <2>3, <2>6, <2>7, <2>8
<1> QED
  BY <1>1, <1>2

LEMMA MergeType ==
  ASSUME NEW e \in Edges, NEW p \in Patches
  PROVE  Merge(e, p) \in Edges
BY DEF Edges, Patches, Merge

LEMMA CommitUpdateKeepsIInv ==
  ASSUME IInv, NEW r \in Requests, CommitUpdate(r)
  PROVE  IInv'
<1> USE DEF IInv
<1>1. CASE ~Updatable(r)
  <2>1. /\ Answer(r) /\ Unread(r) /\ UNCHANGED <<tasks, deps, raced>>
        /\ row' = [row EXCEPT ![r] = NoEdge]
    BY <1>1 DEF CommitUpdate
  <2>2. /\ window' \in [Requests -> SUBSET {"insert", "delete"}]
        /\ \A q \in Requests \ {r} : window'[q] = window[q]
    BY <2>1 DEF Unread, TypeOK
  <2>3. /\ row' \in [Requests -> deps \union {NoEdge}]
        /\ \A q \in Requests \ {r} : row'[q] = row[q]
    BY <2>1 DEF TypeOK
  <2> QED
    BY <2>1, <2>2, <2>3, RefuseKeepsIInv
<1>2. CASE Updatable(r)
  <2> DEFINE new == Merge(row[r], patch[r])
  <2>1. /\ Answer(r) /\ Wrote(r, "insert") /\ UNCHANGED tasks
        /\ deps' = (deps \ {row[r]}) \union {new}
        /\ raced' = (raced \/ "insert" \in window[r])
        /\ row' = [q \in Requests |-> IF q = r THEN NoEdge
                                      ELSE IF row[q] = row[r] THEN new ELSE row[q]]
    BY <1>2 DEF CommitUpdate
  <2>2. /\ Validating(r) /\ ShapeOK(r) /\ CoversOK(r) /\ pc[r] = "write" /\ todo[r] = <<>>
        /\ row[r] # NoEdge
    BY <1>2 DEF CommitUpdate, Updatable, Validating, WalkShape, WalkCoversDependencies, CoversOK
  <2>3. TypeOK'
    <3>1. row[r] \in Edges /\ patch[r] \in Patches /\ row[r] \in deps
      BY <2>2 DEF TypeOK, GraphTypeOK, Edges
    <3>2. new \in tasks \X tasks
      BY <1>2, <3>1, MergeType DEF Updatable, Exist, Edges
    <3>3. row' \in [Requests -> deps' \union {NoEdge}]
      BY <2>1 DEF TypeOK
    <3>4. raced' \in BOOLEAN
      BY <2>1 DEF TypeOK
    <3>5. GraphTypeOK'
      BY <2>1, <3>2 DEF TypeOK, GraphTypeOK
    <3> QED
      BY <2>1, <3>3, <3>4, <3>5, WroteFrame, AnswerFrame DEF TypeOK
  <2>4. ~Validating(r)' /\ \A q \in Requests \ {r} : Validating(q)' = Validating(q)
    BY <2>1, AnswerFrame DEF Validating
  <2>5. \A q \in Requests : Validating(q)' => "insert" \in window'[q]
    BY <2>1, <2>4, WroteFrame
  <2>6. WalkShape'
    BY <2>1, <2>5, InsertKeepsShape
  <2>7. WalkCoversDependencies'
    BY <2>5 DEF WalkCoversDependencies
  <2>8. AcyclicUnlessRaced'
    <3> SUFFICES ASSUME ~raced, "insert" \notin window[r] PROVE Acyclic(deps')
      BY <2>1 DEF AcyclicUnlessRaced, Acyclic
    <3> DEFINE E == deps \ {row[r]}
    <3>1. Acyclic(E)
      BY SubgraphAcyclic DEF AcyclicUnlessRaced
    <3>2. stack[r] = <<>> /\ Pending(stack[r]) = {}
      BY <2>2, PendingUnit DEF ShapeOK
    <3>3. WalkCovers(r) /\ edge[r] = new
      BY <2>2 DEF CoversOK, ShapeOK
    <3>4. /\ edge[r] \in Edges /\ edge[r][2] \in visited[r] /\ edge[r][1] \notin visited[r]
          /\ \A e \in E : e[1] \in visited[r] => e[2] \in visited[r]
      BY <2>2, <3>2, <3>3 DEF ShapeOK, WalkCovers
    <3>5. edge[r] = <<edge[r][1], edge[r][2]>> /\ edge[r][1] \in Tasks /\ edge[r][2] \in Tasks
      BY <3>4 DEF Edges
    <3>6. Acyclic(E \union {<<edge[r][1], edge[r][2]>>})
      <4> HIDE DEF E
      <4> QED
        BY <3>1, <3>4, <3>5, AddEdgeAcyclic
    <3>7. deps' = E \union {<<edge[r][1], edge[r][2]>>}
      BY <2>1, <3>3, <3>5
    <3> QED
      BY <3>6, <3>7
  <2> QED
    BY <2>3, <2>6, <2>7, <2>8
<1> QED
  BY <1>1, <1>2

-----------------------------------------------------------------------------
\* Edges only go: nothing that a walk relies on is lost.
LEMMA ShrinkKeepsIInv ==
  ASSUME IInv, TypeOK', deps' \subseteq deps, raced' = raced,
         \A q \in Requests :
           Validating(q)' =>
             /\ Validating(q) /\ pc'[q] = pc[q] /\ todo'[q] = todo[q] /\ edge'[q] = edge[q]
             /\ patch'[q] = patch[q] /\ visited'[q] = visited[q] /\ stack'[q] = stack[q]
             /\ row'[q] \in {row[q], NoEdge}
             /\ ("insert" \in window[q] => "insert" \in window'[q]),
         \A q \in Requests : pc'[q] \in {"lookup", "exists"} => todo'[q] # <<>>
  PROVE  IInv'
<1> USE DEF IInv
<1>1. WalkShape'
  <2> SUFFICES ASSUME NEW q \in Requests PROVE ShapeOK(q)'
    BY DEF WalkShape
  <2>1. CASE Validating(q)'
    <3>1. ShapeOK(q)
      BY DEF WalkShape
    <3> QED
      BY <2>1, <3>1 DEF ShapeOK, Validating
  <2>2. CASE ~Validating(q)'
    BY <2>2 DEF ShapeOK, Validating
  <2> QED
    BY <2>1, <2>2
<1>2. WalkCoversDependencies'
  <2> SUFFICES ASSUME NEW q \in Requests, Validating(q)', "insert" \notin window'[q]
               PROVE  WalkCovers(q)'
    BY DEF WalkCoversDependencies
  <2>1. WalkCovers(q)
    BY DEF WalkCoversDependencies
  <2>2. edge'[q] = edge[q] /\ visited'[q] = visited[q] /\ stack'[q] = stack[q]
    OBVIOUS
  <2> QED
    BY <2>1, <2>2 DEF WalkCovers
<1>3. AcyclicUnlessRaced'
  BY SubgraphAcyclic DEF AcyclicUnlessRaced
<1> QED
  BY <1>1, <1>2, <1>3

LEMMA CommitRemoveKeepsIInv ==
  ASSUME IInv, NEW r \in Requests, CommitRemove(r)
  PROVE  IInv'
<1> USE DEF IInv
<1>1. /\ Answer(r) /\ Wrote(r, "delete") /\ UNCHANGED <<tasks, raced>>
      /\ deps' = deps \ {row[r]}
      /\ row' = [q \in Requests |-> IF row[q] = row[r] THEN NoEdge ELSE row[q]]
  BY DEF CommitRemove
<1>2. TypeOK'
  <2>1. row' \in [Requests -> deps' \union {NoEdge}]
    BY <1>1 DEF TypeOK
  <2>2. GraphTypeOK'
    BY <1>1 DEF TypeOK, GraphTypeOK
  <2> QED
    BY <1>1, <2>1, <2>2, WroteFrame, AnswerFrame DEF TypeOK
<1>3. ASSUME NEW q \in Requests \ {r}
      PROVE  /\ pc'[q] = pc[q] /\ todo'[q] = todo[q] /\ edge'[q] = edge[q]
             /\ patch'[q] = patch[q] /\ visited'[q] = visited[q] /\ stack'[q] = stack[q]
             /\ row'[q] \in {row[q], NoEdge}
             /\ (Validating(q) => window'[q] = window[q] \union {"delete"})
  BY <1>1, WroteFrame, AnswerFrame
<1>4. pc'[r] \in {"idle", "lookup"} /\ (pc'[r] = "lookup" => todo'[r] # <<>>)
  BY <1>1, AnswerFrame
<1>5. \A q \in Requests : pc[q] \in {"lookup", "exists"} => todo[q] # <<>>
  BY DEF WalkShape, ShapeOK
<1>6. \A q \in Requests : pc'[q] \in {"lookup", "exists"} => todo'[q] # <<>>
  BY <1>3, <1>4, <1>5
<1> QED
  BY <1>1, <1>2, <1>3, <1>4, <1>6, ShrinkKeepsIInv DEF Validating

LEMMA DeleteTaskKeepsIInv ==
  ASSUME IInv, NEW t \in Tasks, DeleteTask(t)
  PROVE  IInv'
<1> USE DEF IInv
<1>1. /\ UNCHANGED <<pc, todo, edge, patch, visited, stack, raced>>
      /\ tasks' = tasks \ {t} /\ deps' = {e \in deps : t \notin {e[1], e[2]}}
      /\ row' = [q \in Requests |-> IF row[q] \in deps' THEN row[q] ELSE NoEdge]
      /\ window' = [q \in Requests |->
                      IF Validating(q) THEN window[q] \union {"delete"} ELSE {}]
  BY DEF DeleteTask
<1>2. TypeOK'
  <2>1. row' \in [Requests -> deps' \union {NoEdge}]
    BY <1>1
  <2>2. GraphTypeOK'
    BY <1>1 DEF TypeOK, GraphTypeOK
  <2>3. window' \in [Requests -> SUBSET {"insert", "delete"}]
    <3>1. \A q \in Requests : window[q] \subseteq {"insert", "delete"}
      BY DEF TypeOK
    <3> QED
      BY <1>1, <3>1
  <2> QED
    BY <1>1, <2>1, <2>2, <2>3 DEF TypeOK
<1>3. \A q \in Requests : pc[q] \in {"lookup", "exists"} => todo[q] # <<>>
  BY DEF WalkShape, ShapeOK
<1>4. \A q \in Requests : Validating(q)' = Validating(q)
  BY <1>1 DEF Validating
<1> QED
  BY <1>1, <1>2, <1>3, <1>4, ShrinkKeepsIInv

-----------------------------------------------------------------------------
\* A step of r that leaves the graph alone changes nothing for the others.
LEMMA LocalStepKeepsIInv ==
  ASSUME IInv, NEW r \in Requests, UNCHANGED <<tasks, deps, raced>>,
         TypeOK', ShapeOK(r)', CoversOK(r)',
         \A q \in Requests \ {r} :
           /\ pc'[q] = pc[q] /\ todo'[q] = todo[q] /\ edge'[q] = edge[q] /\ row'[q] = row[q]
           /\ patch'[q] = patch[q] /\ visited'[q] = visited[q] /\ stack'[q] = stack[q]
           /\ window'[q] = window[q]
  PROVE  IInv'
<1> USE DEF IInv
<1>1. ASSUME NEW q \in Requests PROVE ShapeOK(q)' /\ CoversOK(q)'
  <2>1. CASE q = r
    BY <2>1
  <2>2. CASE q # r
    <3>1. ShapeOK(q) /\ CoversOK(q)
      BY DEF WalkShape, WalkCoversDependencies, CoversOK
    <3> QED
      BY <2>2, <3>1 DEF ShapeOK, CoversOK, WalkCovers, Validating
  <2> QED
    BY <2>1, <2>2
<1>2. WalkShape' /\ WalkCoversDependencies'
  BY <1>1 DEF WalkShape, WalkCoversDependencies, CoversOK
<1>3. AcyclicUnlessRaced'
  BY DEF AcyclicUnlessRaced, Acyclic
<1> QED
  BY <1>2, <1>3

LEMMA StartCreateKeepsIInv ==
  ASSUME IInv, NEW r \in Requests, StartCreate(r)
  PROVE  IInv'
<1> USE DEF IInv
<1>1. PICK es \in Bodies : todo' = [todo EXCEPT ![r] = es]
  BY DEF StartCreate
<1>2. es \in Seq(Edges) /\ es # <<>>
  BY BodiesType
<1>3. /\ pc' = [pc EXCEPT ![r] = "lookup"]
      /\ UNCHANGED <<tasks, deps, edge, row, patch, visited, stack, window, raced>>
  BY DEF StartCreate
<1>4. TypeOK'
  BY <1>1, <1>2, <1>3 DEF TypeOK, GraphTypeOK
<1>5. ShapeOK(r)' /\ CoversOK(r)'
  BY <1>1, <1>2, <1>3 DEF TypeOK, ShapeOK, CoversOK, Validating
<1> QED
  BY <1>1, <1>3, <1>4, <1>5, LocalStepKeepsIInv DEF TypeOK

LEMMA LookupKeepsIInv ==
  ASSUME IInv, NEW r \in Requests, Lookup(r)
  PROVE  IInv'
<1> USE DEF IInv
<1>1. UNCHANGED <<tasks, deps, row, window, raced>>
  BY DEF Lookup
<1>2. CASE Answer(r)
  <2>1. row' \in [Requests -> deps \union {NoEdge}]
    BY <1>1 DEF TypeOK
  <2>2. window' \in [Requests -> SUBSET {"insert", "delete"}]
    BY <1>1 DEF TypeOK
  <2> QED
    BY <1>1, <1>2, <2>1, <2>2, RefuseKeepsIInv
<1>3. CASE /\ pc' = [pc EXCEPT ![r] = "exists"]
           /\ UNCHANGED <<todo, edge, patch, visited, stack>>
  <2>1. TypeOK'
    BY <1>1, <1>3 DEF TypeOK, GraphTypeOK
  <2>2. pc[r] = "lookup" /\ todo[r] # <<>>
    BY DEF Lookup, WalkShape, ShapeOK
  <2>3. ShapeOK(r)' /\ CoversOK(r)'
    BY <1>1, <1>3, <2>2 DEF TypeOK, ShapeOK, CoversOK, Validating
  <2> QED
    BY <1>1, <1>3, <2>1, <2>3, LocalStepKeepsIInv DEF TypeOK
<1> QED
  BY <1>2, <1>3 DEF Lookup

\* A walk that has just begun has seen nothing and has the blocking task to try.
LEMMA BeginWalkKeepsIInv ==
  ASSUME IInv, NEW r \in Requests, NEW e \in Edges, BeginWalk(r, e),
         UNCHANGED <<tasks, deps, raced, todo>>,
         row' \in [Requests -> deps \union {NoEdge}],
         patch' \in [Requests -> Patches],
         \A q \in Requests \ {r} : row'[q] = row[q] /\ patch'[q] = patch[q],
         todo[r] = <<>> => e = Merge(row'[r], patch'[r])
  PROVE  IInv'
<1> USE DEF IInv
<1>1. /\ pc' = [pc EXCEPT ![r] = "walk"] /\ edge' = [edge EXCEPT ![r] = e]
      /\ visited' = [visited EXCEPT ![r] = {}] /\ stack' = [stack EXCEPT ![r] = <<{e[2]}>>]
      /\ window' = [window EXCEPT ![r] = {}]
  BY DEF BeginWalk
<1>2. e[1] \in Tasks /\ e[2] \in Tasks
  BY DEF Edges
<1>3. TypeOK'
  <2>1. stack' \in [Requests -> Seq(SUBSET Tasks)]
    BY <1>1, <1>2 DEF TypeOK
  <2> QED
    BY <1>1, <2>1 DEF TypeOK, GraphTypeOK
<1>4. /\ pc'[r] = "walk" /\ edge'[r] = e /\ visited'[r] = {} /\ stack'[r] = <<{e[2]}>>
      /\ window'[r] = {} /\ todo'[r] = todo[r]
  BY <1>1 DEF TypeOK
<1>5. Pending(stack'[r]) = {e[2]}
  BY <1>4, PendingUnit
<1>6. ShapeOK(r)'
  <2>1. stack'[r] # <<>>
    BY <1>4
  <2>2. Merge(row[r], patch[r])' = Merge(row'[r], patch'[r])
    BY DEF Merge
  <2>3. e[2] \in (visited[r] \union Pending(stack[r]))'
    BY <1>5
  <2> QED
    BY <1>4, <2>1, <2>2, <2>3 DEF ShapeOK
<1>7. CoversOK(r)'
  BY <1>4 DEF CoversOK, WalkCovers
<1> QED
  BY <1>1, <1>3, <1>6, <1>7, LocalStepKeepsIInv DEF TypeOK

LEMMA CheckExistingKeepsIInv ==
  ASSUME IInv, NEW r \in Requests, CheckExisting(r)
  PROVE  IInv'
<1> USE DEF IInv
<1>1. UNCHANGED <<tasks, deps, row, raced>> /\ pc[r] = "exists"
  BY DEF CheckExisting
<1>2. row' \in [Requests -> deps \union {NoEdge}]
  BY <1>1 DEF TypeOK
<1>3. CASE Answer(r) /\ UNCHANGED window
  <2>1. window' \in [Requests -> SUBSET {"insert", "delete"}]
    BY <1>3 DEF TypeOK
  <2> QED
    BY <1>1, <1>2, <1>3, <2>1, RefuseKeepsIInv
<1>4. CASE BeginWalk(r, Head(todo[r])) /\ UNCHANGED <<todo, patch>>
  <2>1. todo[r] # <<>> /\ todo[r] \in Seq(Edges)
    BY <1>1 DEF WalkShape, ShapeOK, TypeOK
  <2>2. Head(todo[r]) \in Edges
    BY <2>1
  <2>3. patch' \in [Requests -> Patches]
    BY <1>4 DEF TypeOK
  <2> QED
    BY <1>1, <1>2, <1>4, <2>1, <2>2, <2>3, BeginWalkKeepsIInv
<1> QED
  BY <1>3, <1>4 DEF CheckExisting

LEMMA StartUpdateKeepsIInv ==
  ASSUME IInv, NEW r \in Requests, StartUpdate(r)
  PROVE  IInv'
<1> USE DEF IInv
<1>1. PICK e \in deps, p \in Patches :
        /\ row' = [row EXCEPT ![r] = e] /\ patch' = [patch EXCEPT ![r] = p]
        /\ BeginWalk(r, Merge(e, p))
  BY DEF StartUpdate
<1>2. UNCHANGED <<tasks, deps, raced, todo>>
  BY DEF StartUpdate
<1>3. Merge(e, p) \in Edges
  BY MergeType DEF TypeOK, GraphTypeOK, Edges
<1>4. /\ row' \in [Requests -> deps \union {NoEdge}] /\ patch' \in [Requests -> Patches]
      /\ row'[r] = e /\ patch'[r] = p
      /\ \A q \in Requests \ {r} : row'[q] = row[q] /\ patch'[q] = patch[q]
  BY <1>1 DEF TypeOK
<1> QED
  BY <1>1, <1>2, <1>3, <1>4, BeginWalkKeepsIInv

LEMMA StartRemoveKeepsIInv ==
  ASSUME IInv, NEW r \in Requests, StartRemove(r)
  PROVE  IInv'
<1> USE DEF IInv
<1>1. PICK e \in deps : row' = [row EXCEPT ![r] = e]
  BY DEF StartRemove
<1>2. /\ pc' = [pc EXCEPT ![r] = "delete"]
      /\ UNCHANGED <<tasks, deps, todo, edge, patch, visited, stack, window, raced>>
  BY DEF StartRemove
<1>3. TypeOK'
  BY <1>1, <1>2 DEF TypeOK, GraphTypeOK
<1>4. ShapeOK(r)' /\ CoversOK(r)'
  BY <1>2 DEF TypeOK, ShapeOK, CoversOK, Validating
<1> QED
  BY <1>1, <1>2, <1>3, <1>4, LocalStepKeepsIInv DEF TypeOK

-----------------------------------------------------------------------------
LEMMA DescendKeepsIInv ==
  ASSUME IInv, NEW r \in Requests, Descend(r)
  PROVE  IInv'
<1> USE DEF IInv
<1>1. PICK c \in Head(stack[r]) \ visited[r] :
        /\ c # edge[r][1]
        /\ visited' = [visited EXCEPT ![r] = @ \union {c}]
        /\ stack' = [stack EXCEPT ![r] = <<Blocking(c)>> \o @]
  BY DEF Descend
<1>2. /\ UNCHANGED <<tasks, deps, pc, todo, edge, row, patch, window, raced>>
      /\ pc[r] = "walk" /\ stack[r] # <<>>
  BY DEF Descend
<1>3. stack[r] \in Seq(SUBSET Tasks)
  BY DEF TypeOK
<1>4. c \in Tasks /\ Blocking(c) \in SUBSET Tasks
  BY <1>2, <1>3, TailType DEF Blocking
<1>5. /\ visited'[r] = visited[r] \union {c}
      /\ stack'[r] = <<Blocking(c)>> \o stack[r] /\ stack'[r] \in Seq(SUBSET Tasks)
      /\ stack'[r] # <<>>
  <2>1. visited'[r] = visited[r] \union {c} /\ stack'[r] = <<Blocking(c)>> \o stack[r]
    BY <1>1 DEF TypeOK
  <2>2. Len(<<Blocking(c)>> \o stack[r]) = 1 + Len(stack[r]) /\ Len(stack[r]) \in Nat
    BY <1>3
  <2> QED
    BY <1>3, <1>4, <2>1, <2>2
<1>6. Pending(stack'[r]) = Blocking(c) \union Pending(stack[r])
  BY <1>3, <1>4, <1>5, PendingCons
<1>7. TypeOK'
  <2>1. visited' \in [Requests -> SUBSET Tasks] /\ stack' \in [Requests -> Seq(SUBSET Tasks)]
    BY <1>1, <1>4, <1>5 DEF TypeOK
  <2> QED
    BY <1>2, <2>1 DEF TypeOK, GraphTypeOK
<1>8. ShapeOK(r)'
  <2>1. ShapeOK(r)
    BY DEF WalkShape
  <2>2. (visited[r] \union Pending(stack[r])) \subseteq (visited'[r] \union Pending(stack'[r]))
    BY <1>5, <1>6
  <2> QED
    BY <1>2, <1>5, <2>1, <2>2 DEF ShapeOK, Validating
<1>9. CoversOK(r)'
  <2>1. CoversOK(r)
    BY DEF WalkCoversDependencies, CoversOK
  <2>2. \A e \in deps : e[1] = c => e[2] \in Blocking(c)
    <3> SUFFICES ASSUME NEW e \in deps, e[1] = c PROVE e[2] \in Blocking(c)
      OBVIOUS
    <3>1. e = <<e[1], e[2]>> /\ e[2] \in Tasks
      BY DEF TypeOK, GraphTypeOK
    <3> QED
      BY <3>1 DEF Blocking
  <2>3. ASSUME WalkCovers(r) PROVE WalkCovers(r)'
    <3>1. edge'[r][1] \notin visited'[r]
      BY <1>1, <1>2, <1>5, <2>3 DEF WalkCovers
    <3>2. \A e \in deps : e[1] \in visited'[r] => e[2] \in visited'[r] \union Pending(stack'[r])
      BY <1>5, <1>6, <2>2, <2>3 DEF WalkCovers
    <3> QED
      BY <1>2, <3>1, <3>2 DEF WalkCovers
  <2> QED
    BY <1>2, <2>1, <2>3 DEF CoversOK, Validating
<1> QED
  BY <1>1, <1>2, <1>7, <1>8, <1>9, LocalStepKeepsIInv DEF TypeOK

LEMMA FoundPathKeepsIInv ==
  ASSUME IInv, NEW r \in Requests, FoundPath(r)
  PROVE  IInv'
<1> USE DEF IInv
<1>1. /\ Answer(r) /\ Unread(r) /\ UNCHANGED <<tasks, deps, raced>>
      /\ row' = [row EXCEPT ![r] = NoEdge]
  BY DEF FoundPath
<1>2. /\ row' \in [Requests -> deps \union {NoEdge}]
      /\ window' \in [Requests -> SUBSET {"insert", "delete"}]
      /\ \A q \in Requests \ {r} : row'[q] = row[q] /\ window'[q] = window[q]
  BY <1>1 DEF TypeOK, Unread
<1> QED
  BY <1>1, <1>2, RefuseKeepsIInv

LEMMA ReturnKeepsIInv ==
  ASSUME IInv, NEW r \in Requests, Return(r)
  PROVE  IInv'
<1> USE DEF IInv
<1>1. /\ pc[r] = "walk" /\ stack[r] # <<>> /\ Head(stack[r]) \subseteq visited[r]
      /\ stack' = [stack EXCEPT ![r] = Tail(@)]
      /\ pc' = [pc EXCEPT ![r] = IF Len(stack[r]) = 1 THEN "write" ELSE "walk"]
      /\ UNCHANGED <<tasks, deps, todo, edge, row, patch, visited, window, raced>>
  BY DEF Return
<1>2. stack[r] \in Seq(SUBSET Tasks)
  BY DEF TypeOK
<1>3. /\ stack'[r] = Tail(stack[r]) /\ Tail(stack[r]) \in Seq(SUBSET Tasks)
      /\ (Tail(stack[r]) = <<>> <=> Len(stack[r]) = 1)
      /\ pc'[r] = IF Len(stack[r]) = 1 THEN "write" ELSE "walk"
  <2>1. Tail(stack[r]) \in Seq(SUBSET Tasks) /\ (Tail(stack[r]) = <<>> <=> Len(stack[r]) = 1)
    BY <1>1, <1>2, TailType, Zenon
  <2>2. /\ stack'[r] = Tail(stack[r])
        /\ pc'[r] = IF Len(stack[r]) = 1 THEN "write" ELSE "walk"
    BY <1>1 DEF TypeOK
  <2> QED
    BY <2>1, <2>2
<1>4. Pending(stack[r]) \subseteq visited[r] \union Pending(stack'[r])
  <2>1. Pending(stack[r]) \subseteq Head(stack[r]) \union Pending(Tail(stack[r]))
    BY <1>1, <1>2, PendingTail, Zenon
  <2> QED
    BY <1>1, <1>3, <2>1
<1>5. TypeOK'
  <2>1. pc' \in [Requests -> {"idle", "lookup", "exists", "walk", "write", "delete"}]
    BY <1>1 DEF TypeOK
  <2>2. stack' \in [Requests -> Seq(SUBSET Tasks)]
    BY <1>1, <1>3 DEF TypeOK
  <2> QED
    BY <1>1, <2>1, <2>2 DEF TypeOK, GraphTypeOK
<1>6. ShapeOK(r)'
  <2>1. ShapeOK(r)
    BY DEF WalkShape
  <2>2. Validating(r) /\ pc'[r] \in {"walk", "write"}
    BY <1>1, <1>3 DEF Validating
  <2>3. edge'[r][2] \in visited'[r] \union Pending(stack'[r])
    BY <1>1, <1>4, <2>1, <2>2 DEF ShapeOK
  <2> QED
    BY <1>1, <1>3, <2>1, <2>2, <2>3 DEF ShapeOK
<1>7. CoversOK(r)'
  <2>1. CoversOK(r)
    BY DEF WalkCoversDependencies, CoversOK
  <2>2. Validating(r)
    BY <1>1 DEF Validating
  <2> QED
    BY <1>1, <1>4, <2>1, <2>2 DEF CoversOK, WalkCovers
<1> QED
  BY <1>1, <1>5, <1>6, <1>7, LocalStepKeepsIInv DEF TypeOK

-----------------------------------------------------------------------------
LEMMA NextKeepsIInv == IInv /\ [Next]_vars => IInv'
<1> SUFFICES ASSUME IInv, [Next]_vars PROVE IInv'
  OBVIOUS
<1>1. ASSUME NEW r \in Requests, Step(r) PROVE IInv'
  BY <1>1, LookupKeepsIInv, CheckExistingKeepsIInv, CommitCreateKeepsIInv, DescendKeepsIInv,
     FoundPathKeepsIInv, ReturnKeepsIInv, CommitUpdateKeepsIInv, CommitRemoveKeepsIInv
  DEF Step
<1>2. ASSUME NEW r \in Requests, StartCreate(r) \/ StartUpdate(r) \/ StartRemove(r)
      PROVE  IInv'
  BY <1>2, StartCreateKeepsIInv, StartUpdateKeepsIInv, StartRemoveKeepsIInv
<1>3. ASSUME NEW t \in Tasks, DeleteTask(t) PROVE IInv'
  BY <1>3, DeleteTaskKeepsIInv
<1>4. CASE UNCHANGED vars
  BY <1>4 DEF vars, reqVars, IInv, TypeOK, GraphTypeOK, WalkShape, ShapeOK, Validating,
     WalkCoversDependencies, WalkCovers, AcyclicUnlessRaced, Acyclic
<1> QED
  BY <1>1, <1>2, <1>3, <1>4 DEF Next

(* Every variable keeps its type, edges only join existing tasks, and a    *)
(* request in progress holds a row of the table or none.                   *)
THEOREM TypeCorrect == Spec => []TypeOK
<1>1. IInv => TypeOK
  BY DEF IInv
<1> QED
  BY <1>1, InitIInv, NextKeepsIInv, PTL DEF Spec

(* A walk of validateNoCycles that no insert overtook has covered every    *)
(* dependency of the tasks it visited, however requests and deletions      *)
(* interleave with its queries.                                            *)
THEOREM WalkCorrect == Spec => []WalkCoversDependencies
<1>1. IInv => WalkCoversDependencies
  BY DEF IInv
<1> QED
  BY <1>1, InitIInv, NextKeepsIInv, PTL DEF Spec

(* The dependency graph has no cycle until an edge is written on a         *)
(* validation that another insert overtook.                                *)
THEOREM Safety == Spec => []AcyclicUnlessRaced
<1>1. IInv => AcyclicUnlessRaced
  BY DEF IInv
<1> QED
  BY <1>1, InitIInv, NextKeepsIInv, PTL DEF Spec

-----------------------------------------------------------------------------
\* What each write to the graph is to DependencyGraph.
LEMMA CommitCreateInserts ==
  ASSUME IInv, IInv', NEW r \in Requests, CommitCreate(r), ~raced'
  PROVE  UNCHANGED <<tasks, deps>> \/ Graph!Insert
<1>1. CASE edge[r] \notin deps /\ Exist(edge[r])
  <2>1. UNCHANGED tasks /\ deps' = deps \union {edge[r]}
    BY <1>1 DEF CommitCreate
  <2>2. edge[r] \in Edges
    BY DEF IInv, WalkShape, ShapeOK, Validating, CommitCreate
  <2>3. edge[r] \in (tasks \X tasks) \ deps
    BY <1>1, <2>2 DEF Exist, Edges
  <2>4. Graph!Acyclic(deps')
    BY DEF IInv, AcyclicUnlessRaced, Acyclic, Graph!Acyclic
  <2> QED
    BY <2>1, <2>3, <2>4 DEF Graph!Insert
<1>2. CASE edge[r] \in deps \/ ~Exist(edge[r])
  BY <1>2 DEF CommitCreate
<1> QED
  BY <1>1, <1>2

LEMMA CommitUpdateReplaces ==
  ASSUME IInv, IInv', NEW r \in Requests, CommitUpdate(r), ~raced'
  PROVE  UNCHANGED <<tasks, deps>> \/ Graph!Replace
<1>1. CASE Updatable(r)
  <2> DEFINE new == Merge(row[r], patch[r])
  <2>1. UNCHANGED tasks /\ deps' = (deps \ {row[r]}) \union {new}
    BY <1>1 DEF CommitUpdate
  <2>2. row[r] \in deps
    BY <1>1 DEF IInv, TypeOK, Updatable
  <2>3. row[r] \in Edges /\ patch[r] \in Patches
    BY <2>2 DEF IInv, TypeOK, GraphTypeOK, Edges
  <2>4. new \in tasks \X tasks
    BY <1>1, <2>3, MergeType DEF Updatable, Exist, Edges
  <2>5. Graph!Acyclic(deps')
    BY DEF IInv, AcyclicUnlessRaced, Acyclic, Graph!Acyclic
  <2> HIDE DEF new
  <2> QED
    BY <2>1, <2>2, <2>4, <2>5 DEF Graph!Replace
<1>2. CASE ~Updatable(r)
  BY <1>2 DEF CommitUpdate
<1> QED
  BY <1>1, <1>2

LEMMA CommitRemoveRemoves ==
  ASSUME IInv, NEW r \in Requests, CommitRemove(r)
  PROVE  UNCHANGED <<tasks, deps>> \/ Graph!Remove
<1>1. UNCHANGED tasks /\ deps' = deps \ {row[r]}
  BY DEF CommitRemove
<1>2. row[r] \in deps \/ row[r] \notin deps
  OBVIOUS
<1> QED
  BY <1>1, <1>2 DEF Graph!Remove

LEMMA NextImplementsGraph ==
  ASSUME IInv, IInv', [Next]_vars, ~raced'
  PROVE  UNCHANGED <<tasks, deps>> \/ Graph!GraphNext
<1>1. ASSUME NEW r \in Requests, Step(r)
      PROVE  UNCHANGED <<tasks, deps>> \/ Graph!GraphNext
  <2>1. CASE CommitCreate(r)
    BY <2>1, CommitCreateInserts DEF Graph!GraphNext
  <2>2. CASE CommitUpdate(r)
    BY <2>2, CommitUpdateReplaces DEF Graph!GraphNext
  <2>3. CASE CommitRemove(r)
    BY <2>3, CommitRemoveRemoves DEF Graph!GraphNext
  <2>4. CASE Lookup(r) \/ CheckExisting(r) \/ Descend(r) \/ FoundPath(r) \/ Return(r)
    BY <2>4 DEF Lookup, CheckExisting, Descend, FoundPath, Return
  <2> QED
    BY <1>1, <2>1, <2>2, <2>3, <2>4 DEF Step
<1>2. ASSUME NEW r \in Requests, StartCreate(r) \/ StartUpdate(r) \/ StartRemove(r)
      PROVE  UNCHANGED <<tasks, deps>>
  BY <1>2 DEF StartCreate, StartUpdate, StartRemove
<1>3. ASSUME NEW t \in Tasks, DeleteTask(t)
      PROVE  Graph!GraphNext
  BY <1>3 DEF DeleteTask, Graph!RemoveTask, Graph!GraphNext
<1>4. CASE UNCHANGED vars
  BY <1>4 DEF vars
<1> QED
  BY <1>1, <1>2, <1>3, <1>4 DEF Next

(* The service implements DependencyGraph: every step of it is an insert,  *)
(* a replacement or a removal that the abstract graph allows, or leaves    *)
(* the graph alone, until an edge is written on an overtaken validation.   *)
THEOREM Implements == Spec => KeepsGraphAcyclic
<1>1. Init => Graph!GraphInit
  BY DEF Init, GraphInit, Graph!GraphInit
<1>2. IInv /\ IInv' /\ [Next]_vars
      => [UNCHANGED Graph!graphVars \/ raced' \/ Graph!GraphNext]_Graph!graphVars
  BY NextImplementsGraph DEF Graph!graphVars
<1> QED
  BY <1>1, <1>2, InitIInv, NextKeepsIInv, PTL DEF Spec, KeepsGraphAcyclic

-----------------------------------------------------------------------------
(* While the graph is as it was when a walk began, all the walk has seen   *)
(* or will try can be reached from the blocking task: it lies in every set *)
(* that contains that task and, with a task, what it depends on.           *)
SeenFrom(r) ==
  \A S \in SUBSET Tasks :
    edge[r][2] \in S /\ Closed(S, deps) => visited[r] \union Pending(stack[r]) \subseteq S

SeenOK(r) == Validating(r) /\ window[r] = {} => SeenFrom(r)

SeenReachable == \A r \in Requests : SeenOK(r)

\* Another request takes a step that r does not see, or writes to the graph.
LEMMA UnseenKeepsSeen ==
  ASSUME NEW r \in Requests, SeenOK(r), UNCHANGED deps,
         pc'[r] = pc[r], edge'[r] = edge[r], visited'[r] = visited[r], stack'[r] = stack[r],
         window'[r] = window[r]
  PROVE  SeenOK(r)'
<1>1. Pending(stack[r])' = Pending(stack[r])
  BY DEF Pending
<1>2. ASSUME NEW S \in SUBSET Tasks PROVE Closed(S, deps)' = Closed(S, deps)
  BY DEF Closed
<1>3. SeenFrom(r)' = SeenFrom(r)
  BY <1>1, <1>2 DEF SeenFrom
<1> QED
  BY <1>3 DEF SeenOK, Validating

LEMMA WroteKeepsSeen ==
  ASSUME TypeOK, NEW r \in Requests, Answer(r), NEW kind, Wrote(r, kind),
         NEW q \in Requests
  PROVE  SeenOK(q)'
<1>1. CASE q = r
  BY <1>1, AnswerFrame DEF SeenOK, Validating
<1>2. CASE q # r
  <2>1. pc'[q] = pc[q]
    BY <1>2, AnswerFrame
  <2>2. Validating(q) => window'[q] # {}
    BY <1>2 DEF Wrote
  <2> QED
    BY <2>1, <2>2 DEF SeenOK, Validating
<1> QED
  BY <1>1, <1>2

LEMMA RefuseKeepsSeen ==
  ASSUME TypeOK, SeenReachable, NEW r \in Requests, Answer(r), UNCHANGED deps,
         UNCHANGED window \/ Unread(r), NEW q \in Requests
  PROVE  SeenOK(q)'
<1>1. CASE q = r
  BY <1>1, AnswerFrame DEF SeenOK, Validating
<1>2. CASE q # r
  <2>1. window'[q] = window[q]
    BY <1>2 DEF Unread, TypeOK
  <2>2. /\ pc'[q] = pc[q] /\ edge'[q] = edge[q] /\ visited'[q] = visited[q]
        /\ stack'[q] = stack[q]
    BY <1>2, AnswerFrame
  <2> QED
    BY <2>1, <2>2, UnseenKeepsSeen DEF SeenReachable
<1> QED
  BY <1>1, <1>2

LEMMA BeginWalkKeepsSeen ==
  ASSUME TypeOK, SeenReachable, NEW r \in Requests, NEW e \in Edges, BeginWalk(r, e),
         UNCHANGED deps, NEW q \in Requests
  PROVE  SeenOK(q)'
<1>1. CASE q = r
  <2>1. edge'[r] = e /\ visited'[r] = {} /\ stack'[r] = <<{e[2]}>>
    BY DEF BeginWalk, TypeOK
  <2>2. Pending(stack[r])' = {e[2]}
    BY <2>1, PendingUnit DEF Pending
  <2>3. SeenFrom(r)'
    BY <2>1, <2>2 DEF SeenFrom
  <2> QED
    BY <1>1, <2>3 DEF SeenOK
<1>2. CASE q # r
  <2>1. /\ pc'[q] = pc[q] /\ edge'[q] = edge[q] /\ visited'[q] = visited[q]
        /\ stack'[q] = stack[q] /\ window'[q] = window[q]
    BY <1>2 DEF BeginWalk, TypeOK
  <2> QED
    BY <2>1, UnseenKeepsSeen DEF SeenReachable
<1> QED
  BY <1>1, <1>2

\* The walk tries one of the tasks it can reach, and its dependencies are to come.
LEMMA DescendKeepsSeen ==
  ASSUME TypeOK, SeenReachable, NEW r \in Requests, Descend(r), NEW q \in Requests
  PROVE  SeenOK(q)'
<1>1. PICK c \in Head(stack[r]) \ visited[r] :
        /\ visited' = [visited EXCEPT ![r] = @ \union {c}]
        /\ stack' = [stack EXCEPT ![r] = <<Blocking(c)>> \o @]
  BY DEF Descend
<1>2. UNCHANGED <<deps, pc, edge, window>> /\ pc[r] = "walk" /\ stack[r] # <<>>
  BY DEF Descend
<1>3. CASE q = r
  <2>1. stack[r] \in Seq(SUBSET Tasks)
    BY DEF TypeOK
  <2>2. c \in Tasks /\ Blocking(c) \in SUBSET Tasks /\ c \in Pending(stack[r])
    BY <1>2, <2>1, HeadPending, TailType DEF Blocking
  <2>3. visited'[r] = visited[r] \union {c} /\ stack'[r] = <<Blocking(c)>> \o stack[r]
    BY <1>1 DEF TypeOK
  <2>4. Pending(stack[r])' = Blocking(c) \union Pending(stack[r])
    <3>1. Pending(stack'[r]) = Blocking(c) \union Pending(stack[r])
      BY <2>1, <2>2, <2>3, PendingCons
    <3> QED
      BY <3>1 DEF Pending
  <2>5. ASSUME NEW S \in SUBSET Tasks, c \in S, Closed(S, deps)
        PROVE  Blocking(c) \subseteq S
    BY <2>5 DEF Blocking, Closed
  <2>6. ASSUME SeenFrom(r) PROVE SeenFrom(r)'
    <3> SUFFICES ASSUME NEW S \in SUBSET Tasks, edge'[r][2] \in S, Closed(S, deps')
                 PROVE  (visited[r] \union Pending(stack[r]))' \subseteq S
      BY DEF SeenFrom, Closed
    <3>1. Closed(S, deps) /\ edge[r][2] \in S
      BY <1>2 DEF Closed
    <3>2. visited[r] \union Pending(stack[r]) \subseteq S
      BY <2>6, <3>1 DEF SeenFrom
    <3>3. Blocking(c) \subseteq S
      BY <2>2, <2>5, <3>1, <3>2
    <3> QED
      BY <2>2, <2>3, <2>4, <3>2, <3>3
  <2>7. SeenOK(r)
    BY DEF SeenReachable
  <2> QED
    BY <1>2, <1>3, <2>6, <2>7 DEF SeenOK, Validating
<1>4. CASE q # r
  <2>1. visited'[q] = visited[q] /\ stack'[q] = stack[q]
    BY <1>1, <1>4 DEF TypeOK
  <2> QED
    BY <1>2, <2>1, UnseenKeepsSeen DEF SeenReachable
<1> QED
  BY <1>3, <1>4

LEMMA ReturnKeepsSeen ==
  ASSUME TypeOK, SeenReachable, NEW r \in Requests, Return(r), NEW q \in Requests
  PROVE  SeenOK(q)'
<1>1. /\ pc[r] = "walk" /\ stack[r] # <<>> /\ stack' = [stack EXCEPT ![r] = Tail(@)]
      /\ pc' = [pc EXCEPT ![r] = IF Len(stack[r]) = 1 THEN "write" ELSE "walk"]
      /\ UNCHANGED <<deps, edge, visited, window>>
  BY DEF Return
<1>2. CASE q = r
  <2>1. stack[r] \in Seq(SUBSET Tasks) /\ stack'[r] = Tail(stack[r])
    BY <1>1 DEF TypeOK
  <2>2. Pending(Tail(stack[r])) \subseteq Pending(stack[r])
    BY <1>1, <2>1, TailPending, Zenon
  <2>3. Pending(stack[r])' = Pending(Tail(stack[r]))
    BY <2>1 DEF Pending
  <2>4. ASSUME SeenFrom(r) PROVE SeenFrom(r)'
    <3> SUFFICES ASSUME NEW S \in SUBSET Tasks, edge'[r][2] \in S, Closed(S, deps')
                 PROVE  (visited[r] \union Pending(stack[r]))' \subseteq S
      BY DEF SeenFrom, Closed
    <3>1. Closed(S, deps) /\ edge[r][2] \in S
      BY <1>1 DEF Closed
    <3>2. visited[r] \union Pending(stack[r]) \subseteq S
      BY <2>4, <3>1 DEF SeenFrom
    <3> QED
      BY <1>1, <2>2, <2>3, <3>2
  <2>5. SeenOK(r) /\ Validating(r)
    BY <1>1 DEF SeenReachable, Validating
  <2> QED
    BY <1>1, <1>2, <2>4, <2>5 DEF SeenOK
<1>3. CASE q # r
  <2>1. pc'[q] = pc[q] /\ stack'[q] = stack[q]
    BY <1>1, <1>3 DEF TypeOK
  <2> QED
    BY <1>1, <2>1, UnseenKeepsSeen DEF SeenReachable
<1> QED
  BY <1>2, <1>3

\* Nothing but a step of the pc of a request that validates nothing.
LEMMA OutsideKeepsSeen ==
  ASSUME TypeOK, SeenReachable, NEW r \in Requests, NEW p \in {"lookup", "exists", "delete"},
         pc' = [pc EXCEPT ![r] = p], UNCHANGED <<deps, edge, visited, stack, window>>,
         NEW q \in Requests
  PROVE  SeenOK(q)'
<1>1. CASE q = r
  BY <1>1 DEF TypeOK, SeenOK, Validating
<1>2. CASE q # r
  <2>1. pc'[q] = pc[q]
    BY <1>2 DEF TypeOK
  <2> QED
    BY <2>1, UnseenKeepsSeen DEF SeenReachable
<1> QED
  BY <1>1, <1>2

LEMMA StepKeepsSeen ==
  ASSUME IInv, SeenReachable, NEW r \in Requests,
         StartCreate(r) \/ StartUpdate(r) \/ StartRemove(r) \/ Step(r), NEW q \in Requests
  PROVE  SeenOK(q)'
<1> USE DEF IInv
<1>1. CASE StartCreate(r)
  BY <1>1, OutsideKeepsSeen DEF StartCreate
<1>2. CASE StartRemove(r)
  BY <1>2, OutsideKeepsSeen DEF StartRemove
<1>3. CASE StartUpdate(r)
  <2>1. PICK e \in deps, p \in Patches : BeginWalk(r, Merge(e, p)) /\ UNCHANGED deps
    BY <1>3 DEF StartUpdate
  <2>2. Merge(e, p) \in Edges
    BY MergeType DEF TypeOK, GraphTypeOK, Edges
  <2> QED
    BY <2>1, <2>2, BeginWalkKeepsSeen
<1>4. CASE Lookup(r)
  <2>1. Answer(r) \/ (pc' = [pc EXCEPT ![r] = "exists"] /\ UNCHANGED <<edge, visited, stack>>)
    BY <1>4 DEF Lookup
  <2>2. UNCHANGED <<deps, window>>
    BY <1>4 DEF Lookup
  <2> QED
    BY <2>1, <2>2, RefuseKeepsSeen, OutsideKeepsSeen
<1>5. CASE CheckExisting(r)
  <2>1. Head(todo[r]) \in Edges /\ UNCHANGED deps
    <3>1. todo[r] # <<>> /\ todo[r] \in Seq(Edges)
      BY <1>5 DEF CheckExisting, WalkShape, ShapeOK, TypeOK
    <3> QED
      BY <1>5, <3>1 DEF CheckExisting
  <2>2. (Answer(r) /\ UNCHANGED window) \/ BeginWalk(r, Head(todo[r]))
    BY <1>5 DEF CheckExisting
  <2> QED
    BY <2>1, <2>2, RefuseKeepsSeen, BeginWalkKeepsSeen
<1>6. CASE CommitCreate(r)
  <2>1. Answer(r) /\ (Wrote(r, "insert") \/ (Unread(r) /\ UNCHANGED deps))
    BY <1>6 DEF CommitCreate
  <2> QED
    BY <2>1, WroteKeepsSeen, RefuseKeepsSeen
<1>7. CASE CommitUpdate(r)
  <2>1. Answer(r) /\ (Wrote(r, "insert") \/ (Unread(r) /\ UNCHANGED deps))
    BY <1>7 DEF CommitUpdate
  <2> QED
    BY <2>1, WroteKeepsSeen, RefuseKeepsSeen
<1>8. CASE CommitRemove(r)
  BY <1>8, WroteKeepsSeen DEF CommitRemove
<1>9. CASE FoundPath(r)
  BY <1>9, RefuseKeepsSeen DEF FoundPath
<1> QED
  BY <1>1, <1>2, <1>3, <1>4, <1>5, <1>6, <1>7, <1>8, <1>9, DescendKeepsSeen, ReturnKeepsSeen
  DEF Step

LEMMA DeleteTaskKeepsSeen ==
  ASSUME TypeOK, NEW t \in Tasks, DeleteTask(t), NEW q \in Requests
  PROVE  SeenOK(q)'
BY DEF DeleteTask, SeenOK, Validating

LEMMA InitSeen == Init => SeenReachable
BY DEF Init, SeenReachable, SeenOK, Validating

LEMMA NextKeepsSeen == IInv /\ SeenReachable /\ [Next]_vars => SeenReachable'
<1> SUFFICES ASSUME IInv, SeenReachable, [Next]_vars, NEW q \in Requests PROVE SeenOK(q)'
  BY DEF SeenReachable
<1>1. CASE UNCHANGED vars
  <2>1. UNCHANGED <<deps, pc, edge, visited, stack, window>>
    BY <1>1 DEF vars, reqVars
  <2> QED
    BY <2>1, UnseenKeepsSeen DEF SeenReachable
<1>2. CASE Next
  BY <1>2, StepKeepsSeen, DeleteTaskKeepsSeen DEF Next, IInv
<1> QED
  BY <1>1, <1>2

\* A walk that ends without a write to come has found the dependent task.
LEMMA CircularIsFound ==
  ASSUME TypeOK, [Next]_vars, NEW r \in Requests, NowCircular(r)
  PROVE  stack[r] # <<>> /\ edge[r][1] \in Head(stack[r])
<1>1. pc[r] = "walk" /\ pc'[r] \notin {"walk", "write"}
  BY DEF NowCircular, Validating
<1>2. ~UNCHANGED vars
  BY <1>1 DEF vars, reqVars
<1>3. ASSUME NEW q \in Requests, Answer(q), pc[q] # "walk" PROVE FALSE
  <2>1. q # r
    BY <1>1, <1>3
  <2> QED
    BY <1>1, <1>3, <2>1, AnswerFrame
<1>4. ASSUME NEW q \in Requests, NEW e, BeginWalk(q, e) PROVE FALSE
  BY <1>1, <1>4 DEF BeginWalk, TypeOK
<1>5. ASSUME NEW q \in Requests, NEW p, pc[q] # "walk", pc' = [pc EXCEPT ![q] = p] PROVE FALSE
  BY <1>1, <1>5 DEF TypeOK
<1>6. ASSUME NEW t \in Tasks, DeleteTask(t) PROVE FALSE
  BY <1>1, <1>6 DEF DeleteTask
<1>7. ASSUME NEW q \in Requests,
             StartCreate(q) \/ StartUpdate(q) \/ StartRemove(q) PROVE FALSE
  <2>1. CASE StartCreate(q)
    BY <1>5, <2>1 DEF StartCreate
  <2>2. CASE StartUpdate(q)
    BY <1>4, <2>2 DEF StartUpdate
  <2>3. CASE StartRemove(q)
    BY <1>5, <2>3 DEF StartRemove
  <2> QED
    BY <1>7, <2>1, <2>2, <2>3
<1>8. ASSUME NEW q \in Requests, Step(q) PROVE FoundPath(q)
  <2>1. CASE Lookup(q)
    BY <1>3, <1>5, <2>1 DEF Lookup
  <2>2. CASE CheckExisting(q)
    BY <1>3, <1>4, <2>2 DEF CheckExisting
  <2>3. CASE CommitCreate(q) \/ CommitUpdate(q) \/ CommitRemove(q)
    BY <1>3, <2>3 DEF CommitCreate, CommitUpdate, CommitRemove
  <2>4. CASE Descend(q)
    BY <1>1, <2>4 DEF Descend
  <2>5. CASE Return(q)
    BY <1>1, <2>5 DEF Return, TypeOK
  <2> QED
    BY <1>8, <2>1, <2>2, <2>3, <2>4, <2>5 DEF Step
<1>9. PICK q \in Requests : FoundPath(q)
  BY <1>2, <1>6, <1>7, <1>8 DEF Next
<1>10. q = r
  BY <1>1, <1>9, AnswerFrame DEF FoundPath
<1> QED
  BY <1>9, <1>10 DEF FoundPath

(* A create that is refused as circular, and that nobody's write overtook, *)
(* is refused rightly: the blocking task reaches the dependent one.        *)
THEOREM CircularJustified == Spec => CircularCreateJustified
<1>1. Init => IInv /\ SeenReachable
  BY InitIInv, InitSeen
<1>2. IInv /\ SeenReachable /\ [Next]_vars => (IInv /\ SeenReachable)'
  BY NextKeepsIInv, NextKeepsSeen
<1>3. IInv /\ SeenReachable /\ [Next]_vars =>
        [\A r \in Requests :
           NowCircular(r) /\ window[r] = {} /\ todo[r] # <<>>
             => Reaches(deps, edge[r][2], edge[r][1])]_vars
  <2> SUFFICES ASSUME IInv, SeenReachable, [Next]_vars, NEW r \in Requests,
                      NowCircular(r), window[r] = {}
               PROVE  Reaches(deps, edge[r][2], edge[r][1])
    BY Zenon
  <2>1. TypeOK /\ stack[r] \in Seq(SUBSET Tasks)
    BY DEF IInv, TypeOK
  <2>2. stack[r] # <<>> /\ edge[r][1] \in Head(stack[r])
    BY <2>1, CircularIsFound
  <2>3. edge[r][1] \in Pending(stack[r])
    BY <2>1, <2>2, HeadPending
  <2>4. SeenFrom(r)
    BY DEF SeenReachable, SeenOK, NowCircular, Validating
  <2> QED
    BY <2>3, <2>4 DEF SeenFrom, Reaches
<1> QED
  BY <1>1, <1>2, <1>3, PTL DEF Spec, CircularCreateJustified
=============================================================================
