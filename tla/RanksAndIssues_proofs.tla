----------------------- MODULE RanksAndIssues_proofs ------------------------
(***************************************************************************)
(* Two components that share nothing but tasks.                            *)
(*                                                                         *)
(* The ranks, for any tasks, bounds and number of requests at a time:      *)
(* every task has a rank before the neighbours of a reorder are looked up, *)
(* whoever else creates tasks or seeds ranks meanwhile; and a task that    *)
(* nobody moved anything around lands where it was dropped, with room      *)
(* beside it, the others in the order they had.                            *)
(*                                                                         *)
(* The issues of Jira and the cards of Trello, for any issues, size of a   *)
(* page and number of requests at a time: no change is skipped.  A list is *)
(* read page after page in the order of creation, so what a sync has still *)
(* to see is on its list or in its page; and what another sync read too    *)
(* early to write, one that began later sees again.                        *)
(***************************************************************************)
EXTENDS TaskRanks, IssueSync, FiniteSetTheorems, SequenceTheorems, WellFoundedInduction, TLAPS

(***************************************************************************)
(* The ranks of the tasks                                                  *)
(***************************************************************************)
Steps == {"idle", "rows", "unranked", "max", "seed", "neighbours", "adjacent", "write", "order",
          "renumber"}
Ops == {"create", "bulk", "batch", "reorder"}
Orders == UNION {[S -> 1 .. Highest] : S \in SUBSET Tasks}
SlotType ==
  [step : Steps, op : Ops, who : SUBSET Tasks, task : Tasks \union {NoTask},
   after : Tasks \union {NoTask}, before : Tasks \union {NoTask}, base : Ranks,
   a : Ranks \union {NoRank}, b : Ranks \union {NoRank}, order : Orders, clean : BOOLEAN]

Typed ==
  /\ top \subseteq Tasks /\ rank \in [Tasks -> Ranks \union {NoRank}]
  /\ busy \in [Slots -> SlotType] /\ asked \in [Slots -> SUBSET Ops]

\* Only tasks of the scope have ranks, and a task that was created has one.
RankedOK ==
  /\ \A t \in Tasks : rank[t] # NoRank => t \in top
  /\ \A t \in top \ Early : rank[t] # NoRank

\* What a request holds stays true whoever writes meanwhile: the tasks it is
\* creating are not there, it knows of all that have no rank until it has given
\* them one, and what it moves and what it moves it to are there.
Seeding == {"max", "seed"}
Seeded == {"neighbours", "adjacent", "write", "order", "renumber"}
HeldOK(q) ==
  /\ q.step = "rows" => q.who \intersect top = {}
  /\ q.step \in Seeding => top \ WithRank \subseteq q.who
  /\ q.step \in Seeded => top = WithRank
  /\ q.step \notin {"idle", "rows"} =>
       /\ q.who \subseteq top /\ q.task \in top
       /\ q.after \in top \union {NoTask} /\ q.before \in top \union {NoTask}
       /\ q.task # q.after /\ q.task # q.before
  /\ q.step = "adjacent" => (q.a = NoRank) # (q.b = NoRank)
  /\ DOMAIN q.order \subseteq top

\* No two creations are of the same task.
ApartOK ==
  \A p, q \in Slots : p # q /\ busy[p].step = "rows" /\ busy[q].step = "rows"
                      => busy[p].who \intersect busy[q].who = {}

\* b is the rank next above a, a the rank next below b; or there is none.
NextAbove(a, b) ==
  /\ b # NoRank => b > a
  /\ \A t \in WithRank : rank[t] > a => b # NoRank /\ b <= rank[t]
NextBelow(a, b) ==
  /\ a # NoRank => a < b
  /\ \A t \in WithRank : rank[t] < b => a # NoRank /\ a >= rank[t]
PlaceOf(t) == Cardinality({s \in WithRank : Before(s, t)}) + 1

\* As long as nobody else has written a rank, what a request read is so.
ReadOK(q) ==
  q.clean =>
    /\ q.step = "adjacent" =>
         /\ q.a = RankOf(q.after) /\ q.b = RankOf(q.before)
         /\ (q.after = NoTask) # (q.before = NoTask)
    /\ q.step = "write" =>
         /\ q.after # NoTask => q.a = rank[q.after]
         /\ q.before # NoTask => q.b = rank[q.before]
         /\ q.after # NoTask /\ q.before = NoTask => NextAbove(q.a, q.b)
         /\ q.after = NoTask /\ q.before # NoTask => NextBelow(q.a, q.b)
    /\ q.step = "renumber" => q.order = [t \in WithRank |-> PlaceOf(t)]

IInv ==
  Typed /\ RankedOK /\ ApartOK /\ \A r \in Slots : HeldOK(busy[r]) /\ ReadOK(busy[r])

-----------------------------------------------------------------------------
\* Numbers.
LEMMA Products ==
  ASSUME NEW U \in Nat, NEW L \in Nat, NEW H \in Nat, NEW p \in 0 .. H
  PROVE  p * U \in -(U * L) .. U * H
<1>1. p * U <= U * H /\ p * U \in Int /\ U * H \in Int
  BY Z3
<1>2. -(U * L) <= p * U /\ U * L \in Int
  BY Z3
<1> QED
  BY <1>1, <1>2

LEMMA FurtherApart ==
  ASSUME NEW U \in Nat, NEW p \in Nat, NEW q \in Nat, p < q
  PROVE  p * U \in Int /\ q * U \in Int /\ q * U - p * U >= U
<1>1. q * U = p * U + (q - p) * U
  BY Z3
<1>2. (q - p) * U >= U
  BY Z3
<1> QED
  BY <1>1, <1>2, Z3

LEMMA Bounds ==
  /\ Unit \in Nat /\ Unit > 0 /\ Threshold \in Nat /\ Threshold > 0 /\ Threshold <= Unit
  /\ Lowest \in Nat /\ Highest \in Nat
  /\ Tasks \subseteq Nat /\ IsFiniteSet(Tasks) /\ Cardinality(Tasks) \in Nat
  /\ Cardinality(Tasks) <= Highest
  /\ NoRank \notin Int /\ NoTask \notin Tasks
  /\ Clients \subseteq [Slots -> SUBSET Ops]
<1>1. Cardinality(Tasks) \in Nat
  BY RanksAssumption, FS_CardinalityType
<1>2. Threshold \in Int /\ 1 <= Threshold /\ Threshold <= Unit /\ Unit \in Nat
  BY RanksAssumption
<1>3. NoTask \notin Tasks
  <2>1. NoTask \notin Int /\ \A t \in Tasks : t \in Int
    BY RanksAssumption
  <2> QED
    BY <2>1
<1> QED
  BY <1>1, <1>2, <1>3, RanksAssumption DEF Ops

LEMMA RanksAreNumbers ==
  /\ Ranks \subseteq Int /\ NoRank \notin Ranks /\ 0 \in Ranks
  /\ \A p \in 0 .. Highest : p * Unit \in Ranks
  /\ \E lo, hi \in Int : \A n \in Ranks : lo <= n /\ n <= hi
<1>1. Unit * Lowest \in Int /\ Unit * Highest \in Int
  BY Bounds, Z3
<1>2. \A p \in 0 .. Highest : p * Unit \in Ranks
  BY Bounds, Products DEF Ranks
<1>3. 0 \in 0 .. Highest /\ 0 * Unit = 0
  BY Bounds
<1>4. \A n \in Ranks : n \in Int /\ -(Unit * Lowest) <= n /\ n <= Unit * Highest
  BY <1>1 DEF Ranks
<1> QED
  BY <1>1, <1>2, <1>3, <1>4, Bounds

\* A set of natural numbers has a least member, and a set of ranks both a least
\* and a greatest one.
LEMMA LeastNatural ==
  ASSUME NEW S, S \subseteq Nat, S # {}
  PROVE  \E m \in S : \A n \in S : m <= n
<1> DEFINE R == {ss \in Nat \X Nat : ss[1] < ss[2]}
<1>1. IsWellFoundedOn(R, Nat)
  BY NatLessThanWellFounded, Zenon DEF OpToRel
<1>2. PICK m \in S : \A n \in S : ~(<<n, m>> \in R)
  <2> HIDE DEF R
  <2> QED
    BY <1>1, WFMin
<1> SUFFICES ASSUME NEW n \in S, n < m PROVE FALSE
  OBVIOUS
<1>3. <<n, m>> \in R
  OBVIOUS
<1> QED
  BY <1>2, <1>3

LEMMA Least ==
  ASSUME NEW lo \in Int, NEW S, S # {}, \A n \in S : n \in Int /\ lo <= n
  PROVE  \E m \in S : \A n \in S : m <= n
<1> DEFINE T == {n - lo : n \in S}
<1>1. T \subseteq Nat /\ T # {}
  OBVIOUS
<1>2. PICK k \in T : \A n \in T : k <= n
  <2> HIDE DEF T
  <2> QED
    BY <1>1, LeastNatural
<1>3. PICK m \in S : k = m - lo
  BY <1>2
<1>4. \A n \in S : n - lo \in T /\ k <= n - lo
  BY <1>2
<1> QED
  BY <1>3, <1>4

LEMMA Greatest ==
  ASSUME NEW hi \in Int, NEW S, S # {}, \A n \in S : n \in Int /\ n <= hi
  PROVE  \E m \in S : \A n \in S : n <= m
<1> DEFINE T == {hi - n : n \in S}
<1>1. T \subseteq Nat /\ T # {}
  OBVIOUS
<1>2. PICK k \in T : \A n \in T : k <= n
  <2> HIDE DEF T
  <2> QED
    BY <1>1, LeastNatural
<1>3. PICK m \in S : k = hi - m
  BY <1>2
<1>4. \A n \in S : hi - n \in T /\ k <= hi - n
  BY <1>2
<1> QED
  BY <1>3, <1>4

LEMMA EndsOfRanks ==
  ASSUME NEW S, S \subseteq Ranks, S # {}
  PROVE  /\ \E m \in S : \A n \in S : m <= n
         /\ \E m \in S : \A n \in S : n <= m
<1>1. PICK lo, hi \in Int : \A n \in Ranks : lo <= n /\ n <= hi
  BY RanksAreNumbers
<1>2. \A n \in S : n \in Int /\ lo <= n /\ n <= hi
  BY <1>1, RanksAreNumbers
<1> QED
  BY <1>2, Least, Greatest

-----------------------------------------------------------------------------
\* The operators on ranks.
LEMMA WithRankOK ==
  ASSUME Typed
  PROVE  /\ WithRank \subseteq top /\ top \subseteq Tasks
         /\ \A t \in WithRank : rank[t] \in Ranks /\ rank[t] \in Int
         /\ \A t \in Tasks : rank[t] \in Ranks \union {NoRank}
BY RanksAreNumbers DEF Typed, WithRank

LEMMA MaxRankOK ==
  ASSUME Typed
  PROVE  MaxRank \in Ranks
<1>1. CASE WithRank = {}
  BY <1>1, RanksAreNumbers DEF MaxRank
<1>2. CASE WithRank # {}
  <2> DEFINE S == {rank[t] : t \in WithRank}
  <2>1. S \subseteq Ranks /\ S # {}
    BY <1>2, WithRankOK
  <2>2. PICK m \in S : \A n \in S : n <= m
    <3> HIDE DEF S
    <3> QED
      BY <2>1, EndsOfRanks
  <2>3. m \in Ranks /\ (\E t \in WithRank : rank[t] = m) /\ \A t \in WithRank : rank[t] <= m
    BY <2>1, <2>2
  <2> QED
    BY <1>2, <2>3 DEF MaxRank
<1> QED
  BY <1>1, <1>2

\* What FindAdjacent finds above a, and below b.
LEMMA ClosestAbove ==
  ASSUME Typed, NEW a \in Ranks
  PROVE  /\ Closest(a, Above(a)) \in Ranks \union {NoRank}
         /\ NextAbove(a, Closest(a, Above(a)))
<1>1. Above(a) \subseteq Ranks /\ \A n \in Above(a) : n > a /\ n \in Int
  BY RanksAreNumbers DEF Above
<1>2. \A t \in WithRank : rank[t] > a => rank[t] \in Above(a)
  BY WithRankOK DEF Above
<1>3. CASE Above(a) = {}
  BY <1>2, <1>3 DEF Closest, NextAbove
<1>4. CASE Above(a) # {}
  <2>1. PICK m \in Above(a) : \A n \in Above(a) : m <= n
    BY <1>1, <1>4, EndsOfRanks
  <2>2. a \in Int
    BY RanksAreNumbers
  <2>3. \A n \in Above(a) : (m < a => n <= m) /\ (m > a => n >= m)
    BY <1>1, <2>1, <2>2
  <2> DEFINE c == Closest(a, Above(a))
  <2>4. /\ c \in Above(a)
        /\ \A n \in Above(a) : (c < a => n <= c) /\ (c > a => n >= c)
    BY <1>4, <2>3 DEF Closest
  <2> HIDE DEF c
  <2>5. c > a /\ c \in Ranks /\ c # NoRank /\ \A n \in Above(a) : c <= n
    BY <1>1, <2>2, <2>4, RanksAreNumbers
  <2>6. NextAbove(a, c)
    BY <1>2, <2>5 DEF NextAbove
  <2> QED
    BY <2>5, <2>6 DEF c
<1> QED
  BY <1>3, <1>4

LEMMA ClosestBelow ==
  ASSUME Typed, NEW b \in Ranks
  PROVE  /\ Closest(b, Below(b)) \in Ranks \union {NoRank}
         /\ NextBelow(Closest(b, Below(b)), b)
<1>1. Below(b) \subseteq Ranks /\ \A n \in Below(b) : n < b /\ n \in Int
  BY RanksAreNumbers DEF Below
<1>2. \A t \in WithRank : rank[t] < b => rank[t] \in Below(b)
  BY WithRankOK DEF Below
<1>3. CASE Below(b) = {}
  BY <1>2, <1>3 DEF Closest, NextBelow
<1>4. CASE Below(b) # {}
  <2>1. PICK m \in Below(b) : \A n \in Below(b) : n <= m
    BY <1>1, <1>4, EndsOfRanks
  <2>2. b \in Int
    BY RanksAreNumbers
  <2>3. \A n \in Below(b) : (m < b => n <= m) /\ (m > b => n >= m)
    BY <1>1, <2>1, <2>2
  <2> DEFINE c == Closest(b, Below(b))
  <2>4. /\ c \in Below(b)
        /\ \A n \in Below(b) : (c < b => n <= c) /\ (c > b => n >= c)
    BY <1>4, <2>3 DEF Closest
  <2> HIDE DEF c
  <2>5. c < b /\ c \in Ranks /\ c # NoRank /\ \A n \in Below(b) : c >= n
    BY <1>1, <2>2, <2>4, RanksAreNumbers
  <2>6. NextBelow(c, b)
    BY <1>2, <2>5 DEF NextBelow
  <2> QED
    BY <2>5, <2>6 DEF c
<1> QED
  BY <1>3, <1>4

\* A place is one more than the number of tasks before it: at most as many as
\* there are tasks, and further on for a task further on.
LEMMA PlaceBounds ==
  ASSUME Typed, NEW t \in WithRank
  PROVE  PlaceOf(t) \in 1 .. Highest
<1> DEFINE S == {s \in WithRank : Before(s, t)}
<1>1. S \subseteq Tasks \ {t} /\ t \in Tasks
  <2>1. rank[t] \in Int /\ t \in Nat
    BY WithRankOK, Bounds
  <2>2. ~Before(t, t)
    BY <2>1 DEF Before, Precedes
  <2> QED
    BY <2>2, WithRankOK
<1> HIDE DEF S
<1>2. IsFiniteSet(Tasks \ {t}) /\ Cardinality(Tasks \ {t}) = Cardinality(Tasks) - 1
  BY <1>1, Bounds, FS_RemoveElement
<1>3. IsFiniteSet(S) /\ Cardinality(S) <= Cardinality(Tasks) - 1
  BY <1>1, <1>2, FS_Subset
<1>4. Cardinality(S) \in Nat
  BY <1>3, FS_CardinalityType
<1> QED
  BY <1>3, <1>4, Bounds DEF PlaceOf, S

LEMMA PlaceOrder ==
  ASSUME Typed, NEW s \in WithRank, NEW t \in WithRank, Before(s, t)
  PROVE  PlaceOf(s) < PlaceOf(t)
<1> DEFINE P == {u \in WithRank : Before(u, s)}
           Q == {u \in WithRank : Before(u, t)}
<1>1. \A u \in WithRank : rank[u] \in Int /\ u \in Nat /\ u \in Tasks
  BY WithRankOK, Bounds
<1>2. P \subseteq Q /\ s \in Q /\ s \notin P
  BY <1>1 DEF Before, Precedes
<1>3. Q \subseteq Tasks
  BY <1>1
<1> HIDE DEF P, Q
<1>4. IsFiniteSet(Q) /\ IsFiniteSet(P)
  BY <1>2, <1>3, Bounds, FS_Subset
<1>5. Cardinality(P \union {s}) = Cardinality(P) + 1 /\ IsFiniteSet(P \union {s})
  BY <1>2, <1>4, FS_AddElement
<1>6. Cardinality(P \union {s}) <= Cardinality(Q)
  BY <1>2, <1>4, FS_Subset
<1>7. Cardinality(P) \in Nat /\ Cardinality(Q) \in Nat
  BY <1>4, FS_CardinalityType
<1> QED
  BY <1>5, <1>6, <1>7 DEF PlaceOf, P, Q

-----------------------------------------------------------------------------
LEMMA FreeOK ==
  /\ Free \in SlotType /\ Free.step = "idle" /\ Free.who = {} /\ Free.order = <<>>
  /\ Free.base = 0 /\ Free.clean /\ Free.a = NoRank /\ Free.b = NoRank
  /\ \A S : DOMAIN Free.order \subseteq S
<1>1. <<>> \in [{} -> 1 .. Highest] /\ DOMAIN <<>> = {}
  OBVIOUS
<1>2. [{} -> 1 .. Highest] \subseteq Orders
  BY DEF Orders
<1>3. <<>> \in Orders
  BY <1>1, <1>2
<1> QED
  BY <1>1, <1>3, RanksAreNumbers DEF Free, SlotType, Steps, Ops

LEMMA FreeHolds ==
  ASSUME NEW q \in SlotType, q.step = "idle", DOMAIN q.order \subseteq top
  PROVE  HeldOK(q) /\ ReadOK(q)
BY DEF HeldOK, ReadOK, Seeding, Seeded

LEMMA InitIInv == Init => IInv
<1> SUFFICES ASSUME Init PROVE IInv
  OBVIOUS
<1>1. /\ top \in SUBSET Early /\ rank = [t \in Tasks |-> NoRank]
      /\ busy = [r \in Slots |-> Free] /\ asked \in Clients
  BY DEF Init
<1>2. \A r \in Slots : busy[r] = Free
  BY <1>1
<1>3. Typed
  BY <1>1, FreeOK, Bounds, RanksAssumption DEF Typed
<1>4. RankedOK
  BY <1>1, RanksAssumption DEF RankedOK
<1>5. ApartOK
  BY <1>2, FreeOK DEF ApartOK
<1>6. HeldOK(Free) /\ ReadOK(Free)
  BY FreeOK, FreeHolds
<1> QED
  BY <1>2, <1>3, <1>4, <1>5, <1>6 DEF IInv

\* A query of a request, which changes nothing but what the request holds.
LEMMA GoingKeepsIInv ==
  ASSUME IInv, NEW r \in Slots, NEW x \in SlotType, GoTo(r, x), asked' = asked,
         HeldOK(x), ReadOK(x),
         x.step = "rows" => \A q \in Slots \ {r} : busy[q].step = "rows"
                                                   => x.who \intersect busy[q].who = {}
  PROVE  IInv'
<1>1. top' = top /\ rank' = rank /\ busy' = [busy EXCEPT ![r] = x]
  BY DEF GoTo
<1>2. WithRank' = WithRank /\ \A q : HeldOK(q)' = HeldOK(q)
  BY <1>1 DEF WithRank, HeldOK
<1>2a. \A t : PlaceOf(t)' = PlaceOf(t)
  BY <1>1, <1>2 DEF PlaceOf, Before, Precedes
<1>3. busy'[r] = x /\ \A q \in Slots \ {r} : busy'[q] = busy[q]
  BY <1>1 DEF IInv, Typed
<1>4. Typed'
  BY <1>1 DEF IInv, Typed
<1>5. RankedOK'
  BY <1>1 DEF IInv, RankedOK
<1>6. ApartOK'
  BY <1>3 DEF IInv, ApartOK
<1>7. \A q \in SlotType : ReadOK(q) => ReadOK(q)'
  BY <1>1, <1>2, <1>2a DEF ReadOK, NextAbove, NextBelow, RankOf
<1>8. \A q \in Slots : HeldOK(busy[q])' /\ ReadOK(busy[q])'
  <2> TAKE q \in Slots
  <2>1. PICK y \in SlotType : y = busy'[q] /\ HeldOK(y) /\ ReadOK(y)
    BY <1>3 DEF IInv, Typed
  <2>2. HeldOK(y)' /\ ReadOK(y)'
    BY <2>1, <1>2, <1>7
  <2> QED
    BY <2>1, <2>2
<1> QED
  BY <1>4, <1>5, <1>6, <1>8 DEF IInv

\* A request that somebody else's write of ranks has overtaken.
Stale(q) == [q EXCEPT !.clean = FALSE]

LEMMA StaleOK ==
  ASSUME NEW q \in SlotType
  PROVE  /\ Stale(q) \in SlotType /\ ~Stale(q).clean
         /\ Stale(q).step = q.step /\ Stale(q).who = q.who /\ Stale(q).task = q.task
         /\ Stale(q).after = q.after /\ Stale(q).before = q.before /\ Stale(q).order = q.order
         /\ Stale(q).a = q.a /\ Stale(q).b = q.b
BY DEF Stale, SlotType

\* A write of ranks, of tasks in the scope or now created: there are no fewer
\* tasks and no fewer of them have ranks.  The others who are under way find
\* what they hold to be true still, and know that ranks were written.
LEMMA WritingKeepsIInv ==
  ASSUME IInv, NEW r \in Slots, NEW x \in SlotType, Wrote(r, x), asked' = asked,
         top' \subseteq Tasks, top \subseteq top', rank' \in [Tasks -> Ranks \union {NoRank}],
         \A t \in top : rank[t] # NoRank => rank'[t] # NoRank,
         \A t \in top' \ top : rank'[t] # NoRank,
         \A t \in Tasks \ top' : rank'[t] = NoRank,
         \A q \in Slots \ {r} : busy[q].step = "rows" => busy[q].who \intersect top' = {},
         x.step # "rows", HeldOK(x)', ReadOK(x)'
  PROVE  IInv'
<1>1. \A q \in Slots : busy[q] \in SlotType /\ HeldOK(busy[q])
  BY DEF IInv, Typed
<1>2. /\ busy'[r] = x
      /\ \A q \in Slots \ {r} : \/ busy[q].step = "idle" /\ busy'[q] = Free
                                \/ busy[q].step # "idle" /\ busy'[q] = Stale(busy[q])
  BY DEF Wrote, Stale
<1>4. Typed'
  <2>1. busy' = [q \in Slots |-> busy'[q]]
    BY DEF Wrote
  <2>2. \A q \in Slots : busy'[q] \in SlotType
    BY <1>1, <1>2, StaleOK, FreeOK
  <2>3. busy' \in [Slots -> SlotType]
    BY <2>1, <2>2
  <2> QED
    BY <2>3 DEF IInv, Typed
<1>5. RankedOK'
  BY DEF IInv, RankedOK, Typed
<1>6. \A q \in Slots \ {r} : busy'[q].step = "rows" => busy[q].step = "rows" /\ busy'[q].who = busy[q].who
  BY <1>1, <1>2, StaleOK, FreeOK
<1>7. ApartOK'
  BY <1>2, <1>6 DEF IInv, ApartOK
<1>8. top' \ WithRank' \subseteq top \ WithRank /\ WithRank' \subseteq top'
  BY DEF WithRank
<1>9. WithRank \subseteq top
  BY DEF WithRank
<1>10. ASSUME NEW q \in Slots \ {r} PROVE (HeldOK(busy[q]) /\ ReadOK(busy[q]))'
  <2>1. CASE busy'[q] = Free
    <3>1. HeldOK(Free)' /\ ReadOK(Free)'
      BY FreeOK DEF HeldOK, ReadOK, Seeding, Seeded
    <3> QED
      BY <2>1, <3>1
  <2>2. CASE busy'[q] = Stale(busy[q])
    <3>1. PICK y \in SlotType : y = busy'[q]
      BY <1>1, StaleOK, <2>2
    <3>2. /\ ~y.clean
          /\ y.step = busy[q].step /\ y.who = busy[q].who /\ y.task = busy[q].task
          /\ y.after = busy[q].after /\ y.before = busy[q].before /\ y.order = busy[q].order
          /\ y.a = busy[q].a /\ y.b = busy[q].b
      BY <1>1, StaleOK, <2>2, <3>1
    <3>3. HeldOK(busy[q])
      BY <1>1
    <3>4. y.step = "rows" => y.who \intersect top' = {}
      BY <3>2
    <3>5. HeldOK(y)'
      <4>1. y.step \in Seeding => top' \ WithRank' \subseteq y.who
        BY <1>8, <3>2, <3>3 DEF HeldOK
      <4>2. y.step \in Seeded => top' = WithRank'
        <5>1. y.step \in Seeded => top = WithRank
          BY <3>2, <3>3 DEF HeldOK
        <5>2. top = WithRank => top' = WithRank'
          BY <1>8
        <5> QED
          BY <5>1, <5>2
      <4>3. y.step \notin {"idle", "rows"} =>
              /\ y.who \subseteq top' /\ y.task \in top'
              /\ y.after \in top' \union {NoTask} /\ y.before \in top' \union {NoTask}
              /\ y.task # y.after /\ y.task # y.before
        BY <3>2, <3>3 DEF HeldOK
      <4>4. y.step = "adjacent" => (y.a = NoRank) # (y.b = NoRank)
        BY <3>2, <3>3 DEF HeldOK
      <4>5. DOMAIN y.order \subseteq top'
        BY <3>2, <3>3 DEF HeldOK
      <4> QED
        BY <3>4, <4>1, <4>2, <4>3, <4>4, <4>5 DEF HeldOK
    <3>6. ReadOK(y)'
      BY <3>2 DEF ReadOK
    <3> QED
      BY <3>1, <3>5, <3>6
  <2> QED
    BY <1>2, <2>1, <2>2
<1>11. (HeldOK(busy[r]) /\ ReadOK(busy[r]))'
  BY <1>2
<1>12. \A q \in Slots : (HeldOK(busy[q]) /\ ReadOK(busy[q]))'
  BY <1>10, <1>11
<1> QED
  BY <1>4, <1>5, <1>7, <1>12 DEF IInv

-----------------------------------------------------------------------------
LEMMA AskCreateKeepsIInv ==
  ASSUME IInv, NEW r \in Slots, AskCreate(r), asked' = asked
  PROVE  IInv'
<1>1. PICK op \in asked[r] \ {"reorder"}, who \in SUBSET (Tasks \ top) \ {{}} :
        /\ \A q \in Slots : busy[q].step # "idle" => who \intersect busy[q].who = {}
        /\ GoTo(r, [Free EXCEPT !.step = "rows", !.op = op, !.who = who, !.base = MaxRank])
  BY DEF AskCreate
<1>2. op \in Ops /\ who \subseteq Tasks /\ MaxRank \in Ranks
  BY <1>1, MaxRankOK DEF IInv, Typed
<1>3. PICK x : x = [Free EXCEPT !.step = "rows", !.op = op, !.who = who, !.base = MaxRank]
  OBVIOUS
<1>4. x \in SlotType /\ x.step = "rows" /\ x.who = who /\ x.order = Free.order
  BY <1>2, <1>3, FreeOK DEF SlotType, Steps
<1>5. HeldOK(x) /\ ReadOK(x)
  BY <1>1, <1>4, FreeOK DEF HeldOK, ReadOK, Seeding, Seeded
<1>6. \A q \in Slots \ {r} : busy[q].step = "rows" => x.who \intersect busy[q].who = {}
  BY <1>1, <1>4
<1>7. GoTo(r, x)
  BY <1>1, <1>3
<1> QED
  BY <1>4, <1>5, <1>6, <1>7, GoingKeepsIInv

LEMMA AskReorderKeepsIInv ==
  ASSUME IInv, NEW r \in Slots, AskReorder(r), asked' = asked
  PROVE  IInv'
<1>1. PICK t \in top, a \in top \union {NoTask}, b \in top \union {NoTask} :
        /\ t \notin {a, b}
        /\ GoTo(r, [Free EXCEPT !.step = "unranked", !.task = t, !.after = a, !.before = b])
  BY DEF AskReorder
<1>2. top \subseteq Tasks
  BY DEF IInv, Typed
<1>3. PICK x : x = [Free EXCEPT !.step = "unranked", !.task = t, !.after = a, !.before = b]
  OBVIOUS
<1>4. /\ x \in SlotType /\ x.step = "unranked" /\ x.who = {} /\ x.order = Free.order
      /\ x.task = t /\ x.after = a /\ x.before = b
  BY <1>1, <1>2, <1>3, FreeOK DEF SlotType, Steps
<1>5. HeldOK(x) /\ ReadOK(x)
  BY <1>1, <1>4, FreeOK DEF HeldOK, ReadOK, Seeding, Seeded
<1>6. GoTo(r, x)
  BY <1>1, <1>3
<1> QED
  BY <1>4, <1>5, <1>6, GoingKeepsIInv

LEMMA FindUnrankedKeepsIInv ==
  ASSUME IInv, NEW r \in Slots, FindUnranked(r), asked' = asked
  PROVE  IInv'
<1> DEFINE none == top \ WithRank
<1>1. /\ busy[r].step = "unranked" /\ busy[r] \in SlotType /\ HeldOK(busy[r])
      /\ GoTo(r, [busy[r] EXCEPT !.who = none,
                                 !.step = IF none = {} THEN "neighbours" ELSE "max"])
  BY DEF FindUnranked, Doing, IInv, Typed
<1>2. top \subseteq Tasks /\ WithRank \subseteq top
  BY WithRankOK DEF IInv
<1>3. PICK x : x = [busy[r] EXCEPT !.who = none,
                                   !.step = IF none = {} THEN "neighbours" ELSE "max"]
  OBVIOUS
<1> HIDE DEF none
<1>4. /\ x \in SlotType /\ x.step = (IF none = {} THEN "neighbours" ELSE "max") /\ x.who = none
      /\ x.order = busy[r].order /\ x.task = busy[r].task /\ x.after = busy[r].after
      /\ x.before = busy[r].before
  BY <1>1, <1>2, <1>3 DEF SlotType, Steps, none
<1>5. HeldOK(x)
  BY <1>1, <1>2, <1>4 DEF HeldOK, Seeding, Seeded, none
<1>6. ReadOK(x)
  BY <1>4 DEF ReadOK
<1>7. GoTo(r, x)
  BY <1>1, <1>3
<1> QED
  BY <1>4, <1>5, <1>6, <1>7, GoingKeepsIInv

LEMMA FindMaxKeepsIInv ==
  ASSUME IInv, NEW r \in Slots, FindMax(r), asked' = asked
  PROVE  IInv'
<1>1. /\ busy[r].step = "max" /\ busy[r] \in SlotType /\ HeldOK(busy[r])
      /\ GoTo(r, [busy[r] EXCEPT !.base = MaxRank, !.step = "seed"])
  BY DEF FindMax, Doing, IInv, Typed
<1>2. MaxRank \in Ranks
  BY MaxRankOK DEF IInv
<1>3. PICK x : x = [busy[r] EXCEPT !.base = MaxRank, !.step = "seed"]
  OBVIOUS
<1>4. /\ x \in SlotType /\ x.step = "seed" /\ x.who = busy[r].who
      /\ x.order = busy[r].order /\ x.task = busy[r].task /\ x.after = busy[r].after
      /\ x.before = busy[r].before
  BY <1>1, <1>2, <1>3 DEF SlotType, Steps
<1>5. HeldOK(x)
  BY <1>1, <1>4 DEF HeldOK, Seeding, Seeded
<1>6. ReadOK(x)
  BY <1>4 DEF ReadOK
<1>7. GoTo(r, x)
  BY <1>1, <1>3
<1> QED
  BY <1>4, <1>5, <1>6, <1>7, GoingKeepsIInv

LEMMA FindNeighboursKeepsIInv ==
  ASSUME IInv, NEW r \in Slots, FindNeighbours(r), asked' = asked
  PROVE  IInv'
<1> DEFINE a == RankOf(busy[r].after)
           b == RankOf(busy[r].before)
           next == IF (a = NoRank) # (b = NoRank) THEN "adjacent" ELSE "write"
<1>1. /\ busy[r].step = "neighbours" /\ busy[r] \in SlotType /\ HeldOK(busy[r])
      /\ GoTo(r, [busy[r] EXCEPT !.a = a, !.b = b, !.step = next])
  BY DEF FindNeighbours, Doing, IInv, Typed
<1>2. /\ top = WithRank /\ top \subseteq Tasks
      /\ busy[r].after \in top \union {NoTask} /\ busy[r].before \in top \union {NoTask}
  BY <1>1, WithRankOK DEF HeldOK, Seeded, IInv
<1>3. /\ a \in Ranks \union {NoRank} /\ b \in Ranks \union {NoRank}
      /\ (a = NoRank) <=> (busy[r].after = NoTask)
      /\ (b = NoRank) <=> (busy[r].before = NoTask)
      /\ busy[r].after # NoTask => a = rank[busy[r].after]
      /\ busy[r].before # NoTask => b = rank[busy[r].before]
  BY <1>2, WithRankOK, RanksAreNumbers, Bounds DEF RankOf, IInv
<1>4. PICK x : x = [busy[r] EXCEPT !.a = a, !.b = b, !.step = next]
  OBVIOUS
<1> HIDE DEF a, b
<1>5. /\ x \in SlotType /\ x.step = next /\ x.who = busy[r].who /\ x.a = a /\ x.b = b
      /\ x.order = busy[r].order /\ x.task = busy[r].task /\ x.after = busy[r].after
      /\ x.before = busy[r].before
  BY ZenonT(30), <1>1, <1>3, <1>4 DEF SlotType, Steps
<1>6. HeldOK(x)
  BY <1>1, <1>5 DEF HeldOK, Seeding, Seeded
<1>7. ReadOK(x)
  <2>1. x.step = "adjacent" =>
          /\ x.a = RankOf(x.after) /\ x.b = RankOf(x.before)
          /\ (x.after = NoTask) # (x.before = NoTask)
    BY <1>3, <1>5 DEF a, b
  <2>2. x.step = "write" =>
          /\ x.after # NoTask => x.a = rank[x.after]
          /\ x.before # NoTask => x.b = rank[x.before]
          /\ (x.after = NoTask) <=> (x.before = NoTask)
    BY <1>3, <1>5
  <2> QED
    BY <1>5, <2>1, <2>2 DEF ReadOK
<1>8. GoTo(r, x)
  BY <1>1, <1>4
<1> QED
  BY <1>5, <1>6, <1>7, <1>8, GoingKeepsIInv

LEMMA FindAdjacentKeepsIInv ==
  ASSUME IInv, NEW r \in Slots, FindAdjacent(r), asked' = asked
  PROVE  IInv'
<1> DEFINE q == busy[r]
           a == IF q.a = NoRank THEN Closest(q.b, Below(q.b)) ELSE q.a
           b == IF q.b = NoRank THEN Closest(q.a, Above(q.a)) ELSE q.b
<1>1. /\ q.step = "adjacent" /\ q \in SlotType /\ HeldOK(q) /\ ReadOK(q)
      /\ GoTo(r, [q EXCEPT !.step = "write", !.a = a, !.b = b])
  BY DEF FindAdjacent, Doing, IInv, Typed
<1>2. Typed
  BY DEF IInv
<1>3. (q.a = NoRank) # (q.b = NoRank) /\ q.a \in Ranks \union {NoRank} /\ q.b \in Ranks \union {NoRank}
  BY <1>1 DEF HeldOK, SlotType
<1>4. /\ a \in Ranks \union {NoRank} /\ b \in Ranks \union {NoRank}
      /\ q.a # NoRank => a = q.a /\ NextAbove(a, b)
      /\ q.b # NoRank => b = q.b /\ NextBelow(a, b)
  <2>1. CASE q.a # NoRank
    <3>1. q.a \in Ranks /\ q.b = NoRank /\ a = q.a /\ b = Closest(q.a, Above(q.a))
      BY <1>3, <2>1
    <3>2. b \in Ranks \union {NoRank} /\ NextAbove(q.a, b)
      BY <1>2, <3>1, ClosestAbove
    <3> QED
      BY <1>3, <2>1, <3>1, <3>2
  <2>2. CASE q.b # NoRank
    <3>1. q.b \in Ranks /\ q.a = NoRank /\ b = q.b /\ a = Closest(q.b, Below(q.b))
      BY <1>3, <2>2
    <3>2. a \in Ranks \union {NoRank} /\ NextBelow(a, q.b)
      BY <1>2, <3>1, ClosestBelow
    <3> QED
      BY <1>3, <2>2, <3>1, <3>2
  <2> QED
    BY <1>3, <2>1, <2>2
<1>5. PICK x : x = [q EXCEPT !.step = "write", !.a = a, !.b = b]
  OBVIOUS
<1> HIDE DEF a, b
<1>6. /\ x \in SlotType /\ x.step = "write" /\ x.who = q.who /\ x.a = a /\ x.b = b
      /\ x.order = q.order /\ x.task = q.task /\ x.after = q.after
      /\ x.before = q.before /\ x.clean = q.clean
  BY <1>1, <1>4, <1>5 DEF SlotType, Steps
<1>7. HeldOK(x)
  BY <1>1, <1>6 DEF HeldOK, Seeding, Seeded
<1>8. ReadOK(x)
  <2> SUFFICES ASSUME q.clean
               PROVE  /\ x.after # NoTask => x.a = rank[x.after]
                      /\ x.before # NoTask => x.b = rank[x.before]
                      /\ x.after # NoTask /\ x.before = NoTask => NextAbove(x.a, x.b)
                      /\ x.after = NoTask /\ x.before # NoTask => NextBelow(x.a, x.b)
    BY <1>6 DEF ReadOK
  <2>1. /\ q.a = RankOf(q.after) /\ q.b = RankOf(q.before)
        /\ (q.after = NoTask) # (q.before = NoTask)
    BY <1>1 DEF ReadOK
  <2>2. /\ top = WithRank
        /\ q.after \in top \union {NoTask} /\ q.before \in top \union {NoTask}
    BY <1>1 DEF HeldOK, Seeded
  <2>3. CASE q.after # NoTask
    <3>1. q.before = NoTask /\ q.a = rank[q.after] /\ q.after \in WithRank
      BY <2>1, <2>2, <2>3 DEF RankOf
    <3>2. q.a # NoRank
      BY <3>1 DEF WithRank
    <3> QED
      BY <1>4, <1>6, <2>3, <3>1, <3>2
  <2>4. CASE q.before # NoTask
    <3>1. q.after = NoTask /\ q.b = rank[q.before] /\ q.before \in WithRank
      BY <2>1, <2>2, <2>4 DEF RankOf
    <3>2. q.b # NoRank
      BY <3>1 DEF WithRank
    <3> QED
      BY <1>4, <1>6, <2>4, <3>1, <3>2
  <2> QED
    BY <2>1, <2>3, <2>4
<1>9. GoTo(r, x)
  BY <1>1, <1>5 DEF a, b
<1> QED
  BY <1>6, <1>7, <1>8, <1>9, GoingKeepsIInv

LEMMA ReadOrderKeepsIInv ==
  ASSUME IInv, NEW r \in Slots, ReadOrder(r), asked' = asked
  PROVE  IInv'
<1> DEFINE places == [t \in WithRank |-> PlaceOf(t)]
<1>1. /\ busy[r].step = "order" /\ busy[r] \in SlotType /\ HeldOK(busy[r])
      /\ GoTo(r, [busy[r] EXCEPT !.step = "renumber", !.order = places])
  BY DEF ReadOrder, Doing, IInv, Typed, PlaceOf
<1>2. WithRank \subseteq top /\ WithRank \subseteq Tasks
  BY WithRankOK DEF IInv
<1>3. places \in Orders /\ DOMAIN places = WithRank
  <2>1. \A t \in WithRank : PlaceOf(t) \in 1 .. Highest
    BY PlaceBounds DEF IInv
  <2>2. places \in [WithRank -> 1 .. Highest]
    BY <2>1
  <2> QED
    BY <1>2, <2>2 DEF Orders
<1>4. PICK x : x = [busy[r] EXCEPT !.step = "renumber", !.order = places]
  OBVIOUS
<1> HIDE DEF places
<1>5. /\ x \in SlotType /\ x.step = "renumber" /\ x.who = busy[r].who /\ x.order = places
      /\ x.task = busy[r].task /\ x.after = busy[r].after /\ x.before = busy[r].before
  BY <1>1, <1>3, <1>4 DEF SlotType, Steps
<1>6. HeldOK(x)
  BY <1>1, <1>2, <1>3, <1>5 DEF HeldOK, Seeding, Seeded
<1>7. ReadOK(x)
  BY <1>5 DEF ReadOK, places
<1>8. GoTo(r, x)
  BY <1>1, <1>4
<1> QED
  BY <1>5, <1>6, <1>7, <1>8, GoingKeepsIInv

LEMMA CreateKeepsIInv ==
  ASSUME IInv, NEW r \in Slots, Create(r), asked' = asked
  PROVE  IInv'
<1> DEFINE who == busy[r].who
<1>1. /\ busy[r].step = "rows" /\ who \subseteq Tasks /\ who \intersect top = {}
      /\ top' = top \union who /\ Wrote(r, Free)
  BY DEF Create, Doing, IInv, Typed, SlotType, HeldOK
<1>2. PICK f : /\ \A t \in who : busy[r].base + f[t] * Unit \in Ranks
               /\ rank' = [t \in Tasks |-> IF t \in who THEN busy[r].base + f[t] * Unit ELSE rank[t]]
  BY DEF Create
<1> HIDE DEF who
<1>3. \A t \in Tasks : rank'[t] = IF t \in who THEN busy[r].base + f[t] * Unit ELSE rank[t]
  BY <1>2
<1>4. \A t \in who : rank'[t] \in Ranks
  BY <1>1, <1>2, <1>3
<1>5. \A t \in Tasks \ who : rank'[t] = rank[t]
  BY <1>3
<1>6. rank' \in [Tasks -> Ranks \union {NoRank}]
  <2>1. rank' = [t \in Tasks |-> rank'[t]]
    BY <1>2
  <2>2. \A t \in Tasks : rank'[t] \in Ranks \union {NoRank}
    BY <1>4, <1>5 DEF IInv, Typed
  <2> QED
    BY <2>1, <2>2
<1>7. /\ top' \subseteq Tasks /\ top \subseteq top'
      /\ \A t \in top : rank[t] # NoRank => rank'[t] # NoRank
      /\ \A t \in top' \ top : rank'[t] # NoRank
      /\ \A t \in Tasks \ top' : rank'[t] = NoRank
  BY <1>1, <1>4, <1>5, RanksAreNumbers DEF IInv, Typed, RankedOK
<1>8. \A q \in Slots \ {r} : busy[q].step = "rows" => busy[q].who \intersect top' = {}
  BY <1>1 DEF IInv, ApartOK, HeldOK, who
<1>9. Free \in SlotType /\ Free.step # "rows" /\ HeldOK(Free)' /\ ReadOK(Free)'
  BY FreeOK DEF HeldOK, ReadOK, Seeding, Seeded
<1> QED
  BY <1>1, <1>6, <1>7, <1>8, <1>9, WritingKeepsIInv

\* A write of tasks that are there.
LEMMA Rewriting ==
  ASSUME IInv, NEW r \in Slots, NEW x \in SlotType, Wrote(r, x), asked' = asked, top' = top,
         rank' \in [Tasks -> Ranks \union {NoRank}],
         \A t \in Tasks : rank'[t] = rank[t] \/ (t \in top /\ rank'[t] # NoRank),
         x.step # "rows", HeldOK(x)', ReadOK(x)'
  PROVE  IInv'
<1>1. /\ top' \subseteq Tasks /\ top \subseteq top'
      /\ \A t \in top : rank[t] # NoRank => rank'[t] # NoRank
      /\ \A t \in top' \ top : rank'[t] # NoRank
      /\ \A t \in Tasks \ top' : rank'[t] = NoRank
  BY DEF IInv, Typed, RankedOK
<1>2. \A q \in Slots \ {r} : busy[q].step = "rows" => busy[q].who \intersect top' = {}
  BY DEF IInv, HeldOK
<1> QED
  BY <1>1, <1>2, WritingKeepsIInv

LEMMA SeedKeepsIInv ==
  ASSUME IInv, NEW r \in Slots, Seed(r), asked' = asked
  PROVE  IInv'
<1> DEFINE who == busy[r].who
<1>1. /\ busy[r].step = "seed" /\ busy[r] \in SlotType /\ HeldOK(busy[r]) /\ top' = top
      /\ Wrote(r, [busy[r] EXCEPT !.who = {}, !.base = 0, !.step = "neighbours"])
  BY DEF Seed, Doing, IInv, Typed
<1>2. who \subseteq top /\ top \subseteq Tasks /\ top \ WithRank \subseteq who
  BY <1>1 DEF HeldOK, Seeding, IInv, Typed
<1>3. PICK f : /\ \A t \in who : busy[r].base + f[t] * Unit \in Ranks
               /\ rank' = [t \in Tasks |-> IF t \in who /\ rank[t] = NoRank
                                             THEN busy[r].base + f[t] * Unit ELSE rank[t]]
  BY DEF Seed
<1> HIDE DEF who
<1>4. \A t \in Tasks : rank'[t] = IF t \in who /\ rank[t] = NoRank
                                   THEN busy[r].base + f[t] * Unit ELSE rank[t]
  BY <1>3
<1>5. \A t \in who : rank'[t] \in Ranks /\ rank'[t] # NoRank
  BY <1>2, <1>3, <1>4, RanksAreNumbers DEF IInv, Typed
<1>6. \A t \in Tasks \ who : rank'[t] = rank[t]
  BY <1>4
<1>7. rank' \in [Tasks -> Ranks \union {NoRank}]
  <2>1. rank' = [t \in Tasks |-> rank'[t]]
    BY <1>3
  <2>2. \A t \in Tasks : rank'[t] \in Ranks \union {NoRank}
    BY <1>5, <1>6 DEF IInv, Typed
  <2> QED
    BY <2>1, <2>2
<1>8. top' = WithRank'
  BY <1>1, <1>2, <1>5, <1>6 DEF WithRank
<1>9. PICK x : x = [busy[r] EXCEPT !.who = {}, !.base = 0, !.step = "neighbours"]
  OBVIOUS
<1>10. /\ x \in SlotType /\ x.step = "neighbours" /\ x.who = {}
       /\ x.order = busy[r].order /\ x.task = busy[r].task /\ x.after = busy[r].after
       /\ x.before = busy[r].before
  BY <1>1, <1>9, RanksAreNumbers DEF SlotType, Steps
<1>11. HeldOK(x)'
  BY <1>1, <1>8, <1>10 DEF HeldOK, Seeding, Seeded
<1>12. ReadOK(x)'
  BY <1>10 DEF ReadOK
<1>13. \A t \in Tasks : rank'[t] = rank[t] \/ (t \in top /\ rank'[t] # NoRank)
  BY <1>2, <1>5, <1>6
<1>14. Wrote(r, x)
  BY <1>1, <1>9
<1> QED
  BY <1>1, <1>7, <1>10, <1>11, <1>12, <1>13, <1>14, Rewriting

\* The rank that a task is written with is a number.
LEMMA ComputedRank ==
  ASSUME NEW a \in Ranks \union {NoRank}, NEW b \in Ranks \union {NoRank}
  PROVE  computeRank(a, b) \in Int
BY RanksAreNumbers, Bounds DEF computeRank

LEMMA WriteKeepsIInv ==
  ASSUME IInv, NEW r \in Slots, Write(r), asked' = asked
  PROVE  IInv'
<1> DEFINE q == busy[r]
           rk == computeRank(q.a, q.b)
           next == [q EXCEPT !.step = "order", !.a = NoRank, !.b = NoRank]
<1>1. /\ q.step = "write" /\ q \in SlotType /\ HeldOK(q) /\ top' = top
      /\ rk # NoRank => rk \in Ranks
      /\ rank' = [rank EXCEPT ![q.task] = rk]
      /\ Wrote(r, IF needsRebalance(q.a, q.b, rk) THEN next ELSE Free)
  BY DEF Write, Doing, IInv, Typed
<1>2. rk \in Int
  BY <1>1, ComputedRank DEF SlotType
<1>3. rk \in Ranks /\ rk # NoRank
  BY <1>1, <1>2, Bounds
<1>4. q.task \in top /\ top = WithRank /\ top \subseteq Tasks
  BY <1>1 DEF HeldOK, Seeded, IInv, Typed
<1> HIDE DEF rk
<1>5. rank' \in [Tasks -> Ranks \union {NoRank}]
  BY <1>1, <1>3, <1>4 DEF IInv, Typed
<1>6. \A t \in Tasks : rank'[t] = rank[t] \/ (t \in top /\ rank'[t] # NoRank)
  BY <1>1, <1>3, <1>4 DEF IInv, Typed
<1>7. top' = WithRank'
  BY <1>1, <1>3, <1>4, <1>6 DEF WithRank
<1>8. PICK x : x = IF needsRebalance(q.a, q.b, rk) THEN next ELSE Free
  OBVIOUS
<1>9. CASE x = next
  <2>1. /\ x \in SlotType /\ x.step = "order" /\ x.who = q.who
        /\ x.order = q.order /\ x.task = q.task /\ x.after = q.after /\ x.before = q.before
    BY <1>1, <1>9 DEF SlotType, Steps
  <2>2. HeldOK(x)'
    BY <1>1, <1>7, <2>1 DEF HeldOK, Seeding, Seeded
  <2>3. ReadOK(x)'
    BY <2>1 DEF ReadOK
  <2> QED
    BY <1>1, <1>5, <1>6, <1>8, <2>1, <2>2, <2>3, Rewriting
<1>10. CASE x = Free
  <2>1. x \in SlotType /\ x.step # "rows" /\ HeldOK(x)' /\ ReadOK(x)'
    BY <1>10, FreeOK DEF HeldOK, ReadOK, Seeding, Seeded
  <2> QED
    BY <1>1, <1>5, <1>6, <1>8, <2>1, Rewriting
<1> QED
  BY <1>8, <1>9, <1>10

LEMMA RenumberKeepsIInv ==
  ASSUME IInv, NEW r \in Slots, Renumber(r), asked' = asked
  PROVE  IInv'
<1> DEFINE place == busy[r].order
<1>1. /\ busy[r].step = "renumber" /\ busy[r] \in SlotType /\ HeldOK(busy[r]) /\ top' = top
      /\ rank' = [t \in Tasks |-> IF t \in DOMAIN place THEN place[t] * Unit ELSE rank[t]]
      /\ Wrote(r, Free)
  BY DEF Renumber, Doing, IInv, Typed
<1>2. DOMAIN place \subseteq top /\ place \in Orders
  BY <1>1 DEF HeldOK, SlotType
<1>3. \A t \in DOMAIN place : place[t] \in 0 .. Highest
  <2>1. PICK S \in SUBSET Tasks : place \in [S -> 1 .. Highest]
    BY <1>2 DEF Orders
  <2> HIDE DEF place
  <2>2. \A t \in DOMAIN place : place[t] \in 1 .. Highest
    BY <2>1
  <2> QED
    BY <2>2, Bounds
<1> HIDE DEF place
<1>4. \A t \in DOMAIN place : place[t] * Unit \in Ranks
  BY <1>3, RanksAreNumbers
<1>5. \A t \in Tasks : \/ t \in DOMAIN place /\ rank'[t] = place[t] * Unit
                      \/ rank'[t] = rank[t]
  BY <1>1
<1>6. \A t \in Tasks : rank'[t] = rank[t] \/ (t \in top /\ rank'[t] \in Ranks)
  BY <1>2, <1>4, <1>5
<1>7. rank' \in [Tasks -> Ranks \union {NoRank}]
  <2>1. rank' = [t \in Tasks |-> rank'[t]]
    BY <1>1
  <2>2. \A t \in Tasks : rank'[t] \in Ranks \union {NoRank}
    BY <1>6 DEF IInv, Typed
  <2> QED
    BY <2>1, <2>2
<1>8. Free \in SlotType /\ Free.step # "rows" /\ HeldOK(Free)' /\ ReadOK(Free)'
  BY FreeOK DEF HeldOK, ReadOK, Seeding, Seeded
<1>9. \A t \in Tasks : rank'[t] = rank[t] \/ (t \in top /\ rank'[t] # NoRank)
  BY <1>6, RanksAreNumbers
<1> QED
  BY <1>1, <1>7, <1>8, <1>9, Rewriting

LEMMA NextKeepsIInv == IInv /\ [Next]_vars => IInv'
<1> SUFFICES ASSUME IInv, [Next]_vars PROVE IInv'
  OBVIOUS
<1>1. CASE UNCHANGED vars
  <2>1. WithRank' = WithRank /\ \A t : PlaceOf(t)' = PlaceOf(t)
    BY <1>1 DEF vars, WithRank, PlaceOf, Before, Precedes
  <2>2. \A q : HeldOK(q)' = HeldOK(q)
    BY <1>1, <2>1 DEF vars, HeldOK
  <2>3. \A q \in SlotType : ReadOK(q)' = ReadOK(q)
    BY <1>1, <2>1 DEF vars, ReadOK, NextAbove, NextBelow, RankOf
  <2>4. Typed' /\ RankedOK' /\ ApartOK'
    BY <1>1 DEF vars, IInv, Typed, RankedOK, ApartOK
  <2>5. \A r \in Slots : HeldOK(busy[r])' /\ ReadOK(busy[r])'
    <3> TAKE r \in Slots
    <3>1. PICK y \in SlotType : y = busy[r] /\ y = busy'[r] /\ HeldOK(y) /\ ReadOK(y)
      BY <1>1 DEF vars, IInv, Typed
    <3>2. HeldOK(y)' /\ ReadOK(y)'
      BY <2>2, <2>3, <3>1
    <3> QED
      BY <3>1, <3>2
  <2> QED
    BY <2>4, <2>5 DEF IInv
<1>2. ASSUME NEW r \in Slots, Step(r), asked' = asked PROVE IInv'
  BY <1>2, AskCreateKeepsIInv, CreateKeepsIInv, AskReorderKeepsIInv, FindUnrankedKeepsIInv,
     FindMaxKeepsIInv, SeedKeepsIInv, FindNeighboursKeepsIInv, FindAdjacentKeepsIInv,
     WriteKeepsIInv, ReadOrderKeepsIInv, RenumberKeepsIInv DEF Step
<1> QED
  BY <1>1, <1>2 DEF Next

(* Ranks stay within the scale, and a task made by a creation has one.     *)
THEOREM TypeCorrect == Spec => []TypeOK
<1>1. IInv => TypeOK
  BY DEF IInv, Typed, RankedOK, HeldOK, TypeOK, SlotType
<1> QED
  BY <1>1, InitIInv, NextKeepsIInv, PTL DEF Spec

(* Every task of the scope has a rank before the neighbours of a reorder   *)
(* are looked up.                                                          *)
THEOREM Seeds == Spec => []SeededBeforeReorder
<1>1. IInv => SeededBeforeReorder
  BY DEF IInv, HeldOK, Seeded, SeededBeforeReorder
<1> QED
  BY <1>1, InitIInv, NextKeepsIInv, PTL DEF Spec

-----------------------------------------------------------------------------
\* Only Write and Renumber end a step "write" or "renumber".
LEMMA WriteEnds ==
  ASSUME IInv, [Next]_vars, NEW r \in Slots, busy[r].step = "write", busy'[r].step # "write"
  PROVE  Write(r)
<1>1. busy \in [Slots -> SlotType] /\ busy[r].step \notin {"idle"}
  BY DEF IInv, Typed
<1>2. ASSUME NEW q \in Slots \ {r}, Step(q) PROVE busy'[r].step = "write"
  <2>1. CASE \E x : GoTo(q, x)
    BY <1>1, <2>1 DEF GoTo
  <2>2. CASE \E x : Wrote(q, x)
    <3>1. busy'[r] = Stale(busy[r])
      BY <1>1, <2>2 DEF Wrote, Stale
    <3>2. busy[r] \in SlotType
      BY <1>1
    <3> QED
      BY <3>1, <3>2, StaleOK
  <2> QED
    BY <1>2, <2>1, <2>2, Zenon DEF Step, AskCreate, Create, AskReorder, FindUnranked, FindMax, Seed,
       FindNeighbours, FindAdjacent, Write, ReadOrder, Renumber
<1>3. ASSUME Step(r) PROVE Write(r)
  BY <1>3, Zenon DEF Step, AskCreate, Create, AskReorder, FindUnranked, FindMax, Seed,
     FindNeighbours, FindAdjacent, ReadOrder, Renumber, Doing
<1>4. CASE UNCHANGED vars
  BY <1>4 DEF vars
<1> QED
  BY <1>2, <1>3, <1>4 DEF Next

LEMMA RenumberEnds ==
  ASSUME IInv, [Next]_vars, NEW r \in Slots, busy[r].step = "renumber", busy'[r].step = "idle"
  PROVE  Renumber(r)
<1>1. busy \in [Slots -> SlotType]
  BY DEF IInv, Typed
<1>2. ASSUME NEW q \in Slots \ {r}, Step(q) PROVE busy'[r].step = "renumber"
  <2>1. CASE \E x : GoTo(q, x)
    BY <1>1, <2>1 DEF GoTo
  <2>2. CASE \E x : Wrote(q, x)
    <3>1. busy'[r] = Stale(busy[r])
      BY <1>1, <2>2 DEF Wrote, Stale
    <3>2. busy[r] \in SlotType
      BY <1>1
    <3> QED
      BY <3>1, <3>2, StaleOK
  <2> QED
    BY <1>2, <2>1, <2>2, Zenon DEF Step, AskCreate, Create, AskReorder, FindUnranked, FindMax, Seed,
       FindNeighbours, FindAdjacent, Write, ReadOrder, Renumber
<1>3. ASSUME Step(r) PROVE Renumber(r)
  BY <1>3, Zenon DEF Step, AskCreate, Create, AskReorder, FindUnranked, FindMax, Seed,
     FindNeighbours, FindAdjacent, Write, ReadOrder, Doing
<1>4. CASE UNCHANGED vars
  BY <1>4 DEF vars
<1> QED
  BY <1>2, <1>3, <1>4 DEF Next

\* The rank written between two, above the one or below the other.
LEMMA ComputedBetween ==
  ASSUME NEW a \in Ranks \union {NoRank}, NEW b \in Ranks \union {NoRank},
         a # NoRank /\ b # NoRank => (a + b) % 2 = 0
  PROVE  /\ a # NoRank /\ (b # NoRank => b > a) => computeRank(a, b) > a
         /\ b # NoRank /\ (a # NoRank => a < b) => computeRank(a, b) < b
         /\ a # NoRank /\ b # NoRank /\ a < b => computeRank(a, b) < b /\ computeRank(a, b) > a
BY RanksAreNumbers, Bounds DEF computeRank

\* What Write has done when nobody else wrote since the request began.
LEMMA WrittenRanks ==
  ASSUME IInv, NEW r \in Slots, Write(r), busy[r].clean
  PROVE  LET q == busy[r]
             x == computeRank(q.a, q.b)
         IN /\ top = WithRank /\ top \subseteq Tasks
            /\ q.task \in top /\ q.after \in top \union {NoTask} /\ q.before \in top \union {NoTask}
            /\ q.task # q.after /\ q.task # q.before
            /\ q.a \in Ranks \union {NoRank} /\ q.b \in Ranks \union {NoRank} /\ x \in Ranks
            /\ rank'[q.task] = x /\ \A t \in Tasks \ {q.task} : rank'[t] = rank[t]
            /\ q.a # NoRank /\ q.b # NoRank => (q.a + q.b) % 2 = 0
            /\ q.after # NoTask => q.a = rank[q.after] /\ q.a \in Ranks
            /\ q.before # NoTask => q.b = rank[q.before] /\ q.b \in Ranks
            /\ q.after # NoTask /\ q.before = NoTask => NextAbove(q.a, q.b)
            /\ q.after = NoTask /\ q.before # NoTask => NextBelow(q.a, q.b)
            /\ busy'[r].step = "idle" => ~needsRebalance(q.a, q.b, x)
<1> DEFINE q == busy[r]
           x == computeRank(q.a, q.b)
           next == [q EXCEPT !.step = "order", !.a = NoRank, !.b = NoRank]
<1>1. /\ q.step = "write" /\ q \in SlotType /\ HeldOK(q) /\ ReadOK(q)
      /\ x # NoRank => x \in Ranks
      /\ NoRank \notin {q.a, q.b} => (q.a + q.b) % 2 = 0
      /\ rank' = [rank EXCEPT ![q.task] = x]
      /\ Wrote(r, IF needsRebalance(q.a, q.b, x) THEN next ELSE Free)
  BY DEF Write, Doing, IInv, Typed
<1>2. q.a \in Ranks \union {NoRank} /\ q.b \in Ranks \union {NoRank}
  BY <1>1 DEF SlotType
<1>3. x \in Ranks
  BY <1>1, <1>2, ComputedRank, Bounds
<1>4. /\ top = WithRank /\ top \subseteq Tasks
      /\ q.task \in top /\ q.after \in top \union {NoTask} /\ q.before \in top \union {NoTask}
      /\ q.task # q.after /\ q.task # q.before
  BY <1>1 DEF HeldOK, Seeded, IInv, Typed
<1> HIDE DEF x
<1>5. rank'[q.task] = x /\ \A t \in Tasks \ {q.task} : rank'[t] = rank[t]
  BY <1>1, <1>4 DEF IInv, Typed
<1>6. /\ q.after # NoTask => q.a = rank[q.after] /\ q.a \in Ranks
      /\ q.before # NoTask => q.b = rank[q.before] /\ q.b \in Ranks
  BY <1>1, <1>4, WithRankOK DEF ReadOK, IInv
<1>7. /\ q.after # NoTask /\ q.before = NoTask => NextAbove(q.a, q.b)
      /\ q.after = NoTask /\ q.before # NoTask => NextBelow(q.a, q.b)
  BY <1>1 DEF ReadOK
<1>8. busy'[r].step = "idle" => ~needsRebalance(q.a, q.b, x)
  <2> SUFFICES ASSUME needsRebalance(q.a, q.b, x) PROVE busy'[r].step # "idle"
    OBVIOUS
  <2>1. busy'[r] = next
    BY <1>1 DEF Wrote
  <2>2. next.step = "order"
    BY <1>1 DEF SlotType
  <2> QED
    BY <2>1, <2>2
<1> QED
  BY <1>1, <1>2, <1>3, <1>4, <1>5, <1>6, <1>7, <1>8 DEF x

\* What Renumber has done when nobody else wrote since the order was read.
LEMMA Renumbered ==
  ASSUME IInv, NEW r \in Slots, Renumber(r), busy[r].clean
  PROVE  /\ top = WithRank /\ \A t \in WithRank : rank'[t] = PlaceOf(t) * Unit
         /\ \A s, t \in WithRank : Before(s, t) => /\ rank'[s] \in Int /\ rank'[t] \in Int
                                                  /\ rank'[t] - rank'[s] >= Unit
<1>1. /\ busy[r].step = "renumber" /\ HeldOK(busy[r]) /\ ReadOK(busy[r])
  BY DEF Renumber, Doing, IInv
<1>2. top = WithRank /\ busy[r].order = [t \in WithRank |-> PlaceOf(t)] /\ WithRank \subseteq Tasks
  BY <1>1, WithRankOK DEF HeldOK, ReadOK, Seeded, IInv
<1>3. \A t \in WithRank : rank'[t] = PlaceOf(t) * Unit
  BY <1>2 DEF Renumber
<1>4. ASSUME NEW s \in WithRank, NEW t \in WithRank, Before(s, t)
      PROVE  rank'[s] \in Int /\ rank'[t] \in Int /\ rank'[t] - rank'[s] >= Unit
  <2>1. PlaceOf(s) \in Nat /\ PlaceOf(t) \in Nat /\ PlaceOf(s) < PlaceOf(t)
    BY <1>4, PlaceBounds, PlaceOrder, Bounds DEF IInv
  <2>2. /\ PlaceOf(s) * Unit \in Int /\ PlaceOf(t) * Unit \in Int
        /\ PlaceOf(t) * Unit - PlaceOf(s) * Unit >= Unit
    BY <2>1, Bounds, FurtherApart
  <2> QED
    BY <1>3, <1>4, <2>2
<1> QED
  BY <1>2, <1>3, <1>4

LEMMA Apart ==
  ASSUME NEW m \in Int, NEW n \in Int, n - m >= Unit
  PROVE  m < n /\ ~Close(m, n) /\ ~Close(n, m)
BY Bounds DEF Close

LEMMA DropsHere ==
  ASSUME IInv, [Next]_vars, NEW r \in Slots,
         busy[r].step = "write", busy'[r].step # "write", busy[r].clean
  PROVE  LET x == busy[r].task
             a == busy[r].after
             b == busy[r].before
             Others == WithRank \ {x}
         IN /\ a # NoTask /\ b = NoTask =>
                 /\ rank'[x] > rank[a]
                 /\ \A t \in Others : ~(rank[a] < rank[t] /\ rank[t] < rank'[x])
            /\ a = NoTask /\ b # NoTask =>
                 /\ rank'[x] < rank[b]
                 /\ \A t \in Others : ~(rank'[x] < rank[t] /\ rank[t] < rank[b])
<1> DEFINE q == busy[r]
           y == computeRank(q.a, q.b)
<1>1. Write(r)
  BY WriteEnds
<1>2. /\ q.a \in Ranks \union {NoRank} /\ q.b \in Ranks \union {NoRank} /\ y \in Ranks
      /\ rank'[q.task] = y
      /\ q.a # NoRank /\ q.b # NoRank => (q.a + q.b) % 2 = 0
      /\ q.after # NoTask => q.a = rank[q.after] /\ q.a \in Ranks
      /\ q.before # NoTask => q.b = rank[q.before] /\ q.b \in Ranks
      /\ q.after # NoTask /\ q.before = NoTask => NextAbove(q.a, q.b)
      /\ q.after = NoTask /\ q.before # NoTask => NextBelow(q.a, q.b)
  BY <1>1, WrittenRanks
<1>3. \A t \in WithRank : rank[t] \in Int
  BY WithRankOK DEF IInv
<1>4. /\ q.a # NoRank /\ (q.b # NoRank => q.b > q.a) => y > q.a
      /\ q.b # NoRank /\ (q.a # NoRank => q.a < q.b) => y < q.b
      /\ q.a # NoRank /\ q.b # NoRank /\ q.a < q.b => y < q.b /\ y > q.a
  BY <1>2, ComputedBetween
<1> HIDE DEF y
<1>5. CASE q.after # NoTask /\ q.before = NoTask
  <2>1. q.a \in Int /\ q.a # NoRank /\ y \in Int /\ rank[q.after] = q.a /\ NextAbove(q.a, q.b)
    BY <1>2, <1>5, RanksAreNumbers
  <2>2. y > q.a
    BY <1>4, <2>1 DEF NextAbove
  <2>3. ASSUME NEW t \in WithRank, q.a < rank[t] PROVE ~(rank[t] < y)
    <3>1. q.b # NoRank /\ q.b <= rank[t]
      BY <1>3, <2>1, <2>3 DEF NextAbove
    <3>2. q.b \in Int /\ y < q.b
      BY <1>2, <1>4, <2>1, <3>1, RanksAreNumbers DEF NextAbove
    <3> QED
      BY <1>3, <2>1, <3>1, <3>2
  <2> QED
    BY <1>2, <1>5, <2>1, <2>2, <2>3
<1>6. CASE q.after = NoTask /\ q.before # NoTask
  <2>1. q.b \in Int /\ q.b # NoRank /\ y \in Int /\ rank[q.before] = q.b /\ NextBelow(q.a, q.b)
    BY <1>2, <1>6, RanksAreNumbers
  <2>2. y < q.b
    BY <1>4, <2>1 DEF NextBelow
  <2>3. ASSUME NEW t \in WithRank, rank[t] < q.b PROVE ~(y < rank[t])
    <3>1. q.a # NoRank /\ q.a >= rank[t]
      BY <1>3, <2>1, <2>3 DEF NextBelow
    <3>2. q.a \in Int /\ y > q.a
      BY <1>2, <1>4, <2>1, <3>1, RanksAreNumbers DEF NextBelow
    <3> QED
      BY <1>3, <2>1, <3>1, <3>2
  <2> QED
    BY <1>2, <1>6, <2>1, <2>2, <2>3
<1> QED
  BY <1>5, <1>6

LEMMA RoomBeside ==
  ASSUME IInv, [Next]_vars, NEW r \in Slots,
         busy[r].step \in {"write", "renumber"}, busy'[r].step = "idle", busy[r].clean,
         NEW n \in {busy[r].after, busy[r].before} \ {NoTask}
  PROVE  ~Close(rank'[n], rank'[busy[r].task])
<1> DEFINE q == busy[r]
           y == computeRank(q.a, q.b)
<1>1. CASE q.step = "write"
  <2>1. Write(r)
    BY <1>1, WriteEnds
  <2>2. /\ top \subseteq Tasks /\ n \in top /\ n # q.task /\ rank'[q.task] = y
        /\ \A t \in Tasks \ {q.task} : rank'[t] = rank[t]
        /\ q.after # NoTask => q.a = rank[q.after] /\ q.a \in Ranks
        /\ q.before # NoTask => q.b = rank[q.before] /\ q.b \in Ranks
        /\ ~needsRebalance(q.a, q.b, y)
    BY <2>1, WrittenRanks
  <2> HIDE DEF y
  <2> QED
    BY <2>2, RanksAreNumbers DEF needsRebalance
<1>2. CASE q.step = "renumber"
  <2>1. Renumber(r) /\ HeldOK(q)
    BY <1>2, RenumberEnds DEF IInv
  <2>2. n \in WithRank /\ q.task \in WithRank /\ n # q.task
    BY <1>2, <2>1, Renumbered DEF HeldOK
  <2>3. Before(n, q.task) \/ Before(q.task, n)
    <3>1. \A t \in WithRank : rank[t] \in Int /\ t \in Nat
      BY WithRankOK, Bounds DEF IInv
    <3> QED
      BY <2>2, <3>1 DEF Before, Precedes
  <2> QED
    BY <2>1, <2>2, <2>3, Renumbered, Apart
<1> QED
  BY <1>1, <1>2

LEMMA SameOrder ==
  ASSUME IInv, [Next]_vars, NEW r \in Slots,
         busy[r].step = "renumber", busy'[r].step = "idle", busy[r].clean,
         NEW s \in WithRank, NEW t \in WithRank, Before(s, t)
  PROVE  rank'[s] < rank'[t]
<1>1. Renumber(r)
  BY RenumberEnds
<1> QED
  BY <1>1, Renumbered, Apart

(* A drop is where it was dropped, has room there, and disturbs no other   *)
(* order, unless somebody else wrote a rank since it began.                *)
THEOREM Drops == Spec => DropsInPlace
<1>1. IInv /\ [Next]_vars
      => [\A r \in Slots :
            /\ busy[r].step = "write" /\ busy'[r].step # "write" /\ busy[r].clean
            => LET x == busy[r].task
                   a == busy[r].after
                   b == busy[r].before
                   Others == WithRank \ {x}
               IN /\ a # NoTask /\ b = NoTask =>
                       /\ rank'[x] > rank[a]
                       /\ \A t \in Others : ~(rank[a] < rank[t] /\ rank[t] < rank'[x])
                  /\ a = NoTask /\ b # NoTask =>
                       /\ rank'[x] < rank[b]
                       /\ \A t \in Others : ~(rank'[x] < rank[t] /\ rank[t] < rank[b])]_vars
  BY DropsHere
<1>2. IInv /\ [Next]_vars
      => [\A r \in Slots :
            /\ busy[r].step \in {"write", "renumber"} /\ busy'[r].step = "idle" /\ busy[r].clean
            => \A n \in {busy[r].after, busy[r].before} \ {NoTask} :
                 ~Close(rank'[n], rank'[busy[r].task])]_vars
  BY RoomBeside
<1>3. IInv /\ [Next]_vars
      => [\A r \in Slots :
            /\ busy[r].step = "renumber" /\ busy'[r].step = "idle" /\ busy[r].clean
            => \A s, t \in WithRank : Before(s, t) => rank'[s] < rank'[t]]_vars
  BY SameOrder
<1>4. Spec => DroppedNextTo
  BY <1>1, InitIInv, NextKeepsIInv, PTL DEF Spec, DroppedNextTo
<1>5. Spec => RoomAfterwards
  BY <1>2, InitIInv, NextKeepsIInv, PTL DEF Spec, RoomAfterwards
<1>6. Spec => RenumberKeepsOrder
  BY <1>3, InitIInv, NextKeepsIInv, PTL DEF Spec, RenumberKeepsOrder
<1> QED
  BY <1>4, <1>5, <1>6 DEF DropsInPlace

(***************************************************************************)
(* The synchronisation with Jira and Trello                                *)
(***************************************************************************)

-----------------------------------------------------------------------------
\* Finite sets of numbers.

LEMMA LargerOf ==
  ASSUME NEW m \in Nat, NEW l \in Nat
  PROVE  \E h \in Nat : m <= h /\ l <= h
<1>1. CASE m <= l
  BY <1>1
<1>2. CASE l <= m
  BY <1>2
<1> QED
  BY <1>1, <1>2

LEMMA BoundedNaturals ==
  ASSUME NEW S \in SUBSET Nat, IsFiniteSet(S)
  PROVE  \E m \in Nat : \A x \in S : x <= m
<1>0. PICK n \in Nat : ExistsBijection(1 .. n, S)
  BY FS_NatBijection
<1>1. PICK f : f \in [1 .. n -> S] /\ \A x \in S : \E i \in 1 .. n : f[i] = x
  BY <1>0 DEF ExistsBijection, Bijection, Surjection
<1> DEFINE Bounded(k) == \E m \in Nat : \A i \in 1 .. n : i <= k => f[i] <= m
           F == {k \in Nat : ~Bounded(k)}
<1>2. F = {}
  <2> SUFFICES ASSUME F # {} PROVE FALSE
    OBVIOUS
  <2>1. F \in SUBSET Nat
    OBVIOUS
  <2>2. PICK k \in F : \A j \in F : k <= j
    <3> HIDE DEF F
    <3> QED
      BY <2>1, LeastNatural
  <2>3. k \in Nat /\ ~Bounded(k)
    OBVIOUS
  <2>4. k # 0
    <3>1. \A i \in 1 .. n : i <= 0 => f[i] <= 0
      OBVIOUS
    <3> QED
      BY <2>3, <3>1
  <2>5. k - 1 \in Nat /\ Bounded(k - 1)
    <3>1. PICK j \in Nat : j = k - 1
      BY <2>3, <2>4
    <3>2. ~(k <= j)
      BY <2>3, <3>1
    <3>3. j \notin F
      BY <2>2, <3>2
    <3>4. Bounded(j)
      BY <3>3
    <3> QED
      BY <3>1, <3>4
  <2>6. PICK m \in Nat : \A i \in 1 .. n : i <= k - 1 => f[i] <= m
    BY <2>5
  <2>7. CASE k \in 1 .. n
    <3>1. PICK l \in Nat : l = f[k]
      BY <1>1, <2>7
    <3>2. PICK h \in Nat : m <= h /\ l <= h
      BY LargerOf
    <3>3. ASSUME NEW i \in 1 .. n, i <= k PROVE f[i] <= h
      <4>1. CASE i = k
        BY <3>1, <3>2, <4>1
      <4>2. CASE i # k
        <5>1. i \in Nat
          OBVIOUS
        <5>2. i <= k - 1
          BY <2>3, <3>3, <4>2, <5>1
        <5>3. f[i] \in Nat
          BY <1>1
        <5> QED
          BY <2>6, <3>2, <5>2, <5>3
      <4> QED
        BY <4>1, <4>2
    <3> QED
      BY <2>3, <3>2, <3>3
  <2>8. CASE k \notin 1 .. n
    <3>1. \A i \in 1 .. n : i <= k => i <= k - 1
      BY <2>3, <2>8
    <3> QED
      BY <2>3, <2>6, <3>1
  <2> QED
    BY <2>7, <2>8
<1>3. Bounded(n)
  BY <1>2
<1>4. PICK m \in Nat : \A i \in 1 .. n : f[i] <= m
  BY <1>3
<1> QED
  BY <1>1, <1>4

LEMMA GreatestNatural ==
  ASSUME NEW S \in SUBSET Nat, IsFiniteSet(S), S # {}
  PROVE  \E n \in S : \A m \in S : m <= n
<1> DEFINE B == {m \in Nat : \A x \in S : x <= m}
<1>1. B \in SUBSET Nat /\ B # {}
  BY BoundedNaturals
<1>2. PICK n \in B : \A m \in B : n <= m
  <2> HIDE DEF B
  <2> QED
    BY <1>1, LeastNatural
<1>3. n \in Nat /\ \A x \in S : x <= n
  OBVIOUS
<1>4. n \in S
  <2> SUFFICES ASSUME n \notin S PROVE FALSE
    OBVIOUS
  <2>1. PICK x \in S : TRUE
    OBVIOUS
  <2>2. x \in Nat /\ x <= n /\ x # n
    BY <1>3
  <2>3. n - 1 \in Nat
    BY <1>3, <2>2
  <2>4. ASSUME NEW y \in S PROVE y <= n - 1
    <3>1. y \in Nat /\ y <= n /\ y # n
      BY <1>3
    <3> QED
      BY <1>3, <3>1
  <2>5. n - 1 \in B
    BY <2>3, <2>4
  <2>6. n <= n - 1
    BY <1>2, <2>5
  <2> QED
    BY <1>3, <2>6
<1> QED
  BY <1>3, <1>4

LEMMA ImageFinite ==
  ASSUME NEW S, IsFiniteSet(S), NEW f
  PROVE  IsFiniteSet({f[x] : x \in S})
<1> DEFINE T == {f[x] : x \in S}
           g == [x \in S |-> f[x]]
<1>1. g \in [S -> T] /\ \A t \in T : \E x \in S : g[x] = t
  OBVIOUS
<1>2. g \in Surjection(S, T)
  BY <1>1 DEF Surjection
<1> HIDE DEF g, T
<1>3. IsFiniteSet(T)
  BY <1>2, FS_Surjection
<1> QED
  BY <1>3 DEF T

-----------------------------------------------------------------------------
\* Sorted sets and pages.

LEMMA IssuesFacts ==
  /\ Issues \subseteq Nat /\ 0 \notin Issues /\ IsFiniteSet(Issues)
  /\ BatchSize \in Nat /\ BatchSize >= 1
BY IssueSyncAssumption

LEMMA CountType ==
  ASSUME NEW S \in SUBSET Issues
  PROVE  IsFiniteSet(S) /\ Cardinality(S) \in Nat
BY IssuesFacts, FS_Subset, FS_CardinalityType

\* A part that lacks something is smaller.
LEMMA SmallerPart ==
  ASSUME NEW S \in SUBSET Issues, NEW T \in SUBSET S, NEW x \in S, x \notin T
  PROVE  Cardinality(T) < Cardinality(S)
<1>1. IsFiniteSet(S) /\ Cardinality(S) \in Nat /\ Cardinality(T) \in Nat
  BY CountType
<1>2. Cardinality(T) <= Cardinality(S) /\ (Cardinality(S) = Cardinality(T) => S = T)
  BY <1>1, FS_Subset
<1> QED
  BY <1>1, <1>2

LEMMA NoLarger ==
  ASSUME NEW S \in SUBSET Issues, NEW T \in SUBSET S
  PROVE  Cardinality(T) <= Cardinality(S)
BY CountType, FS_Subset

Older(S, i) == {j \in S : j < i}
Newer(S, i) == {j \in S : j > i}

LEMMA OneAfterTheOther ==
  ASSUME NEW S \in SUBSET Issues, NEW a \in S, NEW b \in S, a < b
  PROVE  /\ Cardinality(Older(S, a)) < Cardinality(Older(S, b))
         /\ Cardinality(Newer(S, b)) < Cardinality(Newer(S, a))
<1>1. a \in Nat /\ b \in Nat /\ \A j \in S : j \in Nat
  BY IssuesFacts
<1>2. Older(S, b) \in SUBSET Issues /\ Newer(S, a) \in SUBSET Issues
  BY DEF Older, Newer
<1>3. a \in Older(S, b) /\ b \in Newer(S, a)
  BY <1>1 DEF Older, Newer
<1>4. a \notin Older(S, a) /\ b \notin Newer(S, b)
  BY <1>1 DEF Older, Newer
<1>5. ASSUME NEW j \in S, j < a PROVE j < b
  BY <1>1, <1>5
<1>6. ASSUME NEW j \in S, j > b PROVE j > a
  BY <1>1, <1>6
<1>7. Older(S, a) \in SUBSET Older(S, b)
  BY <1>5 DEF Older
<1>8. Newer(S, b) \in SUBSET Newer(S, a)
  BY <1>6 DEF Newer
<1>9. Cardinality(Older(S, a)) < Cardinality(Older(S, b))
  BY <1>2, <1>3, <1>4, <1>7, SmallerPart
<1> QED
  BY <1>2, <1>3, <1>4, <1>8, <1>9, SmallerPart

LEMMA RankType ==
  ASSUME NEW S \in SUBSET Issues, NEW i \in S
  PROVE  /\ Cardinality(Older(S, i)) \in Nat /\ Cardinality(Older(S, i)) < Cardinality(S)
         /\ Cardinality(Newer(S, i)) \in Nat /\ Cardinality(Newer(S, i)) < Cardinality(S)
<1>1. i \in Nat
  BY IssuesFacts
<1>2. Older(S, i) \in SUBSET S /\ i \notin Older(S, i)
  BY <1>1 DEF Older
<1>3. Newer(S, i) \in SUBSET S /\ i \notin Newer(S, i)
  BY <1>1 DEF Newer
<1>4. Older(S, i) \in SUBSET Issues /\ Newer(S, i) \in SUBSET Issues
  BY <1>2, <1>3
<1> QED
  BY <1>2, <1>3, <1>4, SmallerPart, CountType

\* An issue is in one place, and a smaller number is an older issue.
LEMMA OnePlace ==
  ASSUME NEW S \in SUBSET Issues, NEW i \in S, NEW k \in S
  PROVE  /\ Cardinality(Older(S, i)) = Cardinality(Older(S, k)) => i = k
         /\ Cardinality(Newer(S, i)) = Cardinality(Newer(S, k)) => i = k
         /\ Cardinality(Newer(S, k)) < Cardinality(Newer(S, i)) => i < k
<1>1. i \in Nat /\ k \in Nat
  BY IssuesFacts
<1>2. /\ Cardinality(Older(S, i)) \in Nat /\ Cardinality(Older(S, k)) \in Nat
      /\ Cardinality(Newer(S, i)) \in Nat /\ Cardinality(Newer(S, k)) \in Nat
  BY RankType
<1>3. CASE i < k
  BY <1>2, <1>3, OneAfterTheOther
<1>4. CASE k < i
  BY <1>2, <1>4, OneAfterTheOther
<1>5. CASE i = k
  BY <1>2, <1>5
<1> QED
  BY <1>1, <1>3, <1>4, <1>5

\* Numbers below the size of a set, each given once, are all given.
LEMMA AllPlaces ==
  ASSUME NEW S, IsFiniteSet(S), NEW f,
         f \in [S -> 0 .. (Cardinality(S) - 1)], \A i, k \in S : f[i] = f[k] => i = k,
         NEW n \in Nat, n < Cardinality(S)
  PROVE  \E i \in S : f[i] = n
<1>1. PICK N \in Nat : N = Cardinality(S)
  BY FS_CardinalityType
<1>2. PICK c \in Int : c = N - 1
  BY <1>1
<1> DEFINE T == 0 .. c
<1>3. IsFiniteSet(T) /\ Cardinality(T) = IF 0 > c THEN 0 ELSE c - 0 + 1
  <2>1. 0 \in Int
    OBVIOUS
  <2> QED
    BY <2>1, FS_Interval, Zenon
<1>4. Cardinality(T) = N /\ n \in T
  BY <1>1, <1>2, <1>3
<1>5. f \in [S -> T]
  BY <1>1, <1>2
<1> HIDE DEF T
<1>6. f \in Injection(S, T)
  BY <1>5 DEF Injection, IsInjective
<1>7. f \in Surjection(S, T)
  BY <1>1, <1>3, <1>4, <1>6, FS_Injection
<1> QED
  BY <1>4, <1>7 DEF Surjection

LEMMA OldestPlace ==
  ASSUME NEW S \in SUBSET Issues, NEW n \in Nat, n < Cardinality(S)
  PROVE  Oldest(S, n) \in S /\ Cardinality(Older(S, Oldest(S, n))) = n
<1>1. PICK f : f = [i \in S |-> Cardinality(Older(S, i))]
  OBVIOUS
<1>2. Cardinality(S) \in Nat /\ IsFiniteSet(S)
  BY CountType
<1>3. ASSUME NEW i \in S PROVE f[i] \in 0 .. (Cardinality(S) - 1)
  BY <1>1, <1>2, RankType
<1>4. f \in [S -> 0 .. (Cardinality(S) - 1)]
  BY <1>1, <1>3
<1>5. \A i, k \in S : f[i] = f[k] => i = k
  BY <1>1, OnePlace
<1>6. \E i \in S : f[i] = n
  BY <1>2, <1>4, <1>5, AllPlaces
<1>7. \E i \in S : Cardinality(Older(S, i)) = n
  BY <1>1, <1>6
<1> QED
  BY <1>7 DEF Oldest, Older

LEMMA NewestPlace ==
  ASSUME NEW S \in SUBSET Issues, NEW n \in Nat, n < Cardinality(S)
  PROVE  Newest(S, n) \in S /\ Cardinality(Newer(S, Newest(S, n))) = n
<1>1. PICK f : f = [i \in S |-> Cardinality(Newer(S, i))]
  OBVIOUS
<1>2. Cardinality(S) \in Nat /\ IsFiniteSet(S)
  BY CountType
<1>3. ASSUME NEW i \in S PROVE f[i] \in 0 .. (Cardinality(S) - 1)
  BY <1>1, <1>2, RankType
<1>4. f \in [S -> 0 .. (Cardinality(S) - 1)]
  BY <1>1, <1>3
<1>5. \A i, k \in S : f[i] = f[k] => i = k
  BY <1>1, OnePlace
<1>6. \E i \in S : f[i] = n
  BY <1>2, <1>4, <1>5, AllPlaces
<1>7. \E i \in S : Cardinality(Newer(S, i)) = n
  BY <1>1, <1>6
<1> QED
  BY <1>7 DEF Newest, Newer

-----------------------------------------------------------------------------
\* The tables, and the requests with what they hold.
RunSteps == {"fetch", "match", "write", "done"}
SyncRow == [on : BOOLEAN, enabled : BOOLEAN, last : Int, id : Nat]
PageEntry == [i : Issues, ver : Nat, closed : BOOLEAN]
Copies == Issues \X (Linked \union {NoData})
RunData == [p : Linked, id : Nat, last : Int, number : Nat, begun : Nat, at : Nat,
            page : Seq(PageEntry), found : SUBSET Copies, due : SUBSET (Linked \X SyncRow)]
LeftData == [due : SUBSET (Linked \X SyncRow)]
SyncHolds == RunData \union LeftData \union {NoData}
SyncSteps == RunSteps \union {"", "next"}
SyncRequest ==
  [op : {"idle", "sync", "schedule", "import"}, step : SyncSteps, with : SyncHolds, over : SUBSET SyncOps]

SyncTables ==
  /\ service \in {"jira", "trello"} /\ minute \in Nat
  /\ remote \in [Issues -> [ver : Nat, updated : Nat, closed : BOOLEAN, gone : BOOLEAN]]
  /\ copy \in [Issues -> [project : Linked \union {NoData}, ver : Nat, number : Nat]]
  /\ manual \in [Linked -> SUBSET Nat]
  /\ link \in [Linked -> SyncRow]
  /\ missed \in [Linked -> SUBSET Issues]
SyncTyped == SyncTables /\ req \in [Requests -> SyncRequest]

\* What is past, and what is finite.
Past ==
  /\ \A i \in Issues : remote[i].updated <= minute
  /\ \A p \in Linked : Never <= link[p].last /\ link[p].last <= minute /\ IsFiniteSet(manual[p])

\* A record of the scheduler, and a sync, know the table as it was.
Current(h) == link[h.p].on /\ link[h.p].id = h.id
KnownRow(d) == /\ d[2].id <= link[d[1]].id
               /\ link[d[1]].on /\ link[d[1]].id = d[2].id => d[2].last <= link[d[1]].last
RunOK(h) ==
  /\ h.begun <= minute /\ h.id <= link[h.p].id
  /\ Current(h) => h.last <= link[h.p].last
WellRun(op, step, h) ==
  /\ op = "idle" <=> step = ""
  /\ step = "next" => h \in LeftData
  /\ step \in RunSteps => h \in RunData /\ RunOK(h)
  /\ step \in {"fetch", "done"} => h.page = <<>>
  /\ step \in RunSteps \union {"next"} => \A d \in h.due : KnownRow(d)

\* What is still to come for a sync: on its list, or in its page.
Listed(h, i) ==
  IF service = "jira" THEN i \in ChangedSince(h) /\ Cardinality(Older(ChangedSince(h), i)) >= h.at
                      ELSE i \in CardsBefore(h)
Coming(step, h, i) == (step # "done" /\ Listed(h, i)) \/ i \in BatchIssues(h)

Lone(q) == q.over \intersect Overtakers = {}
RunHeld(q) == q.step \in RunSteps /\ Current(q.with) /\ "remoteDelete" \notin q.over

\* A sync nobody overtook knows the numbers and the tasks as they are; ...
FreshRun(step, h) ==
  /\ \A n \in TaskNumbers(h.p) : n <= h.number
  /\ step = "write" => \A i \in BatchIssues(h) : Found(h, i) <=> Copied(i)

\* ... and what changed since it read its page, changed after every sync ended.
AsRead(e) == e.ver = remote[e.i].ver /\ e.closed = remote[e.i].closed
Recent(h, i) == remote[i].updated >= h.begun /\ \A p \in Linked : remote[i].updated >= link[p].last
PageHeld(h) == \A n \in DOMAIN h.page : AsRead(h.page[n]) \/ Recent(h, h.page[n].i)

\* A sync leaves out nothing it is responsible for.
RestComes(step, h) ==
  \A i \in Unsynced : remote[i].updated >= h.begun \/ i \in missed[h.p] \/ Coming(step, h, i)

\* What another sync is about to write outdated, one that began later catches.
Outdates(g, h, i) ==
  /\ Exists(i) /\ remote[i].updated < h.begun
  /\ \E n \in DOMAIN g.page : g.page[n].i = i /\ ~AsRead(g.page[n])
Catches(step, h, g) == \A i \in Issues : Outdates(g, h, i) => FreshRun(step, h) /\ Coming(step, h, i)

AllWellRun == \A r \in Requests : WellRun(req[r].op, req[r].step, req[r].with)
LoneFresh == \A r \in Requests : req[r].step \in RunSteps /\ Lone(req[r]) =>
               FreshRun(req[r].step, req[r].with) /\ PageHeld(req[r].with)
RestHeld == \A r \in Requests : RunHeld(req[r]) => RestComes(req[r].step, req[r].with)
Caught == \A r, s \in Requests :
            r # s /\ RunHeld(req[r]) /\ req[s].step \in RunSteps /\ Lone(req[s]) =>
              Catches(req[r].step, req[r].with, req[s].with)

SyncInv == SyncTyped /\ Past /\ AllWellRun /\ LoneFresh /\ RestHeld /\ Caught /\ NothingSkipped

-----------------------------------------------------------------------------
\* Pages.

LEMMA SizeFacts ==
  ASSUME NEW S \in SUBSET Issues, NEW o \in Nat
  PROVE  /\ Size(S, o) \in Int /\ o + Size(S, o) <= Cardinality(S)
         /\ Cardinality(S) > o => Size(S, o) >= 1
         /\ \A x \in Nat : x >= o /\ x < Cardinality(S) /\ ~(x >= o + Size(S, o)) => x - o + 1 \in 1 .. Size(S, o)
<1>1. PICK c \in Nat : c = Cardinality(S)
  BY CountType
<1>2. PICK b \in Nat : b = BatchSize /\ b >= 1
  BY IssuesFacts
<1>3. Size(S, o) = IF c > o + b THEN b ELSE c - o
  BY <1>1, <1>2 DEF Size
<1> QED
  BY <1>1, <1>2, <1>3

LEMMA PageIsSequence ==
  ASSUME NEW k \in Int, NEW f \in [1 .. k -> Issues]
  PROVE  /\ f \in Seq(Issues) /\ DOMAIN f = 1 .. k /\ 1 .. k = 1 .. Len(f)
         /\ k >= 1 => Len(f) = k /\ f # <<>>
         /\ k < 1 => f = <<>>
<1>1. CASE k >= 1
  <2>1. k \in Nat
    BY <1>1
  <2>2. f \in Seq(Issues) /\ Len(f) = k
    BY <2>1
  <2> QED
    BY <1>1, <2>1, <2>2
<1>2. CASE k < 1
  <2>1. 1 .. k = {} /\ 1 .. k = 1 .. 0
    BY <1>2
  <2>2. f \in [1 .. 0 -> Issues]
    BY <2>1
  <2>3. f \in Seq(Issues) /\ Len(f) = 0
    BY <2>2
  <2> QED
    BY <1>2, <2>1, <2>3
<1> QED
  BY <1>1, <1>2

LEMMA SetsOnList ==
  ASSUME NEW h \in RunData
  PROVE  ChangedSince(h) \in SUBSET Issues /\ CardsBefore(h) \in SUBSET Issues
BY DEF ChangedSince, CardsBefore

LEMMA JiraPageType ==
  ASSUME NEW h \in RunData, NEW S, S = ChangedSince(h), NEW k \in Int, k = Size(S, h.at)
  PROVE  /\ JiraPage(h) \in [1 .. k -> Issues]
         /\ \A n \in 1 .. k : /\ JiraPage(h)[n] \in S
                              /\ Cardinality(Older(S, JiraPage(h)[n])) = h.at + n - 1
<1>1. S \in SUBSET Issues /\ h.at \in Nat /\ Cardinality(S) \in Nat
  BY SetsOnList, CountType DEF RunData
<1>2. JiraPage(h) = [n \in 1 .. k |-> Oldest(S, h.at + n - 1)]
  BY DEF JiraPage
<1>3. ASSUME NEW n \in 1 .. k
      PROVE  Oldest(S, h.at + n - 1) \in S /\ Cardinality(Older(S, Oldest(S, h.at + n - 1))) = h.at + n - 1
  <2>1. h.at + k <= Cardinality(S)
    BY <1>1, SizeFacts
  <2>2. PICK m \in Nat : m = h.at + n - 1
    BY <1>1
  <2>3. m < Cardinality(S)
    BY <1>1, <2>1, <2>2
  <2>4. Oldest(S, m) \in S /\ Cardinality(Older(S, Oldest(S, m))) = m
    BY <1>1, <2>3, OldestPlace
  <2> QED
    BY <2>2, <2>4
<1> QED
  BY <1>1, <1>2, <1>3

LEMMA TrelloPageType ==
  ASSUME NEW h \in RunData, NEW S, S = CardsBefore(h), NEW k \in Int, k = Size(S, 0)
  PROVE  /\ TrelloPage(h) \in [1 .. k -> Issues]
         /\ \A n \in 1 .. k : /\ TrelloPage(h)[n] \in S
                              /\ Cardinality(Newer(S, TrelloPage(h)[n])) = n - 1
<1>1. S \in SUBSET Issues /\ Cardinality(S) \in Nat
  BY SetsOnList, CountType DEF RunData
<1>2. TrelloPage(h) = [n \in 1 .. k |-> Newest(S, n - 1)]
  BY DEF TrelloPage
<1>3. ASSUME NEW n \in 1 .. k
      PROVE  Newest(S, n - 1) \in S /\ Cardinality(Newer(S, Newest(S, n - 1))) = n - 1
  <2>1. 0 + k <= Cardinality(S)
    BY <1>1, SizeFacts
  <2>2. PICK m \in Nat : m = n - 1
    OBVIOUS
  <2>3. m < Cardinality(S)
    BY <1>1, <2>1, <2>2
  <2>4. Newest(S, m) \in S /\ Cardinality(Newer(S, Newest(S, m))) = m
    BY <1>1, <2>3, NewestPlace
  <2> QED
    BY <2>2, <2>4
<1> QED
  BY <1>1, <1>2, <1>3

LEMMA PageType ==
  ASSUME NEW h \in RunData, SyncTables
  PROVE  Page(h) \in Seq(Issues)
<1>1. h.at \in Nat
  BY DEF RunData
<1>2. CASE service = "jira"
  <2>1. PICK k \in Int : k = Size(ChangedSince(h), h.at)
    BY <1>1, SetsOnList, SizeFacts
  <2>2. JiraPage(h) \in [1 .. k -> Issues]
    BY <2>1, JiraPageType
  <2> QED
    BY <1>2, <2>2, PageIsSequence DEF Page
<1>3. CASE service # "jira"
  <2>1. PICK k \in Int : k = Size(CardsBefore(h), 0)
    BY SetsOnList, SizeFacts
  <2>2. TrelloPage(h) \in [1 .. k -> Issues]
    BY <2>1, TrelloPageType
  <2> QED
    BY <1>3, <2>2, PageIsSequence DEF Page
<1> QED
  BY <1>2, <1>3

\* An issue on the list is on the page, or still on the list after it.
LEMMA JiraMeets ==
  ASSUME NEW h \in RunData, NEW i \in ChangedSince(h),
         Cardinality(Older(ChangedSince(h), i)) >= h.at
  PROVE  /\ JiraPage(h) # <<>>
         /\ \/ \E n \in DOMAIN JiraPage(h) : JiraPage(h)[n] = i
            \/ Cardinality(Older(ChangedSince(h), i)) >= h.at + Len(JiraPage(h))
<1>1. PICK S : S = ChangedSince(h)
  OBVIOUS
<1>2. S \in SUBSET Issues /\ h.at \in Nat /\ Cardinality(S) \in Nat /\ i \in S
  BY <1>1, SetsOnList, CountType DEF RunData
<1>3. PICK k \in Int : k = Size(S, h.at)
  BY <1>2, SizeFacts
<1>4. PICK x \in Nat : x = Cardinality(Older(S, i)) /\ x < Cardinality(S) /\ x >= h.at
  BY <1>1, <1>2, RankType
<1>5. k >= 1
  BY <1>2, <1>3, <1>4, SizeFacts
<1>6. /\ JiraPage(h) \in [1 .. k -> Issues]
      /\ \A n \in 1 .. k : /\ JiraPage(h)[n] \in S
                           /\ Cardinality(Older(S, JiraPage(h)[n])) = h.at + n - 1
  BY <1>1, <1>3, JiraPageType
<1>7. Len(JiraPage(h)) = k /\ JiraPage(h) # <<>> /\ DOMAIN JiraPage(h) = 1 .. k
  BY <1>5, <1>6, PageIsSequence
<1>8. CASE x >= h.at + k
  BY <1>1, <1>4, <1>7, <1>8
<1>9. CASE ~(x >= h.at + k)
  <2>1. PICK n \in 1 .. k : n = x - h.at + 1
    BY <1>2, <1>3, <1>4, <1>9, SizeFacts
  <2>2. h.at + n - 1 = x
    BY <1>2, <1>4, <2>1
  <2>3. JiraPage(h)[n] \in S /\ Cardinality(Older(S, JiraPage(h)[n])) = Cardinality(Older(S, i))
    BY <1>4, <1>6, <2>2
  <2>4. JiraPage(h)[n] = i
    BY <1>2, <2>3, OnePlace
  <2> QED
    BY <1>7, <2>4
<1> QED
  BY <1>8, <1>9

LEMMA TrelloMeets ==
  ASSUME NEW h \in RunData, NEW i \in CardsBefore(h)
  PROVE  /\ TrelloPage(h) # <<>> /\ Last(TrelloPage(h)) \in Issues
         /\ (\E n \in DOMAIN TrelloPage(h) : TrelloPage(h)[n] = i) \/ i < Last(TrelloPage(h))
<1>1. PICK S : S = CardsBefore(h)
  OBVIOUS
<1>2. S \in SUBSET Issues /\ Cardinality(S) \in Nat /\ i \in S
  BY <1>1, SetsOnList, CountType
<1>3. PICK k \in Int : k = Size(S, 0)
  BY <1>2, SizeFacts
<1>4. PICK x \in Nat : x = Cardinality(Newer(S, i)) /\ x < Cardinality(S)
  BY <1>2, RankType
<1>5. k >= 1
  BY <1>2, <1>3, <1>4, SizeFacts
<1>6. /\ TrelloPage(h) \in [1 .. k -> Issues]
      /\ \A n \in 1 .. k : /\ TrelloPage(h)[n] \in S
                           /\ Cardinality(Newer(S, TrelloPage(h)[n])) = n - 1
  BY <1>1, <1>3, TrelloPageType
<1>7. Len(TrelloPage(h)) = k /\ TrelloPage(h) # <<>> /\ DOMAIN TrelloPage(h) = 1 .. k
  BY <1>5, <1>6, PageIsSequence
<1>8. k \in 1 .. k
  BY <1>5
<1>9. PICK l : l = Last(TrelloPage(h)) /\ l \in S /\ Cardinality(Newer(S, l)) = k - 1
  BY <1>6, <1>7, <1>8 DEF Last
<1>10. CASE x >= k
  <2>1. Cardinality(Newer(S, l)) < Cardinality(Newer(S, i))
    BY <1>4, <1>9, <1>10
  <2>2. i < l
    BY <1>2, <1>9, <2>1, OnePlace
  <2> QED
    BY <1>2, <1>7, <1>9, <2>2
<1>11. CASE ~(x >= k)
  <2>1. PICK n \in 1 .. k : n = x + 1
    BY <1>4, <1>11
  <2>2. n - 1 = x
    BY <1>4, <2>1
  <2>3. TrelloPage(h)[n] \in S /\ Cardinality(Newer(S, TrelloPage(h)[n])) = Cardinality(Newer(S, i))
    BY <1>4, <1>6, <2>2
  <2>4. TrelloPage(h)[n] = i
    BY <1>2, <2>3, OnePlace
  <2> QED
    BY <1>2, <1>7, <1>9, <2>4
<1> QED
  BY <1>10, <1>11

-----------------------------------------------------------------------------
\* A step of r: it goes on as y, and what it wrote (w) overtakes the others.

SyncTurned(r, y, w) ==
  /\ req' \in [Requests -> SyncRequest] /\ req'[r] = y
  /\ \A s \in Requests \ {r} :
       /\ req'[s].op = req[s].op /\ req'[s].step = req[s].step /\ req'[s].with = req[s].with
       /\ req'[s].over = IF req[s].op = "idle" THEN req[s].over ELSE req[s].over \union w

SyncOvertaken(r, op, o) ==
  /\ o \in [Requests -> SyncRequest] /\ o[r] = req[r]
  /\ \A s \in Requests \ {r} :
       /\ o[s].op = req[s].op /\ o[s].step = req[s].step /\ o[s].with = req[s].with
       /\ o[s].over = IF req[s].op = "idle" THEN req[s].over ELSE req[s].over \union {op}

LEMMA SyncHoldsFacts ==
  /\ RunData \subseteq SyncHolds /\ LeftData \subseteq SyncHolds
  /\ Idle \in SyncRequest /\ Idle.op = "idle" /\ Idle.step = ""
  /\ RunSteps \subseteq SyncSteps /\ "next" \in SyncSteps
<1>1. PICK x : x = NoData
  OBVIOUS
<1>2. x \in SyncHolds /\ RunData \subseteq SyncHolds /\ LeftData \subseteq SyncHolds
  BY <1>1 DEF SyncHolds
<1>3. Idle = [op |-> "idle", step |-> "", with |-> x, over |-> {}]
  BY <1>1 DEF Idle
<1> QED
  BY <1>2, <1>3 DEF SyncRequest, SyncSteps

LEMMA SyncOvertakenType ==
  ASSUME req \in [Requests -> SyncRequest], NEW r \in Requests, NEW op \in SyncOps
  PROVE  SyncOvertaken(r, op, Overtaken(r, op))
<1>1. \A s \in Requests : [req[s] EXCEPT !.over = @ \union {op}] \in SyncRequest
  BY DEF SyncRequest
<1>2. ASSUME NEW s \in Requests \ {r}
      PROVE  /\ Overtaken(r, op)[s] \in SyncRequest
             /\ Overtaken(r, op)[s].op = req[s].op /\ Overtaken(r, op)[s].step = req[s].step
             /\ Overtaken(r, op)[s].with = req[s].with
             /\ Overtaken(r, op)[s].over = IF req[s].op = "idle" THEN req[s].over
                                           ELSE req[s].over \union {op}
  <2>1. Overtaken(r, op)[s] = IF req[s].op # "idle" THEN [req[s] EXCEPT !.over = @ \union {op}] ELSE req[s]
    BY DEF Overtaken, Active
  <2> QED
    BY <1>1, <2>1 DEF SyncRequest
<1>3. Overtaken(r, op)[r] = req[r]
  BY DEF Overtaken
<1>4. Overtaken(r, op) \in [Requests -> SyncRequest]
  BY <1>2, <1>3 DEF Overtaken
<1> QED
  BY <1>2, <1>3, <1>4 DEF SyncOvertaken

LEMMA SyncGoesOn ==
  ASSUME req \in [Requests -> SyncRequest], NEW r \in Requests, NEW step \in SyncSteps,
         NEW with \in SyncHolds, GoOn(r, step, with)
  PROVE  \E y \in SyncRequest : /\ SyncTurned(r, y, {}) /\ y.op = req[r].op /\ y.step = step
                                /\ y.with = with /\ y.over = req[r].over
<1>1. PICK y : y = [req[r] EXCEPT !.step = step, !.with = with]
  OBVIOUS
<1>2. y \in SyncRequest /\ y.op = req[r].op /\ y.step = step /\ y.with = with /\ y.over = req[r].over
  BY <1>1 DEF SyncRequest
<1>3. req' = [req EXCEPT ![r] = y]
  BY <1>1 DEF GoOn
<1>4. SyncTurned(r, y, {})
  BY <1>2, <1>3 DEF SyncTurned
<1> QED
  BY <1>2, <1>4

LEMMA SyncCommitsAnd ==
  ASSUME req \in [Requests -> SyncRequest], NEW r \in Requests, NEW step \in SyncSteps,
         NEW with \in SyncHolds, NEW op \in SyncOps, req[r].op = op, CommitAnd(r, step, with)
  PROVE  \E y \in SyncRequest : /\ SyncTurned(r, y, {op}) /\ y.op = req[r].op /\ y.step = step
                                /\ y.with = with /\ y.over = req[r].over
<1>1. PICK y : y = [req[r] EXCEPT !.step = step, !.with = with]
  OBVIOUS
<1>2. y \in SyncRequest /\ y.op = req[r].op /\ y.step = step /\ y.with = with /\ y.over = req[r].over
  BY <1>1 DEF SyncRequest
<1>3. PICK o : o = Overtaken(r, op)
  OBVIOUS
<1>4. SyncOvertaken(r, op, o)
  BY <1>3, SyncOvertakenType
<1>5. req' = [o EXCEPT ![r] = y]
  BY <1>1, <1>3, <1>4 DEF CommitAnd, SyncOvertaken
<1>6. SyncTurned(r, y, {op})
  BY <1>2, <1>4, <1>5 DEF SyncTurned, SyncOvertaken
<1> QED
  BY <1>2, <1>6

LEMMA SyncCommits ==
  ASSUME req \in [Requests -> SyncRequest], NEW r \in Requests, NEW op \in SyncOps, req[r].op = op, Commit(r)
  PROVE  SyncTurned(r, Idle, {op})
<1>1. PICK o : o = Overtaken(r, op)
  OBVIOUS
<1>2. SyncOvertaken(r, op, o) /\ req' = [o EXCEPT ![r] = Idle]
  BY <1>1, SyncOvertakenType DEF Commit
<1> QED
  BY <1>2, SyncHoldsFacts DEF SyncTurned, SyncOvertaken

LEMMA SyncOnce ==
  ASSUME req \in [Requests -> SyncRequest], NEW r \in Requests, NEW op \in SyncOps, Once(r, op)
  PROVE  SyncTurned(r, req[r], {op}) /\ req[r].op = "idle" /\ req[r] \in SyncRequest
<1>1. PICK o : o = Overtaken(r, op)
  OBVIOUS
<1>2. SyncOvertaken(r, op, o) /\ req' = o /\ req[r].op = "idle"
  BY <1>1, SyncOvertakenType DEF Once, Active
<1> QED
  BY <1>2 DEF SyncTurned, SyncOvertaken

LEMMA SyncAsks ==
  ASSUME req \in [Requests -> SyncRequest], NEW r \in Requests, NEW op \in {"sync", "schedule", "import"},
         NEW step \in SyncSteps, NEW with \in SyncHolds, Ask(r, op, step, with)
  PROVE  \E y \in SyncRequest : /\ SyncTurned(r, y, {}) /\ y.op = op /\ y.step = step
                                /\ y.with = with /\ y.over = {} /\ req[r].op = "idle"
<1>1. PICK y : y = [op |-> op, step |-> step, with |-> with, over |-> {}]
  OBVIOUS
<1>2. y \in SyncRequest /\ y.op = op /\ y.step = step /\ y.with = with /\ y.over = {}
  BY <1>1 DEF SyncRequest
<1>3. req' = [req EXCEPT ![r] = y] /\ req[r].op = "idle"
  BY <1>1 DEF Ask, Active
<1>4. SyncTurned(r, y, {})
  BY <1>2, <1>3 DEF SyncTurned
<1> QED
  BY <1>2, <1>3, <1>4

\* A request that stands by: it keeps what it holds, and sees what was written.
StandsBy(s, w) ==
  /\ req'[s].op = req[s].op /\ req'[s].step = req[s].step /\ req'[s].with = req[s].with
  /\ req[s].step \in RunSteps => req'[s].over = req[s].over \union w

LEMMA OthersStandBy ==
  ASSUME AllWellRun, NEW r \in Requests, NEW y, NEW w, SyncTurned(r, y, w), NEW s \in Requests, s # r
  PROVE  StandsBy(s, w)
<1>1. req[s].op = "idle" <=> req[s].step = ""
  BY DEF AllWellRun, WellRun
<1>2. s \in Requests \ {r}
  OBVIOUS
<1> QED
  BY <1>1, <1>2 DEF SyncTurned, StandsBy, RunSteps

LEMMA AllStandBy ==
  ASSUME AllWellRun, NEW r \in Requests, NEW w, SyncTurned(r, req[r], w), req[r].op = "idle"
  PROVE  \A s \in Requests : StandsBy(s, w)
<1>1. ASSUME NEW s \in Requests PROVE StandsBy(s, w)
  <2>1. CASE s # r
    BY <2>1, OthersStandBy
  <2>2. CASE s = r
    <3>1. req[r].step = ""
      BY DEF AllWellRun, WellRun
    <3>2. req'[r] = req[r]
      BY DEF SyncTurned
    <3> QED
      BY <2>2, <3>1, <3>2 DEF StandsBy, RunSteps
  <2> QED
    BY <2>1, <2>2
<1> QED
  BY <1>1

LEMMA StandsByKeeps ==
  ASSUME NEW s \in Requests, NEW w, StandsBy(s, w)
  PROVE  /\ req'[s].step \in RunSteps /\ Lone(req[s])' => Lone(req[s]) /\ w \intersect Overtakers = {}
         /\ RunHeld(req[s])' => /\ req[s].step \in RunSteps /\ Current(req[s].with)'
                             /\ "remoteDelete" \notin req[s].over /\ "remoteDelete" \notin w
BY DEF StandsBy, Lone, RunHeld, Current

-----------------------------------------------------------------------------
\* What changes an issue there, or the time.
SameIssue(i) == remote'[i] = remote[i] /\ \A p \in Linked : i \in missed'[p] <=> i \in missed[p]
NewIssue(i) == remote'[i].updated = minute /\ Exists(i)'
GoneIssue(i) == /\ ~Exists(i)' /\ remote'[i].updated = remote[i].updated
                /\ remote'[i].ver = remote[i].ver /\ remote'[i].closed = remote[i].closed
RemoteMoves(op) ==
  /\ SyncTables' /\ minute' >= minute /\ UNCHANGED <<service, copy, manual, link>>
  /\ \A i \in Issues : SameIssue(i) \/ NewIssue(i) \/ (op = "remoteDelete" /\ GoneIssue(i))

LEMMA RunDataParts ==
  ASSUME NEW h \in RunData
  PROVE  /\ h.p \in Linked /\ h.id \in Nat /\ h.last \in Int /\ h.number \in Nat /\ h.begun \in Nat
         /\ h.at \in Nat /\ h.page \in Seq(PageEntry) /\ h.found \in SUBSET Copies
         /\ h.due \in SUBSET (Linked \X SyncRow)
         /\ DOMAIN h.page = 1 .. Len(h.page) /\ Len(h.page) \in Nat
         /\ \A n \in DOMAIN h.page : /\ h.page[n] \in PageEntry
                                     /\ h.page[n].i \in Issues /\ h.page[n].ver \in Nat /\ h.page[n].closed \in BOOLEAN
         /\ BatchIssues(h) \in SUBSET Issues
<1>1. h.page \in Seq(PageEntry)
  BY DEF RunData
<1>2. DOMAIN h.page = 1 .. Len(h.page) /\ Len(h.page) \in Nat /\ \A n \in DOMAIN h.page : h.page[n] \in PageEntry
  BY <1>1
<1>3. \A n \in DOMAIN h.page : h.page[n].i \in Issues /\ h.page[n].ver \in Nat /\ h.page[n].closed \in BOOLEAN
  BY <1>2 DEF PageEntry
<1>4. BatchIssues(h) \in SUBSET Issues
  BY <1>3 DEF BatchIssues
<1> QED
  BY <1>1, <1>2, <1>3, <1>4 DEF RunData

\* The list of a sync only grows.
LEMMA ListGrows ==
  ASSUME SyncTables, Past, NEW h \in RunData, h.last <= minute, NEW i \in Issues, Listed(h, i), SameIssue(i),
         UNCHANGED service, \A j \in Issues : SameIssue(j) \/ NewIssue(j)
  PROVE  Listed(h, i)'
<1>1. h.last \in Int /\ h.at \in Nat /\ minute \in Nat
  BY RunDataParts DEF SyncTables
<1>2. CASE service = "jira"
  <2>1. PICK S : S = ChangedSince(h)
    OBVIOUS
  <2>2. PICK T : T = ChangedSince(h)'
    OBVIOUS
  <2>3. S \in SUBSET Issues /\ T \in SUBSET Issues
    BY <2>1, <2>2 DEF ChangedSince
  <2>4. ASSUME NEW j \in S PROVE j \in T
    <3>1. j \in Issues /\ Exists(j) /\ (h.last # Never => remote[j].updated >= h.last)
      BY <2>1, <2>4 DEF ChangedSince
    <3>2. CASE SameIssue(j)
      <4>1. remote'[j] = remote[j]
        BY <3>2 DEF SameIssue
      <4>2. Exists(j)' /\ (h.last # Never => remote'[j].updated >= h.last)
        BY <3>1, <4>1 DEF Exists
      <4> QED
        BY <2>2, <3>1, <4>2 DEF ChangedSince
    <3>3. CASE NewIssue(j)
      <4>1. Exists(j)' /\ remote'[j].updated >= h.last
        BY <1>1, <3>3 DEF NewIssue
      <4> QED
        BY <2>2, <3>1, <4>1 DEF ChangedSince
    <3> QED
      BY <3>1, <3>2, <3>3
  <2>5. i \in S /\ Cardinality(Older(S, i)) >= h.at
    BY <1>2, <2>1 DEF Listed
  <2>6. Older(T, i) \in SUBSET Issues /\ Older(S, i) \in SUBSET Older(T, i) /\ Older(S, i) \in SUBSET Issues
    BY <2>3, <2>4 DEF Older
  <2>7. Cardinality(Older(S, i)) <= Cardinality(Older(T, i))
    BY <2>6, NoLarger
  <2>8. Cardinality(Older(S, i)) \in Nat /\ Cardinality(Older(T, i)) \in Nat
    BY <2>6, CountType
  <2>9. i \in T /\ Cardinality(Older(T, i)) >= h.at
    BY <1>1, <2>4, <2>5, <2>7, <2>8
  <2> QED
    BY <1>2, <2>2, <2>9 DEF Listed
<1>3. CASE service # "jira"
  <2>1. i \in CardsBefore(h)
    BY <1>3 DEF Listed
  <2>2. Exists(i)'
    BY <2>1 DEF CardsBefore, Exists, SameIssue
  <2>3. i \in CardsBefore(h)'
    BY <2>1, <2>2 DEF CardsBefore
  <2> QED
    BY <1>3, <2>3 DEF Listed
<1> QED
  BY <1>2, <1>3

LEMMA RemotePast ==
  ASSUME SyncTables, Past, NEW op, RemoteMoves(op)
  PROVE  Past'
<1>1. ASSUME NEW i \in Issues PROVE remote'[i].updated <= minute'
  <2>1. remote[i].updated <= minute /\ minute <= minute' /\ minute \in Nat /\ minute' \in Nat
    BY DEF Past, RemoteMoves, SyncTables
  <2>2. remote[i].updated \in Nat /\ remote'[i].updated \in Nat
    BY DEF RemoteMoves, SyncTables
  <2>3. remote'[i].updated \in {remote[i].updated, minute}
    BY DEF RemoteMoves, SameIssue, NewIssue, GoneIssue
  <2> QED
    BY <2>1, <2>2, <2>3
<1>2. ASSUME NEW p \in Linked
      PROVE  Never <= link'[p].last /\ link'[p].last <= minute' /\ IsFiniteSet(manual'[p])
  <2>1. link[p].last \in Int /\ minute \in Nat /\ minute' \in Nat /\ minute <= minute'
    BY DEF SyncTables, SyncRow, RemoteMoves
  <2> QED
    BY <2>1 DEF Past, RemoteMoves
<1> QED
  BY <1>1, <1>2 DEF Past

LEMMA RemoteWellRun ==
  ASSUME SyncTables, NEW op, RemoteMoves(op), NEW o, NEW step, NEW h, WellRun(o, step, h)
  PROVE  WellRun(o, step, h)'
<1>1. minute \in Nat /\ minute' \in Nat /\ minute <= minute' /\ link' = link
  BY DEF RemoteMoves, SyncTables
<1>2. ASSUME h \in RunData, RunOK(h) PROVE RunOK(h)'
  <2>1. h.begun \in Nat
    BY <1>2, RunDataParts
  <2> QED
    BY <1>1, <1>2, <2>1 DEF RunOK, Current
<1>3. ASSUME NEW d, KnownRow(d) PROVE KnownRow(d)'
  BY <1>1, <1>3 DEF KnownRow
<1> QED
  BY <1>2, <1>3 DEF WellRun

LEMMA FreshSame ==
  ASSUME UNCHANGED <<copy, manual>>, NEW step, NEW h, FreshRun(step, h)
  PROVE  FreshRun(step, h)'
BY DEF FreshRun, TaskNumbers, Copied, Found, BatchIssues

LEMMA RemotePageHeld ==
  ASSUME SyncTables, Past, NEW op, RemoteMoves(op), NEW h \in RunData, RunOK(h), PageHeld(h)
  PROVE  PageHeld(h)'
<1> SUFFICES ASSUME NEW n \in DOMAIN h.page PROVE AsRead(h.page[n])' \/ Recent(h, h.page[n].i)'
  BY DEF PageHeld
<1>1. PICK i \in Issues : i = h.page[n].i
  BY RunDataParts
<1>2. CASE remote'[i].ver = remote[i].ver /\ remote'[i].closed = remote[i].closed /\ remote'[i].updated = remote[i].updated
  BY <1>1, <1>2 DEF PageHeld, AsRead, Recent, RemoteMoves
<1>3. CASE NewIssue(i)
  <2>1. ASSUME NEW p \in Linked PROVE remote'[i].updated >= link'[p].last
    <3>1. link[p].last \in Int /\ link[p].last <= minute /\ minute \in Nat
      BY DEF SyncTables, SyncRow, Past
    <3> QED
      BY <1>3, <3>1 DEF NewIssue, RemoteMoves
  <2>2. remote'[i].updated >= h.begun
    <3>1. h.begun \in Nat /\ minute \in Nat /\ h.begun <= minute
      BY RunDataParts DEF RunOK, SyncTables
    <3> QED
      BY <1>3, <3>1 DEF NewIssue
  <2> QED
    BY <1>1, <2>1, <2>2 DEF Recent
<1> QED
  BY <1>2, <1>3 DEF RemoteMoves, SameIssue, GoneIssue

LEMMA RemoteRest ==
  ASSUME SyncTables, Past, NEW op, RemoteMoves(op), op # "remoteDelete",
         NEW h \in RunData, RunOK(h), Current(h), NEW step, RestComes(step, h)
  PROVE  RestComes(step, h)'
<1> SUFFICES ASSUME NEW i \in Unsynced'
             PROVE  remote'[i].updated >= h.begun \/ i \in missed'[h.p] \/ Coming(step, h, i)'
  BY DEF RestComes
<1>1. i \in Issues
  BY DEF Unsynced
<1>2. h.p \in Linked /\ h.begun \in Nat /\ minute \in Nat /\ h.begun <= minute
  BY RunDataParts DEF RunOK, SyncTables
<1>3. CASE NewIssue(i)
  BY <1>2, <1>3 DEF NewIssue
<1>4. CASE SameIssue(i)
  <2>1. i \in Unsynced
    BY <1>1, <1>4 DEF Unsynced, SameIssue, Exists, Copied, RemoteMoves
  <2>2. CASE remote[i].updated >= h.begun
    BY <1>4, <2>2 DEF SameIssue
  <2>3. CASE i \in missed[h.p]
    BY <1>2, <1>4, <2>3 DEF SameIssue
  <2>4. CASE Coming(step, h, i)
    <3>1. h.last <= minute
      <4>1. h.last \in Int /\ link[h.p].last \in Int /\ link[h.p].last <= minute /\ h.last <= link[h.p].last
        BY <1>2, RunDataParts DEF Past, RunOK, SyncTables, SyncRow
      <4> QED
        BY <1>2, <4>1
    <3>2. \A j \in Issues : SameIssue(j) \/ NewIssue(j)
      BY DEF RemoteMoves
    <3>3. Listed(h, i) => Listed(h, i)'
      BY <1>1, <1>4, <3>1, <3>2, ListGrows DEF RemoteMoves
    <3> QED
      BY <2>4, <3>3 DEF Coming, BatchIssues
  <2> QED
    BY <2>1, <2>2, <2>3, <2>4 DEF RestComes
<1> QED
  BY <1>1, <1>3, <1>4 DEF RemoteMoves

LEMMA RemoteCatches ==
  ASSUME SyncTables, Past, NEW op, RemoteMoves(op), op # "remoteDelete",
         NEW h \in RunData, RunOK(h), Current(h), NEW step, NEW g \in RunData, Catches(step, h, g)
  PROVE  Catches(step, h, g)'
<1> SUFFICES ASSUME NEW i \in Issues, Outdates(g, h, i)' PROVE FreshRun(step, h)' /\ Coming(step, h, i)'
  BY DEF Catches
<1>1. h.p \in Linked /\ h.begun \in Nat /\ minute \in Nat /\ h.begun <= minute
  BY RunDataParts DEF RunOK, SyncTables
<1>2. CASE NewIssue(i)
  BY <1>1, <1>2 DEF NewIssue, Outdates
<1>3. CASE SameIssue(i)
  <2>1. Outdates(g, h, i)
    BY <1>3 DEF SameIssue, Outdates, Exists, AsRead
  <2>2. FreshRun(step, h) /\ Coming(step, h, i)
    BY <2>1 DEF Catches
  <2>3. FreshRun(step, h)'
    BY <2>2, FreshSame DEF RemoteMoves
  <2>4. Coming(step, h, i)'
    <3>1. h.last <= minute
      <4>1. h.last \in Int /\ link[h.p].last \in Int /\ link[h.p].last <= minute /\ h.last <= link[h.p].last
        BY <1>1, RunDataParts DEF Past, RunOK, SyncTables, SyncRow
      <4> QED
        BY <1>1, <4>1
    <3>2. \A j \in Issues : SameIssue(j) \/ NewIssue(j)
      BY DEF RemoteMoves
    <3>3. Listed(h, i) => Listed(h, i)'
      BY <1>3, <3>1, <3>2, ListGrows DEF RemoteMoves
    <3> QED
      BY <2>2, <3>3 DEF Coming, BatchIssues
  <2> QED
    BY <2>3, <2>4
<1> QED
  BY <1>2, <1>3 DEF RemoteMoves

LEMMA RemoteSkips ==
  ASSUME SyncTables, Past, NEW op, RemoteMoves(op), NothingSkipped
  PROVE  NothingSkipped'
<1> SUFFICES ASSUME NEW p \in Linked, NEW i \in Unsynced', link'[p].on, remote'[i].updated < link'[p].last
             PROVE  i \in missed'[p]
  BY DEF NothingSkipped
<1>1. i \in Issues /\ Exists(i)'
  BY DEF Unsynced
<1>2. link'[p].last = link[p].last /\ link[p].last \in Int /\ link[p].last <= minute /\ minute \in Nat
  BY DEF SyncTables, SyncRow, Past, RemoteMoves
<1>3. CASE NewIssue(i)
  BY <1>2, <1>3 DEF NewIssue
<1>4. CASE SameIssue(i)
  <2>1. i \in Unsynced
    BY <1>1, <1>4 DEF Unsynced, SameIssue, Exists, Copied, RemoteMoves
  <2>2. remote[i].updated < link[p].last /\ link[p].on
    BY <1>2, <1>4 DEF SameIssue, RemoteMoves
  <2> QED
    BY <1>4, <2>1, <2>2 DEF SameIssue, NothingSkipped
<1> QED
  BY <1>1, <1>3, <1>4 DEF RemoteMoves, GoneIssue

\* What happens there skips nothing.
LEMMA RemoteKeeps ==
  ASSUME SyncInv, NEW r \in Requests, NEW op \in {"tick", "remoteEdit", "remoteClose", "remoteDelete"},
         Once(r, op), RemoteMoves(op)
  PROVE  SyncInv'
<1>0. op \in SyncOps /\ {op} \intersect Overtakers = {}
  BY DEF SyncOps, RemoteOps, Overtakers
<1>1. SyncTyped /\ SyncTables /\ Past /\ AllWellRun /\ req \in [Requests -> SyncRequest]
  BY DEF SyncInv, SyncTyped
<1>2. SyncTurned(r, req[r], {op}) /\ req[r].op = "idle"
  BY <1>0, <1>1, SyncOnce
<1>3. \A s \in Requests : StandsBy(s, {op})
  BY <1>1, <1>2, AllStandBy
<1>4. SyncTyped' /\ Past'
  BY <1>1, <1>2, RemotePast DEF SyncTyped, SyncTurned, RemoteMoves
<1>5. AllWellRun'
  <2> SUFFICES ASSUME NEW s \in Requests PROVE WellRun(req[s].op, req[s].step, req[s].with)'
    BY DEF AllWellRun
  <2>1. PICK o, step, h : o = req[s].op /\ step = req[s].step /\ h = req[s].with
    OBVIOUS
  <2>2. WellRun(o, step, h)
    BY <1>1, <2>1 DEF AllWellRun
  <2>3. WellRun(o, step, h)'
    BY <1>1, <2>2, RemoteWellRun
  <2>4. o = req'[s].op /\ step = req'[s].step /\ h = req'[s].with
    BY <1>3, <2>1 DEF StandsBy
  <2> QED
    BY <2>3, <2>4
<1>6. LoneFresh'
  <2> SUFFICES ASSUME NEW s \in Requests, req'[s].step \in RunSteps, Lone(req[s])'
               PROVE  FreshRun(req[s].step, req[s].with)' /\ PageHeld(req[s].with)'
    BY DEF LoneFresh
  <2>1. PICK step, h : step = req[s].step /\ h = req[s].with
    OBVIOUS
  <2>2. step = req'[s].step /\ h = req'[s].with /\ Lone(req[s])
    BY <1>3, <2>1, StandsByKeeps DEF StandsBy
  <2>3. h \in RunData /\ RunOK(h)
    BY <1>1, <2>1, <2>2 DEF AllWellRun, WellRun
  <2>4. FreshRun(step, h) /\ PageHeld(h)
    BY <2>1, <2>2 DEF SyncInv, LoneFresh
  <2>5. FreshRun(step, h)'
    BY <2>4, FreshSame DEF RemoteMoves
  <2>6. PageHeld(h)'
    BY <1>1, <2>3, <2>4, RemotePageHeld
  <2> QED
    BY <2>2, <2>5, <2>6
<1>7. RestHeld'
  <2> SUFFICES ASSUME NEW s \in Requests, RunHeld(req[s])' PROVE RestComes(req[s].step, req[s].with)'
    BY DEF RestHeld
  <2>1. PICK step, h : step = req[s].step /\ h = req[s].with
    OBVIOUS
  <2>2. step = req'[s].step /\ h = req'[s].with /\ step \in RunSteps /\ op # "remoteDelete"
    BY <1>3, <2>1, StandsByKeeps DEF StandsBy
  <2>3. RunHeld(req[s])
    BY <1>3, StandsByKeeps DEF RunHeld, Current, RemoteMoves, StandsBy
  <2>4. h \in RunData /\ RunOK(h) /\ Current(h)
    BY <1>1, <2>1, <2>2, <2>3 DEF AllWellRun, WellRun, RunHeld
  <2>5. RestComes(step, h)
    BY <2>1, <2>3 DEF SyncInv, RestHeld
  <2>6. RestComes(step, h)'
    BY <1>1, <2>2, <2>4, <2>5, RemoteRest
  <2> QED
    BY <2>2, <2>6
<1>8. Caught'
  <2> SUFFICES ASSUME NEW q \in Requests, NEW s \in Requests, q # s, RunHeld(req[q])',
                      req'[s].step \in RunSteps, Lone(req[s])'
               PROVE  Catches(req[q].step, req[q].with, req[s].with)'
    BY DEF Caught
  <2>1. PICK step, h, g : step = req[q].step /\ h = req[q].with /\ g = req[s].with
    OBVIOUS
  <2>2. step = req'[q].step /\ h = req'[q].with /\ g = req'[s].with /\ Lone(req[s])
        /\ op # "remoteDelete" /\ req[s].step \in RunSteps
    BY <1>3, <2>1, StandsByKeeps DEF StandsBy
  <2>3. RunHeld(req[q])
    BY <1>3, StandsByKeeps DEF RunHeld, Current, RemoteMoves, StandsBy
  <2>4. h \in RunData /\ RunOK(h) /\ Current(h) /\ g \in RunData
    BY <1>1, <2>1, <2>2, <2>3 DEF AllWellRun, WellRun, RunHeld
  <2>5. Catches(step, h, g)
    BY <2>1, <2>2, <2>3 DEF SyncInv, Caught
  <2>6. Catches(step, h, g)'
    BY <1>1, <2>2, <2>4, <2>5, RemoteCatches
  <2> QED
    BY <2>2, <2>6
<1>9. NothingSkipped'
  BY <1>1, RemoteSkips DEF SyncInv
<1> QED
  BY <1>4, <1>5, <1>6, <1>7, <1>8, <1>9 DEF SyncInv

LEMMA IssueRow ==
  ASSUME SyncTables, NEW i \in Issues
  PROVE  /\ remote[i].ver \in Nat /\ remote[i].updated \in Nat /\ remote[i].closed \in BOOLEAN
         /\ remote[i].gone \in BOOLEAN /\ minute \in Nat
         /\ remote[i] = [ver |-> remote[i].ver, updated |-> remote[i].updated,
                         closed |-> remote[i].closed, gone |-> remote[i].gone]
BY DEF SyncTables

LEMMA MinuteKeeps == ASSUME SyncInv, NEW r \in Requests, Minute(r) PROVE SyncInv'
<1>1. SyncTables
  BY DEF SyncInv, SyncTyped
<1>2. Once(r, "tick") /\ minute' = minute + 1 /\ UNCHANGED <<service, remote, copy, manual, link, missed>>
  BY DEF Minute
<1>3. SyncTables' /\ minute' >= minute
  BY <1>1, <1>2 DEF SyncTables
<1>4. \A i \in Issues : SameIssue(i)
  BY <1>2 DEF SameIssue
<1>5. RemoteMoves("tick")
  BY <1>2, <1>3, <1>4 DEF RemoteMoves
<1> QED
  BY <1>2, <1>5, RemoteKeeps

\* One issue changes; what was left out of it is asked for again.
LEMMA OneIssue ==
  ASSUME SyncTables, NEW i \in Issues, NEW row \in [ver : Nat, updated : Nat, closed : BOOLEAN, gone : BOOLEAN],
         remote' = [remote EXCEPT ![i] = row], UNCHANGED <<service, minute, copy, manual, link>>,
         missed' = [p \in Linked |-> missed[p] \ {i}], row.updated = minute, row.ver > 0, ~row.gone, NEW op
  PROVE  RemoteMoves(op)
<1>1. remote' \in [Issues -> [ver : Nat, updated : Nat, closed : BOOLEAN, gone : BOOLEAN]] /\ remote'[i] = row
  BY DEF SyncTables
<1>2. missed' \in [Linked -> SUBSET Issues]
  BY DEF SyncTables
<1>3. SyncTables' /\ minute' >= minute
  BY <1>1, <1>2 DEF SyncTables
<1>4. NewIssue(i)
  BY <1>1 DEF NewIssue, Exists
<1>5. ASSUME NEW j \in Issues, j # i PROVE SameIssue(j)
  BY <1>5 DEF SameIssue, SyncTables
<1> QED
  BY <1>3, <1>4, <1>5 DEF RemoteMoves

IssueRowType == [ver : Nat, updated : Nat, closed : BOOLEAN, gone : BOOLEAN]
LEMMA ChangedRow ==
  ASSUME NEW a \in IssueRowType, NEW u \in Nat
  PROVE  \E d \in IssueRowType : /\ d = [a EXCEPT !.ver = @ + 1, !.updated = u]
                                 /\ d.ver > 0 /\ d.updated = u /\ d.gone = a.gone
                                 /\ d.closed = a.closed
<1>1. PICK v \in Nat : v = a.ver + 1 /\ v > 0
  BY DEF IssueRowType
<1>2. PICK c \in IssueRowType : c = [a EXCEPT !.ver = v]
  BY DEF IssueRowType
<1>3. c.ver = v /\ c.gone = a.gone /\ c.closed = a.closed
  BY <1>2 DEF IssueRowType
<1>4. PICK d \in IssueRowType : d = [c EXCEPT !.updated = u]
  BY DEF IssueRowType
<1>5. d.ver = v /\ d.gone = a.gone /\ d.updated = u /\ d.closed = a.closed
  BY <1>3, <1>4 DEF IssueRowType
<1>6. [a EXCEPT !.ver = @ + 1, !.updated = u] = d
  BY <1>1, <1>2, <1>4, Zenon
<1>7. d.ver > 0
  BY <1>1, <1>5
<1> QED
  BY <1>5, <1>6, <1>7, Zenon

LEMMA ClosedRow ==
  ASSUME NEW a \in IssueRowType, NEW b \in BOOLEAN
  PROVE  /\ [a EXCEPT !.closed = b] \in IssueRowType
         /\ [a EXCEPT !.closed = b].ver = a.ver
         /\ [a EXCEPT !.closed = b].updated = a.updated
         /\ [a EXCEPT !.closed = b].gone = a.gone
BY DEF IssueRowType

LEMMA RemoteEditKeeps == ASSUME SyncInv, NEW r \in Requests, RemoteEdit(r) PROVE SyncInv'
<1>1. SyncTables
  BY DEF SyncInv, SyncTyped
<1>2. PICK i \in Issues :
        /\ ~remote[i].gone /\ Once(r, "remoteEdit")
        /\ remote' = [remote EXCEPT ![i].ver = @ + 1, ![i].updated = minute]
        /\ UNCHANGED <<service, minute, copy, manual, link>>
        /\ missed' = [p \in Linked |-> missed[p] \ {i}]
  BY DEF RemoteEdit
<1>3. PICK a \in IssueRowType : a = remote[i]
  BY <1>1 DEF SyncTables, IssueRowType
<1>4. minute \in Nat
  BY <1>1 DEF SyncTables
<1>5. PICK c \in IssueRowType : /\ c = [a EXCEPT !.ver = @ + 1, !.updated = minute]
                               /\ c.ver > 0 /\ c.updated = minute /\ c.gone = a.gone
                               /\ c.closed = a.closed
  BY <1>4, ChangedRow, Zenon
<1>6. remote' = [remote EXCEPT ![i] = c] /\ ~c.gone
  BY <1>2, <1>3, <1>5, Zenon
<1>7. RemoteMoves("remoteEdit")
  BY <1>1, <1>2, <1>5, <1>6, OneIssue DEF IssueRowType
<1> QED
  BY <1>2, <1>7, RemoteKeeps

LEMMA RemoteCloseKeeps == ASSUME SyncInv, NEW r \in Requests, RemoteClose(r) PROVE SyncInv'
<1>1. SyncTables
  BY DEF SyncInv, SyncTyped
<1>2. PICK i \in Issues :
        /\ Exists(i) /\ Once(r, "remoteClose")
        /\ remote' = [remote EXCEPT ![i].ver = @ + 1, ![i].updated = minute, ![i].closed = ~@]
        /\ UNCHANGED <<service, minute, copy, manual, link>>
        /\ missed' = [p \in Linked |-> missed[p] \ {i}]
  BY DEF RemoteClose
<1>3. PICK a \in IssueRowType : a = remote[i]
  BY <1>1 DEF SyncTables, IssueRowType
<1>4. PICK b \in BOOLEAN : b = ~a.closed
  OBVIOUS
<1>5. minute \in Nat
  BY <1>1 DEF SyncTables
<1>6. PICK d \in IssueRowType : /\ d = [a EXCEPT !.ver = @ + 1, !.updated = minute]
                               /\ d.ver > 0 /\ d.updated = minute /\ d.gone = a.gone
                               /\ d.closed = a.closed
  BY <1>5, ChangedRow, Zenon
<1>7. PICK c : c = [d EXCEPT !.closed = b]
  OBVIOUS
<1>8. c \in IssueRowType /\ c.ver = d.ver /\ c.updated = d.updated /\ c.gone = d.gone
  BY <1>7, ClosedRow, Zenon
<1>9. c.ver > 0 /\ c.updated = minute /\ c.gone = a.gone
  BY <1>6, <1>8
<1>10. remote' = [remote EXCEPT ![i] = c] /\ ~c.gone
  <2>1. remote' = [remote EXCEPT ![i] = [a EXCEPT !.ver = @ + 1, !.updated = minute, !.closed = ~a.closed]]
    BY <1>2, <1>3, Zenon
  <2>2. [a EXCEPT !.ver = @ + 1, !.updated = minute, !.closed = ~a.closed] = c
    BY <1>7, <1>4, <1>6, Zenon
  <2> QED
    BY <1>2, <1>3, <1>9, <2>1, <2>2, Zenon DEF Exists
<1>11. RemoteMoves("remoteClose")
  BY <1>1, <1>2, <1>10, <1>8, <1>9, OneIssue DEF IssueRowType
<1> QED
  BY <1>2, <1>11, RemoteKeeps

LEMMA RemoteDeleteKeeps == ASSUME SyncInv, NEW r \in Requests, RemoteDelete(r) PROVE SyncInv'
<1>1. SyncTables
  BY DEF SyncInv, SyncTyped
<1>2. PICK i \in Issues :
        /\ Exists(i) /\ Once(r, "remoteDelete")
        /\ remote' = [remote EXCEPT ![i].gone = TRUE]
        /\ UNCHANGED <<service, minute, copy, manual, link, missed>>
  BY DEF RemoteDelete
<1>3. PICK a \in IssueRowType : a = remote[i]
  BY <1>1 DEF SyncTables, IssueRowType
<1>4. PICK c : c = [a EXCEPT !.gone = TRUE]
  OBVIOUS
<1>5. c \in IssueRowType
  BY <1>4 DEF IssueRowType
<1>6. remote' = [remote EXCEPT ![i] = c]
  BY <1>2, <1>3, <1>4, Zenon
<1>7. remote' \in [Issues -> [ver : Nat, updated : Nat, closed : BOOLEAN, gone : BOOLEAN]]
  BY <1>1, <1>5, <1>6 DEF SyncTables, IssueRowType
<1>8. SyncTables' /\ minute' >= minute
  BY <1>1, <1>2, <1>7 DEF SyncTables
<1>9. GoneIssue(i)
  BY <1>1, <1>2 DEF GoneIssue, Exists, SyncTables
<1>10. ASSUME NEW j \in Issues, j # i PROVE SameIssue(j)
  BY <1>1, <1>2, <1>10 DEF SameIssue, SyncTables
<1>11. RemoteMoves("remoteDelete")
  BY <1>2, <1>8, <1>9, <1>10 DEF RemoteMoves
<1> QED
  BY <1>2, <1>11, RemoteKeeps

-----------------------------------------------------------------------------
\* What leaves the issues there alone.

LEMMA ListSame ==
  ASSUME UNCHANGED <<service, remote>>, NEW h, NEW step, NEW i
  PROVE  /\ Listed(h, i)' <=> Listed(h, i)
         /\ Coming(step, h, i)' <=> Coming(step, h, i)
         /\ Exists(i)' <=> Exists(i)
<1>1. Listed(h, i)' <=> Listed(h, i)
  BY DEF Listed, ChangedSince, CardsBefore, Exists
<1> QED
  BY <1>1 DEF Coming, BatchIssues, Exists

LEMMA RestStays ==
  ASSUME UNCHANGED <<service, remote>>, NEW h, NEW step, RestComes(step, h),
         \A i \in Unsynced' : \/ i \in missed'[h.p]
                              \/ i \in Unsynced /\ (i \in missed[h.p] => i \in missed'[h.p])
  PROVE  RestComes(step, h)'
BY ListSame DEF RestComes

LEMMA CatchesStays ==
  ASSUME UNCHANGED <<service, remote, copy, manual>>, NEW h, NEW step, NEW g, Catches(step, h, g)
  PROVE  Catches(step, h, g)'
<1> SUFFICES ASSUME NEW i \in Issues, Outdates(g, h, i)' PROVE FreshRun(step, h)' /\ Coming(step, h, i)'
  BY DEF Catches
<1>1. Outdates(g, h, i)
  BY ListSame DEF Outdates, AsRead
<1>2. FreshRun(step, h) /\ Coming(step, h, i)
  BY <1>1 DEF Catches
<1> QED
  BY <1>2, FreshSame, ListSame

LEMMA PageHeldStays ==
  ASSUME SyncTables, SyncTables', UNCHANGED remote, NEW h \in RunData, PageHeld(h),
         \A p \in Linked : link'[p].last <= link[p].last
  PROVE  PageHeld(h)'
<1> SUFFICES ASSUME NEW n \in DOMAIN h.page PROVE AsRead(h.page[n])' \/ Recent(h, h.page[n].i)'
  BY DEF PageHeld
<1>1. PICK i \in Issues : i = h.page[n].i
  BY RunDataParts
<1>2. CASE AsRead(h.page[n])
  BY <1>2 DEF AsRead
<1>3. CASE Recent(h, i)
  <2>1. ASSUME NEW p \in Linked PROVE remote'[i].updated >= link'[p].last
    <3>1. link[p].last \in Int /\ link'[p].last \in Int /\ remote[i].updated \in Nat
      BY DEF SyncTables, SyncRow
    <3> QED
      BY <1>3, <3>1 DEF Recent
  <2> QED
    BY <1>1, <1>3, <2>1 DEF Recent
<1> QED
  BY <1>1, <1>2, <1>3 DEF PageHeld

-----------------------------------------------------------------------------
\* Tasks made or deleted here.

LEMMA TableKeeps ==
  ASSUME SyncInv, NEW r \in Requests, NEW op \in {"manualTask", "deleteCopy"}, Once(r, op),
         SyncTables', \A p \in Linked : IsFiniteSet(manual'[p]),
         UNCHANGED <<service, minute, remote, link>>,
         \A i \in Unsynced', p \in Linked :
            i \in missed'[p] \/ (i \in Unsynced /\ (i \in missed[p] => i \in missed'[p]))
  PROVE  SyncInv'
<1>0. op \in SyncOps /\ {op} \intersect Overtakers # {} /\ op # "remoteDelete"
  BY DEF SyncOps, RemoteOps, Overtakers
<1>1. SyncTyped /\ SyncTables /\ Past /\ AllWellRun /\ req \in [Requests -> SyncRequest]
  BY DEF SyncInv, SyncTyped
<1>2. SyncTurned(r, req[r], {op}) /\ req[r].op = "idle"
  BY <1>0, <1>1, SyncOnce
<1>3. \A s \in Requests : StandsBy(s, {op})
  BY <1>1, <1>2, AllStandBy
<1>4. SyncTyped' /\ Past'
  BY <1>1, <1>2 DEF SyncTyped, SyncTurned, Past
<1>5. AllWellRun'
  <2> SUFFICES ASSUME NEW s \in Requests PROVE WellRun(req[s].op, req[s].step, req[s].with)'
    BY DEF AllWellRun
  <2>1. PICK o, step, h : o = req[s].op /\ step = req[s].step /\ h = req[s].with
    OBVIOUS
  <2>2. WellRun(o, step, h)
    BY <1>1, <2>1 DEF AllWellRun
  <2>3. WellRun(o, step, h)'
    BY <2>2 DEF WellRun, RunOK, KnownRow, Current
  <2>4. o = req'[s].op /\ step = req'[s].step /\ h = req'[s].with
    BY <1>3, <2>1 DEF StandsBy
  <2> QED
    BY <2>3, <2>4
<1>6. \A s \in Requests : ~(req'[s].step \in RunSteps /\ Lone(req[s])')
  BY <1>0, <1>3, StandsByKeeps
<1>7. RestHeld'
  <2> SUFFICES ASSUME NEW s \in Requests, RunHeld(req[s])' PROVE RestComes(req[s].step, req[s].with)'
    BY DEF RestHeld
  <2>1. PICK step, h : step = req[s].step /\ h = req[s].with
    OBVIOUS
  <2>2. step = req'[s].step /\ h = req'[s].with
    BY <1>3, <2>1 DEF StandsBy
  <2>3. RunHeld(req[s])
    BY <1>3, StandsByKeeps DEF RunHeld, Current, StandsBy
  <2>4. h.p \in Linked
    BY <1>1, <2>1, <2>3, RunDataParts DEF AllWellRun, WellRun, RunHeld
  <2>5. RestComes(step, h)
    BY <2>1, <2>3 DEF SyncInv, RestHeld
  <2>6. RestComes(step, h)'
    BY <2>4, <2>5, RestStays
  <2> QED
    BY <2>2, <2>6
<1>8. NothingSkipped'
  <2> SUFFICES ASSUME NEW p \in Linked, NEW i \in Unsynced', link'[p].on, remote'[i].updated < link'[p].last
               PROVE  i \in missed'[p]
    BY DEF NothingSkipped
  <2> QED
    BY DEF SyncInv, NothingSkipped
<1> QED
  BY <1>4, <1>5, <1>6, <1>7, <1>8 DEF SyncInv, LoneFresh, Caught

LEMMA NumbersFinite ==
  ASSUME SyncTables, Past, NEW p \in Linked
  PROVE  TaskNumbers(p) \in SUBSET Nat /\ IsFiniteSet(TaskNumbers(p))
<1>1. PICK f : f = [i \in Issues |-> copy[i].number]
  OBVIOUS
<1>2. PICK S : S = {i \in Issues : copy[i].project = p}
  OBVIOUS
<1>3. IsFiniteSet(S) /\ S \in SUBSET Issues
  BY <1>2, CountType
<1>4. IsFiniteSet({f[i] : i \in S})
  BY <1>3, ImageFinite
<1>5. TaskNumbers(p) = manual[p] \union {f[i] : i \in S}
  BY <1>1, <1>2 DEF TaskNumbers
<1>6. IsFiniteSet(manual[p]) /\ manual[p] \in SUBSET Nat
  BY DEF Past, SyncTables
<1>7. IsFiniteSet(TaskNumbers(p))
  BY <1>4, <1>5, <1>6, FS_Union
<1>8. \A i \in S : f[i] \in Nat
  BY <1>1, <1>3 DEF SyncTables
<1> QED
  BY <1>5, <1>6, <1>7, <1>8

LEMMA LastNumberFacts ==
  ASSUME SyncTables, Past, NEW p \in Linked
  PROVE  LastNumber(p) \in Nat /\ \A n \in TaskNumbers(p) : n <= LastNumber(p)
<1>1. PICK S : S = TaskNumbers(p) \union {0}
  OBVIOUS
<1>2. S \in SUBSET Nat /\ S # {} /\ IsFiniteSet(S)
  BY <1>1, NumbersFinite, FS_AddElement
<1>3. \E n \in S : \A m \in S : m <= n
  BY <1>2, GreatestNatural
<1>4. LastNumber(p) \in S /\ \A m \in TaskNumbers(p) : m <= LastNumber(p)
  BY <1>1, <1>3 DEF LastNumber
<1> QED
  BY <1>2, <1>4

LEMMA ManualTaskKeeps == ASSUME SyncInv, NEW r \in Requests, ManualTask(r) PROVE SyncInv'
<1>1. SyncTables /\ Past
  BY DEF SyncInv, SyncTyped
<1>2. PICK p \in Linked :
        /\ Once(r, "manualTask")
        /\ manual' = [manual EXCEPT ![p] = @ \union {LastNumber(p) + 1}]
        /\ UNCHANGED <<service, minute, remote, copy, link, missed>>
  BY DEF ManualTask
<1>3. PICK n \in Nat : n = LastNumber(p) + 1
  BY <1>1, LastNumberFacts
<1>4. manual' = [manual EXCEPT ![p] = @ \union {n}]
  BY <1>2, <1>3
<1>5. manual' \in [Linked -> SUBSET Nat]
  BY <1>1, <1>4 DEF SyncTables
<1>6. SyncTables'
  BY <1>1, <1>2, <1>5 DEF SyncTables
<1>7. ASSUME NEW q \in Linked PROVE IsFiniteSet(manual'[q])
  <2>1. IsFiniteSet(manual[q])
    BY <1>1 DEF Past
  <2>2. manual'[q] = manual[q] \/ manual'[q] = manual[q] \union {n}
    BY <1>1, <1>4 DEF SyncTables
  <2>3. IsFiniteSet(manual[q] \union {n})
    BY <2>1, FS_AddElement
  <2> QED
    BY <2>1, <2>2, <2>3
<1>8. Unsynced' = Unsynced
  BY <1>2 DEF Unsynced, Exists, Copied
<1> QED
  BY <1>2, <1>6, <1>7, <1>8, TableKeeps

LEMMA DeleteCopyKeeps == ASSUME SyncInv, NEW r \in Requests, DeleteCopy(r) PROVE SyncInv'
<1>1. SyncTables /\ Past
  BY DEF SyncInv, SyncTyped
<1>2. PICK i \in Issues :
        /\ Once(r, "deleteCopy") /\ copy' = [copy EXCEPT ![i] = NoCopy]
        /\ missed' = [p \in Linked |-> missed[p] \union {i}]
        /\ UNCHANGED <<service, minute, remote, manual, link>>
  BY DEF DeleteCopy
<1>3. PICK x : x = NoCopy
  OBVIOUS
<1>9. x \in [project : Linked \union {NoData}, ver : Nat, number : Nat]
  <2>1. PICK y : y = NoData
    OBVIOUS
  <2> QED
    BY <1>3, <2>1 DEF NoCopy
<1>4. copy' \in [Issues -> [project : Linked \union {NoData}, ver : Nat, number : Nat]]
  BY <1>1, <1>2, <1>3, <1>9 DEF SyncTables
<1>5. missed' \in [Linked -> SUBSET Issues]
  BY <1>1, <1>2 DEF SyncTables
<1>6. SyncTables'
  BY <1>1, <1>2, <1>4, <1>5 DEF SyncTables
<1>7. \A q \in Linked : IsFiniteSet(manual'[q])
  BY <1>1, <1>2 DEF Past
<1>8. ASSUME NEW j \in Unsynced', NEW p \in Linked
      PROVE  j \in missed'[p] \/ (j \in Unsynced /\ (j \in missed[p] => j \in missed'[p]))
  <2>1. j \in Issues
    BY <1>8 DEF Unsynced
  <2>2. CASE j = i
    BY <1>2, <2>2
  <2>3. CASE j # i
    <3>1. copy'[j] = copy[j]
      BY <1>1, <1>2, <2>1, <2>3 DEF SyncTables
    <3>2. j \in Unsynced
      BY <1>2, <1>8, <2>1, <3>1 DEF Unsynced, Exists, Copied
    <3> QED
      BY <1>2, <3>2
  <2> QED
    BY <2>2, <2>3
<1> QED
  BY <1>2, <1>6, <1>7, <1>8, TableKeeps

-----------------------------------------------------------------------------
\* Projects connected, disconnected and configured.

SameLink(p) ==
  /\ link'[p].id = link[p].id /\ missed[p] \subseteq missed'[p] /\ link'[p].last \in {link[p].last, Never}
  /\ link'[p].on => link[p].on /\ link'[p].last = link[p].last
OtherLink(p) == link'[p].id = link[p].id + 1 /\ link'[p].last = Never
LinkMoves ==
  /\ SyncTables' /\ UNCHANGED <<service, minute, remote, copy, manual>>
  /\ \A p \in Linked : SameLink(p) \/ OtherLink(p)

LEMMA LinkType ==
  ASSUME SyncTables, Past, NEW p \in Linked
  PROVE  /\ link[p].id \in Nat /\ link[p].last \in Int /\ Never <= link[p].last /\ link[p].last <= minute
         /\ minute \in Nat /\ Never \in Int /\ Never < 0 /\ link[p] \in SyncRow
BY DEF SyncTables, SyncRow, Past, Never

LEMMA LinkFalls ==
  ASSUME SyncTables, Past, LinkMoves, NEW p \in Linked
  PROVE  link'[p].last <= link[p].last /\ Never <= link'[p].last
BY LinkType DEF LinkMoves, SameLink, OtherLink

LEMMA StillCurrent ==
  ASSUME SyncTables, Past, LinkMoves, NEW h \in RunData, h.id <= link[h.p].id, Current(h)'
  PROVE  Current(h) /\ link'[h.p].last = link[h.p].last /\ missed[h.p] \subseteq missed'[h.p]
<1>1. h.p \in Linked /\ h.id \in Nat /\ link[h.p].id \in Nat
  BY RunDataParts, LinkType
<1> QED
  BY <1>1 DEF LinkMoves, SameLink, OtherLink, Current

LEMMA LinkWellRun ==
  ASSUME SyncTables, Past, LinkMoves, NEW o, NEW step, NEW h, WellRun(o, step, h)
  PROVE  WellRun(o, step, h)'
<1>1. ASSUME h \in RunData, RunOK(h) PROVE RunOK(h)'
  <2>1. h.p \in Linked /\ h.id \in Nat /\ link[h.p].id \in Nat /\ h.id <= link[h.p].id
    BY <1>1, RunDataParts, LinkType DEF RunOK
  <2>2. h.id <= link'[h.p].id
    BY <2>1 DEF LinkMoves, SameLink, OtherLink
  <2>3. Current(h)' => h.last <= link'[h.p].last
    BY <1>1, <2>1, StillCurrent DEF RunOK
  <2> QED
    BY <1>1, <2>2, <2>3 DEF RunOK, LinkMoves
<1>2. ASSUME NEW d \in Linked \X SyncRow, KnownRow(d) PROVE KnownRow(d)'
  <2>1. d[1] \in Linked /\ d[2].id \in Nat /\ link[d[1]].id \in Nat
    BY <1>2, LinkType DEF SyncRow
  <2> QED
    BY <1>2, <2>1 DEF KnownRow, LinkMoves, SameLink, OtherLink
<1>3. step \in RunSteps \union {"next"} => h.due \in SUBSET (Linked \X SyncRow)
  BY RunDataParts DEF WellRun, LeftData
<1>4. step \in RunSteps \union {"next"} => \A d \in h.due : KnownRow(d)'
  BY <1>2, <1>3 DEF WellRun
<1>5. step \in RunSteps => h \in RunData /\ RunOK(h)'
  BY <1>1 DEF WellRun
<1> QED
  BY <1>4, <1>5 DEF WellRun

LEMMA LinkRest ==
  ASSUME SyncTables, Past, LinkMoves, NEW h \in RunData, h.id <= link[h.p].id, Current(h)', NEW step,
         RestComes(step, h)
  PROVE  RestComes(step, h)'
<1>1. missed[h.p] \subseteq missed'[h.p]
  BY StillCurrent
<1>2. Unsynced' = Unsynced
  BY DEF LinkMoves, Unsynced, Exists, Copied
<1> QED
  BY <1>1, <1>2, RestStays DEF LinkMoves

LEMMA LinkSkips ==
  ASSUME SyncTables, Past, LinkMoves, NothingSkipped
  PROVE  NothingSkipped'
<1> SUFFICES ASSUME NEW p \in Linked, NEW i \in Unsynced', link'[p].on, remote'[i].updated < link'[p].last
             PROVE  i \in missed'[p]
  BY DEF NothingSkipped
<1>1. i \in Unsynced /\ i \in Issues
  BY DEF LinkMoves, Unsynced, Exists, Copied
<1>2. remote'[i].updated \in Nat
  BY <1>1, IssueRow DEF LinkMoves
<1>3. CASE SameLink(p)
  BY <1>1, <1>3 DEF NothingSkipped, SameLink, LinkMoves
<1>4. CASE OtherLink(p)
  BY <1>2, <1>4 DEF OtherLink, Never
<1> QED
  BY <1>3, <1>4 DEF LinkMoves

LEMMA LinkPast == ASSUME SyncTables, Past, LinkMoves PROVE Past'
<1>1. ASSUME NEW p \in Linked PROVE Never <= link'[p].last /\ link'[p].last <= minute'
  <2>1. link'[p].last \in Int
    BY DEF LinkMoves, SyncTables, SyncRow
  <2> QED
    BY <2>1, LinkType, LinkFalls DEF LinkMoves
<1> QED
  BY <1>1 DEF Past, LinkMoves

LEMMA LinkKeeps ==
  ASSUME SyncInv, NEW r \in Requests, NEW op \in {"connect", "disconnect", "configure"}, Once(r, op), LinkMoves
  PROVE  SyncInv'
<1>0. op \in SyncOps
  BY DEF SyncOps
<1>1. SyncTyped /\ SyncTables /\ Past /\ AllWellRun /\ req \in [Requests -> SyncRequest]
  BY DEF SyncInv, SyncTyped
<1>2. SyncTurned(r, req[r], {op}) /\ req[r].op = "idle"
  BY <1>0, <1>1, SyncOnce
<1>3. \A s \in Requests : StandsBy(s, {op})
  BY <1>1, <1>2, AllStandBy
<1>4. SyncTyped' /\ Past' /\ SyncTables'
  BY <1>1, <1>2, LinkPast DEF SyncTyped, SyncTurned, LinkMoves
<1>5. AllWellRun'
  <2> SUFFICES ASSUME NEW s \in Requests PROVE WellRun(req[s].op, req[s].step, req[s].with)'
    BY DEF AllWellRun
  <2>1. PICK o, step, h : o = req[s].op /\ step = req[s].step /\ h = req[s].with
    OBVIOUS
  <2>2. WellRun(o, step, h)
    BY <1>1, <2>1 DEF AllWellRun
  <2>3. WellRun(o, step, h)'
    BY <1>1, <2>2, LinkWellRun
  <2>4. o = req'[s].op /\ step = req'[s].step /\ h = req'[s].with
    BY <1>3, <2>1 DEF StandsBy
  <2> QED
    BY <2>3, <2>4
<1>6. LoneFresh'
  <2> SUFFICES ASSUME NEW s \in Requests, req'[s].step \in RunSteps, Lone(req[s])'
               PROVE  FreshRun(req[s].step, req[s].with)' /\ PageHeld(req[s].with)'
    BY DEF LoneFresh
  <2>1. PICK step, h : step = req[s].step /\ h = req[s].with
    OBVIOUS
  <2>2. step = req'[s].step /\ h = req'[s].with /\ Lone(req[s])
    BY <1>3, <2>1, StandsByKeeps DEF StandsBy
  <2>3. h \in RunData
    BY <1>1, <2>1, <2>2 DEF AllWellRun, WellRun
  <2>4. FreshRun(step, h) /\ PageHeld(h)
    BY <2>1, <2>2 DEF SyncInv, LoneFresh
  <2>5. FreshRun(step, h)'
    BY <2>4, FreshSame DEF LinkMoves
  <2>6. PageHeld(h)'
    BY <1>1, <1>4, <2>3, <2>4, LinkFalls, PageHeldStays DEF LinkMoves
  <2> QED
    BY <2>2, <2>5, <2>6
<1>7. ASSUME NEW s \in Requests, RunHeld(req[s])', NEW h, h = req[s].with
      PROVE  RunHeld(req[s]) /\ h = req'[s].with /\ h \in RunData /\ h.id <= link[h.p].id /\ Current(h)'
  <2>1. req[s].step \in RunSteps /\ "remoteDelete" \notin req[s].over /\ h = req'[s].with
    BY <1>3, <1>7, StandsByKeeps DEF StandsBy
  <2>2. h \in RunData /\ RunOK(h)
    BY <1>1, <1>7, <2>1 DEF AllWellRun, WellRun
  <2>3. Current(h)'
    BY <1>7, <2>1 DEF RunHeld, Current
  <2>4. h.id <= link[h.p].id
    BY <2>2 DEF RunOK
  <2>5. Current(h)
    BY <1>1, <2>2, <2>3, <2>4, StillCurrent
  <2> QED
    BY <1>7, <2>1, <2>2, <2>3, <2>4, <2>5 DEF RunHeld
<1>8. RestHeld'
  <2> SUFFICES ASSUME NEW s \in Requests, RunHeld(req[s])' PROVE RestComes(req[s].step, req[s].with)'
    BY DEF RestHeld
  <2>1. PICK step, h : step = req[s].step /\ h = req[s].with
    OBVIOUS
  <2>2. RunHeld(req[s]) /\ h = req'[s].with /\ h \in RunData /\ h.id <= link[h.p].id /\ Current(h)'
    BY <1>7, <2>1
  <2>3. step = req'[s].step
    BY <1>3, <2>1 DEF StandsBy
  <2>4. RestComes(step, h)
    BY <2>1, <2>2 DEF SyncInv, RestHeld
  <2>5. RestComes(step, h)'
    BY <1>1, <2>2, <2>4, LinkRest
  <2> QED
    BY <2>2, <2>3, <2>5
<1>9. Caught'
  <2> SUFFICES ASSUME NEW q \in Requests, NEW s \in Requests, q # s, RunHeld(req[q])',
                      req'[s].step \in RunSteps, Lone(req[s])'
               PROVE  Catches(req[q].step, req[q].with, req[s].with)'
    BY DEF Caught
  <2>1. PICK step, h, g : step = req[q].step /\ h = req[q].with /\ g = req[s].with
    OBVIOUS
  <2>2. RunHeld(req[q]) /\ h = req'[q].with
    BY <1>7, <2>1
  <2>3. step = req'[q].step /\ g = req'[s].with /\ Lone(req[s]) /\ req[s].step \in RunSteps
    BY <1>3, <2>1, StandsByKeeps DEF StandsBy
  <2>4. Catches(step, h, g)
    BY <2>1, <2>2, <2>3 DEF SyncInv, Caught
  <2>5. Catches(step, h, g)'
    BY <2>4, CatchesStays DEF LinkMoves
  <2> QED
    BY <2>2, <2>3, <2>5
<1>10. NothingSkipped'
  BY <1>1, LinkSkips DEF SyncInv
<1> QED
  BY <1>4, <1>5, <1>6, <1>8, <1>9, <1>10 DEF SyncInv

LEMMA NewLinkMoves ==
  ASSUME SyncTables, Past, NEW p \in Linked, link' = [link EXCEPT ![p] = NewLink(@)],
         missed' = [missed EXCEPT ![p] = {}], UNCHANGED <<service, minute, remote, copy, manual>>
  PROVE  LinkMoves /\ NewLink(link[p]) \in SyncRow /\ link'[p] = NewLink(link[p])
<1>1. PICK l \in SyncRow : l = link[p]
  BY LinkType
<1>2. PICK m : m = NewLink(l) /\ m \in SyncRow /\ m.last = Never /\ m.id = l.id + 1
  <2>1. PICK b \in BOOLEAN : b = TRUE
    OBVIOUS
  <2>2. PICK n \in Int : n = Never
    BY DEF Never
  <2>3. PICK k \in Nat : k = l.id + 1
    BY DEF SyncRow
  <2>4. PICK m : m = [on |-> b, enabled |-> b, last |-> n, id |-> k]
    OBVIOUS
  <2>5. m \in SyncRow /\ m.last = n /\ m.id = k
    BY <2>4 DEF SyncRow
  <2>6. m = NewLink(l)
    BY <2>1, <2>2, <2>3, <2>4, Zenon DEF NewLink
  <2> QED
    BY <2>2, <2>3, <2>5, <2>6
<1>3. link' = [link EXCEPT ![p] = m]
  BY <1>1, <1>2
<1>4. link' \in [Linked -> SyncRow] /\ link'[p] = m
  BY <1>2, <1>3 DEF SyncTables
<1>5. missed' \in [Linked -> SUBSET Issues]
  BY DEF SyncTables
<1>6. SyncTables'
  BY <1>4, <1>5 DEF SyncTables
<1>7. OtherLink(p)
  BY <1>1, <1>2, <1>4 DEF OtherLink
<1>8. ASSUME NEW q \in Linked, q # p PROVE SameLink(q)
  BY <1>3, <1>8 DEF SameLink, SyncTables
<1> QED
  BY <1>1, <1>2, <1>4, <1>6, <1>7, <1>8 DEF LinkMoves

LEMMA ConnectKeeps == ASSUME SyncInv, NEW r \in Requests, Connect(r) PROVE SyncInv'
<1>1. SyncTables /\ Past
  BY DEF SyncInv, SyncTyped
<1>2. PICK p \in Linked :
        /\ Once(r, "connect") /\ link' = [link EXCEPT ![p] = NewLink(@)]
        /\ missed' = [missed EXCEPT ![p] = {}] /\ UNCHANGED <<service, minute, remote, copy, manual>>
  BY DEF Connect
<1>3. LinkMoves
  BY <1>1, <1>2, NewLinkMoves
<1> QED
  BY <1>2, <1>3, LinkKeeps

LEMMA RowTurned ==
  ASSUME NEW l \in SyncRow, NEW b \in BOOLEAN
  PROVE  \E m \in SyncRow : m = [l EXCEPT !.on = b] /\ m.on = b /\ m.id = l.id
<1>1. PICK m \in SyncRow : m = [l EXCEPT !.on = b]
  BY DEF SyncRow
<1>2. m.on = b /\ m.id = l.id
  BY <1>1 DEF SyncRow
<1> QED
  BY <1>1, <1>2, Zenon

LEMMA RowEnabled ==
  ASSUME NEW l \in SyncRow, NEW b \in BOOLEAN
  PROVE  \E m \in SyncRow : /\ m = [l EXCEPT !.enabled = b]
                            /\ m.on = l.on /\ m.id = l.id /\ m.last = l.last
<1>1. PICK m \in SyncRow : m = [l EXCEPT !.enabled = b]
  BY DEF SyncRow
<1>2. m.on = l.on /\ m.id = l.id /\ m.last = l.last
  BY <1>1 DEF SyncRow
<1> QED
  BY <1>1, <1>2, Zenon

LEMMA DisconnectKeeps == ASSUME SyncInv, NEW r \in Requests, Disconnect(r) PROVE SyncInv'
<1>1. SyncTables /\ Past
  BY DEF SyncInv, SyncTyped
<1>2. PICK p \in Linked :
        /\ Once(r, "disconnect")
        /\ link' = [link EXCEPT ![p].on = FALSE, ![p].enabled = FALSE, ![p].last = Never]
        /\ UNCHANGED <<service, minute, remote, copy, manual, missed>>
  BY DEF Disconnect
<1>3. PICK l \in SyncRow : l = link[p]
  BY <1>1, LinkType
<1>4. PICK m : m = [l EXCEPT !.on = FALSE, !.enabled = FALSE, !.last = Never]
  OBVIOUS
<1>5. m \in SyncRow /\ ~m.on /\ m.last = Never /\ m.id = l.id
  <2>1. PICK b \in BOOLEAN : b = FALSE
    OBVIOUS
  <2>2. PICK n \in Int : n = Never
    BY DEF Never
  <2>3. PICK k \in SyncRow : k = [l EXCEPT !.on = b] /\ k.on = b /\ k.id = l.id
    BY RowTurned, Zenon
  <2>4. PICK j \in SyncRow : j = [k EXCEPT !.enabled = b] /\ j.on = k.on /\ j.id = k.id
    BY RowEnabled, Zenon
  <2>5. [j EXCEPT !.last = n] \in SyncRow /\ [j EXCEPT !.last = n].last = n
        /\ [j EXCEPT !.last = n].on = j.on /\ [j EXCEPT !.last = n].id = j.id
    BY DEF SyncRow
  <2>6. m = [j EXCEPT !.last = n]
    BY <1>4, <2>1, <2>2, <2>3, <2>4, Zenon
  <2> QED
    BY <2>1, <2>2, <2>3, <2>4, <2>5, <2>6, Zenon
<1>6. link' = [link EXCEPT ![p] = m]
  BY <1>2, <1>3, <1>4, Zenon
<1>7. link' \in [Linked -> SyncRow] /\ link'[p] = m
  BY <1>1, <1>5, <1>6 DEF SyncTables
<1>8. SyncTables'
  BY <1>1, <1>2, <1>7 DEF SyncTables
<1>9. \A q \in Linked : SameLink(q)
  BY <1>1, <1>2, <1>3, <1>5, <1>6, <1>7 DEF SameLink, SyncTables
<1>10. LinkMoves
  BY <1>2, <1>8, <1>9 DEF LinkMoves
<1> QED
  BY <1>2, <1>10, LinkKeeps

LEMMA ConfigureKeeps == ASSUME SyncInv, NEW r \in Requests, Configure(r) PROVE SyncInv'
<1>1. SyncTables /\ Past
  BY DEF SyncInv, SyncTyped
<1>2. PICK p \in Linked :
        /\ Once(r, "configure") /\ link' = [link EXCEPT ![p].enabled = ~@]
        /\ UNCHANGED <<service, minute, remote, copy, manual, missed>>
  BY DEF Configure
<1>3. PICK l \in SyncRow : l = link[p]
  BY <1>1, LinkType
<1>4. PICK b \in BOOLEAN : b = ~l.enabled
  OBVIOUS
<1>5. PICK m : m = [l EXCEPT !.enabled = b]
  OBVIOUS
<1>6. m \in SyncRow /\ m.on = l.on /\ m.last = l.last /\ m.id = l.id
  BY <1>5, Zenon DEF SyncRow
<1>7. link' = [link EXCEPT ![p] = m]
  BY <1>2, <1>3, <1>4, <1>5, Zenon
<1>8. link' \in [Linked -> SyncRow] /\ link'[p] = m
  BY <1>1, <1>6, <1>7 DEF SyncTables
<1>9. SyncTables'
  BY <1>1, <1>2, <1>8 DEF SyncTables
<1>10. ASSUME NEW q \in Linked PROVE SameLink(q)
  <2>1. CASE q = p
    BY <1>2, <1>3, <1>6, <1>8, <2>1 DEF SameLink
  <2>2. CASE q # p
    BY <1>1, <1>2, <1>7, <2>2 DEF SameLink, SyncTables
  <2> QED
    BY <2>1, <2>2
<1>11. LinkMoves
  BY <1>2, <1>9, <1>10 DEF LinkMoves
<1> QED
  BY <1>2, <1>11, LinkKeeps

-----------------------------------------------------------------------------
\* A request's own step, which moves no issue and no task.

LEMMA OwnStep ==
  ASSUME SyncInv, NEW r \in Requests, NEW y, SyncTurned(r, y, {}), LinkMoves,
         NEW o, NEW step, NEW h, y.op = o, y.step = step, y.with = h, WellRun(o, step, h)',
         step \in RunSteps /\ Lone(y) => FreshRun(step, h)' /\ PageHeld(h)',
         RunHeld(y)' => RestComes(step, h)',
         \A s \in Requests : \A g :
            (s # r /\ g = req[s].with /\ req[s].step \in RunSteps /\ Lone(req[s]) /\ RunHeld(y)')
            => Catches(step, h, g)',
         \A s \in Requests : \A st, k :
            (s # r /\ st = req[s].step /\ k = req[s].with /\ RunHeld(req[s]) /\ Current(k)' /\ step \in RunSteps /\ Lone(y))
            => Catches(st, k, h)'
  PROVE  SyncInv'
<1>1. SyncTyped /\ SyncTables /\ Past /\ AllWellRun /\ req \in [Requests -> SyncRequest]
  BY DEF SyncInv, SyncTyped
<1>2. req'[r] = y
  BY DEF SyncTurned
<1>3. \A s \in Requests : s # r => StandsBy(s, {})
  BY <1>1, OthersStandBy
<1>4. SyncTyped' /\ Past' /\ SyncTables'
  BY <1>1, LinkPast DEF SyncTyped, SyncTurned, LinkMoves
<1>5. AllWellRun'
  <2> SUFFICES ASSUME NEW s \in Requests PROVE WellRun(req[s].op, req[s].step, req[s].with)'
    BY DEF AllWellRun
  <2>1. CASE s = r
    BY <1>2, <2>1
  <2>2. CASE s # r
    <3>1. PICK oo, st, k : oo = req[s].op /\ st = req[s].step /\ k = req[s].with
      OBVIOUS
    <3>2. WellRun(oo, st, k)
      BY <1>1, <3>1 DEF AllWellRun
    <3>3. WellRun(oo, st, k)'
      BY <1>1, <3>2, LinkWellRun
    <3>4. oo = req'[s].op /\ st = req'[s].step /\ k = req'[s].with
      BY <1>3, <2>2, <3>1 DEF StandsBy
    <3> QED
      BY <3>3, <3>4
  <2> QED
    BY <2>1, <2>2
<1>6. ASSUME NEW s \in Requests, s # r, req'[s].step \in RunSteps, Lone(req[s])', NEW g, g = req[s].with
      PROVE  /\ g = req'[s].with /\ Lone(req[s]) /\ req[s].step \in RunSteps /\ g \in RunData
             /\ FreshRun(req[s].step, g) /\ PageHeld(g)'
  <2>1. StandsBy(s, {})
    BY <1>3, <1>6
  <2>2. g = req'[s].with /\ Lone(req[s]) /\ req[s].step \in RunSteps
    BY <1>6, <2>1, StandsByKeeps DEF StandsBy
  <2>3. g \in RunData
    BY <1>1, <1>6, <2>2 DEF AllWellRun, WellRun
  <2>4. FreshRun(req[s].step, g) /\ PageHeld(g)
    BY <1>6, <2>2 DEF SyncInv, LoneFresh
  <2>5. PageHeld(g)'
    BY <1>1, <1>4, <2>3, <2>4, LinkFalls, PageHeldStays DEF LinkMoves
  <2> QED
    BY <2>2, <2>3, <2>4, <2>5
<1>7. LoneFresh'
  <2> SUFFICES ASSUME NEW s \in Requests, req'[s].step \in RunSteps, Lone(req[s])'
               PROVE  FreshRun(req[s].step, req[s].with)' /\ PageHeld(req[s].with)'
    BY DEF LoneFresh
  <2>1. CASE s = r
    BY <1>2, <2>1 DEF Lone
  <2>2. CASE s # r
    <3>1. PICK st, g : st = req[s].step /\ g = req[s].with
      OBVIOUS
    <3>2. g = req'[s].with /\ FreshRun(st, g) /\ PageHeld(g)'
      BY <1>6, <2>2, <3>1
    <3>3. FreshRun(st, g)'
      BY <3>2, FreshSame DEF LinkMoves
    <3>4. st = req'[s].step
      BY <1>3, <2>2, <3>1 DEF StandsBy
    <3> QED
      BY <3>2, <3>3, <3>4
  <2> QED
    BY <2>1, <2>2
<1>8. ASSUME NEW s \in Requests, s # r, RunHeld(req[s])', NEW k, k = req[s].with
      PROVE  /\ RunHeld(req[s]) /\ k = req'[s].with /\ k \in RunData /\ k.id <= link[k.p].id /\ Current(k)'
             /\ req[s].step = req'[s].step
  <2>0. StandsBy(s, {})
    BY <1>3, <1>8
  <2>1. req[s].step \in RunSteps /\ "remoteDelete" \notin req[s].over /\ k = req'[s].with /\ req[s].step = req'[s].step
    BY <1>8, <2>0, StandsByKeeps DEF StandsBy
  <2>2. k \in RunData /\ RunOK(k)
    BY <1>1, <1>8, <2>1 DEF AllWellRun, WellRun
  <2>3. Current(k)'
    BY <1>8, <2>1 DEF RunHeld, Current
  <2>4. k.id <= link[k.p].id
    BY <2>2 DEF RunOK
  <2>5. Current(k)
    BY <1>1, <2>2, <2>3, <2>4, StillCurrent
  <2> QED
    BY <1>8, <2>1, <2>2, <2>3, <2>4, <2>5 DEF RunHeld
<1>9. RestHeld'
  <2> SUFFICES ASSUME NEW s \in Requests, RunHeld(req[s])' PROVE RestComes(req[s].step, req[s].with)'
    BY DEF RestHeld
  <2>1. CASE s = r
    BY <1>2, <2>1 DEF RunHeld, Current
  <2>2. CASE s # r
    <3>1. PICK st, k : st = req[s].step /\ k = req[s].with
      OBVIOUS
    <3>2. /\ RunHeld(req[s]) /\ k = req'[s].with /\ k \in RunData /\ k.id <= link[k.p].id /\ Current(k)'
          /\ st = req'[s].step
      BY <1>8, <2>2, <3>1
    <3>3. RestComes(st, k)
      BY <3>1, <3>2 DEF SyncInv, RestHeld
    <3>4. RestComes(st, k)'
      BY <1>1, <3>2, <3>3, LinkRest
    <3> QED
      BY <3>2, <3>4
  <2> QED
    BY <2>1, <2>2
<1>10. Caught'
  <2> SUFFICES ASSUME NEW q \in Requests, NEW s \in Requests, q # s, RunHeld(req[q])',
                      req'[s].step \in RunSteps, Lone(req[s])'
               PROVE  Catches(req[q].step, req[q].with, req[s].with)'
    BY DEF Caught
  <2>1. CASE q = r
    <3>1. PICK g : g = req[s].with
      OBVIOUS
    <3>2. s # r
      BY <2>1
    <3>3. g = req'[s].with /\ Lone(req[s]) /\ req[s].step \in RunSteps
      BY <1>6, <3>1, <3>2
    <3>4. RunHeld(y)'
      BY <1>2, <2>1 DEF RunHeld, Current
    <3>5. Catches(step, h, g)'
      BY <3>1, <3>2, <3>3, <3>4
    <3> QED
      BY <1>2, <2>1, <3>3, <3>5
  <2>2. CASE s = r
    <3>1. PICK st, k : st = req[q].step /\ k = req[q].with
      OBVIOUS
    <3>2. q # r
      BY <2>2
    <3>3. RunHeld(req[q]) /\ k = req'[q].with /\ st = req'[q].step /\ Current(k)'
      BY <1>8, <3>1, <3>2
    <3>4. step \in RunSteps /\ Lone(y)
      BY <1>2, <2>2 DEF Lone
    <3>5. Catches(st, k, h)'
      BY <3>1, <3>2, <3>3, <3>4
    <3> QED
      BY <1>2, <2>2, <3>3, <3>5
  <2>3. CASE q # r /\ s # r
    <3>1. PICK st, k, g : st = req[q].step /\ k = req[q].with /\ g = req[s].with
      OBVIOUS
    <3>2. RunHeld(req[q]) /\ k = req'[q].with /\ st = req'[q].step
      BY <1>8, <2>3, <3>1
    <3>3. g = req'[s].with /\ Lone(req[s]) /\ req[s].step \in RunSteps
      BY <1>6, <2>3, <3>1
    <3>4. Catches(st, k, g)
      BY <3>1, <3>2, <3>3 DEF SyncInv, Caught
    <3>5. Catches(st, k, g)'
      BY <3>4, CatchesStays DEF LinkMoves
    <3> QED
      BY <3>2, <3>3, <3>5
  <2> QED
    BY <2>1, <2>2, <2>3
<1>11. NothingSkipped'
  BY <1>1, LinkSkips DEF SyncInv
<1> QED
  BY <1>4, <1>5, <1>7, <1>9, <1>10, <1>11 DEF SyncInv

LEMMA SameSyncVars ==
  ASSUME SyncTables, UNCHANGED syncVars
  PROVE  LinkMoves
<1>1. UNCHANGED <<service, minute, remote, copy, manual, link, missed>>
  BY DEF syncVars
<1>2. SyncTables'
  BY <1>1 DEF SyncTables
<1>3. \A p \in Linked : SameLink(p)
  BY <1>1 DEF SameLink
<1> QED
  BY <1>1, <1>2, <1>3 DEF LinkMoves

-----------------------------------------------------------------------------
\* A sync that begins.

LEMMA SyncType ==
  ASSUME SyncTables, Past, NEW p \in Linked, NEW l \in SyncRow, NEW due \in SUBSET (Linked \X SyncRow),
         NEW h, h = Sync(p, l, due)
  PROVE  /\ h \in RunData /\ h.p = p /\ h.id = l.id /\ h.last = l.last /\ h.begun = minute /\ h.at = 0
         /\ h.page = <<>> /\ h.due = due /\ FreshRun("fetch", h)
<1>1. PICK n \in Nat : n = LastNumber(p) /\ \A m \in TaskNumbers(p) : m <= n
  BY LastNumberFacts
<1>2. PICK e : e = <<>> /\ e \in Seq(PageEntry)
  BY EmptySeq
<1>3. h = [p |-> p, id |-> l.id, last |-> l.last, number |-> n, begun |-> minute,
           at |-> 0, page |-> e, found |-> {}, due |-> due]
  BY <1>1, <1>2 DEF Sync
<1>4. h \in RunData
  <2>1. l.id \in Nat /\ l.last \in Int
    BY DEF SyncRow
  <2>2. minute \in Nat
    BY DEF SyncTables
  <2> QED
    BY <1>2, <1>3, <2>1, <2>2 DEF RunData
<1>5. FreshRun("fetch", h)
  BY <1>1, <1>3 DEF FreshRun
<1> QED
  BY <1>2, <1>3, <1>4, <1>5

LEMMA ListedFirst ==
  ASSUME SyncTables, NEW h \in RunData, h.at = 0, NEW i \in Issues, Exists(i), remote[i].updated >= h.last
  PROVE  Listed(h, i)
<1>1. i \in ChangedSince(h) /\ i \in CardsBefore(h)
  BY DEF ChangedSince, CardsBefore
<1>2. Cardinality(Older(ChangedSince(h), i)) \in Nat
  BY <1>1, SetsOnList, RankType
<1> QED
  BY <1>1, <1>2 DEF Listed

LEMMA Begins ==
  ASSUME SyncInv, NEW r \in Requests, NEW y, SyncTurned(r, y, {}), LinkMoves,
         NEW p \in Linked, NEW l \in SyncRow, NEW due \in SUBSET (Linked \X SyncRow), NEW h, h = Sync(p, l, due),
         y.op \in {"sync", "schedule", "import"}, y.step = "fetch", y.with = h,
         l.id <= link'[p].id, link'[p].on /\ link'[p].id = l.id => l.last <= link'[p].last,
         \A d \in due : KnownRow(d)'
  PROVE  SyncInv'
<1>1. SyncTyped /\ SyncTables /\ Past /\ AllWellRun /\ NothingSkipped
  BY DEF SyncInv, SyncTyped
<1>2. /\ h \in RunData /\ h.p = p /\ h.id = l.id /\ h.last = l.last /\ h.begun = minute /\ h.at = 0
      /\ h.page = <<>> /\ h.due = due /\ FreshRun("fetch", h)
  BY <1>1, SyncType
<1>3. WellRun(y.op, "fetch", h)'
  <2>1. h.begun <= minute' /\ minute \in Nat
    BY <1>1, <1>2 DEF LinkMoves, SyncTables
  <2>2. RunOK(h)'
    BY <1>2, <2>1 DEF RunOK, Current
  <2> QED
    BY <1>2, <2>2 DEF WellRun, RunSteps
<1>4. FreshRun("fetch", h)' /\ PageHeld(h)'
  <2>1. FreshRun("fetch", h)'
    BY <1>2, FreshSame DEF LinkMoves
  <2>2. DOMAIN h.page = {}
    BY <1>2
  <2> QED
    BY <2>1, <2>2 DEF PageHeld
<1>5. ASSUME NEW i \in Issues, Exists(i), remote[i].updated >= h.last
      PROVE  Coming("fetch", h, i)'
  <2>1. Listed(h, i)
    BY <1>1, <1>2, <1>5, ListedFirst
  <2>2. Listed(h, i)'
    BY <2>1, ListSame DEF LinkMoves
  <2> QED
    BY <2>2 DEF Coming
<1>6. ASSUME Current(h)' PROVE h.last <= link'[p].last /\ link'[p].on
  BY <1>2, <1>6 DEF Current
<1>7. ASSUME RunHeld(y)' PROVE RestComes("fetch", h)'
  <2>1. Current(h)'
    BY <1>7 DEF RunHeld, Current
  <2> SUFFICES ASSUME NEW i \in Unsynced'
               PROVE  remote'[i].updated >= h.begun \/ i \in missed'[h.p] \/ Coming("fetch", h, i)'
    BY DEF RestComes
  <2>2. i \in Issues /\ Exists(i) /\ remote'[i] = remote[i]
    BY DEF LinkMoves, Unsynced, Exists
  <2>3. CASE remote[i].updated >= h.last
    BY <1>5, <2>2, <2>3
  <2>4. CASE ~(remote[i].updated >= h.last)
    <3>1. h.last \in Int /\ link'[p].last \in Int /\ remote[i].updated \in Nat
      BY <1>1, <1>2, <2>2, IssueRow, RunDataParts DEF LinkMoves, SyncTables, SyncRow
    <3>2. link'[p].on /\ remote'[i].updated < link'[p].last
      BY <1>6, <2>1, <2>2, <2>4, <3>1
    <3>3. NothingSkipped'
      BY <1>1, LinkSkips
    <3>4. i \in missed'[p]
      BY <3>2, <3>3 DEF NothingSkipped
    <3> QED
      BY <1>2, <3>4
  <2> QED
    BY <2>3, <2>4
<1>8. ASSUME NEW s \in Requests, NEW g, s # r, g = req[s].with, req[s].step \in RunSteps, Lone(req[s]), RunHeld(y)'
      PROVE  Catches("fetch", h, g)'
  <2>1. Current(h)'
    BY <1>8 DEF RunHeld, Current
  <2>2. g \in RunData
    BY <1>1, <1>8 DEF AllWellRun, WellRun
  <2>3. PageHeld(g)
    BY <1>8 DEF SyncInv, LoneFresh
  <2>4. PageHeld(g)'
    BY <1>1, <2>2, <2>3, LinkFalls, PageHeldStays DEF LinkMoves
  <2> SUFFICES ASSUME NEW i \in Issues, Outdates(g, h, i)' PROVE FreshRun("fetch", h)' /\ Coming("fetch", h, i)'
    BY DEF Catches
  <2>5. PICK n \in DOMAIN g.page : g.page[n].i = i /\ ~AsRead(g.page[n])'
    BY DEF Outdates
  <2>6. Recent(g, i)'
    BY <2>4, <2>5 DEF PageHeld
  <2>7. h.last \in Int /\ link'[p].last \in Int /\ remote[i].updated \in Nat
    BY <1>1, <1>2, IssueRow, RunDataParts DEF LinkMoves, SyncTables, SyncRow
  <2>8. remote[i].updated >= link'[p].last
    BY <2>6 DEF Recent, LinkMoves
  <2>9. remote[i].updated >= h.last
    BY <1>6, <2>1, <2>7, <2>8
  <2>10. Exists(i)
    BY DEF Outdates, Exists, LinkMoves
  <2> QED
    BY <1>4, <1>5, <2>9, <2>10
<1>9. ASSUME NEW st, NEW k PROVE Catches(st, k, h)'
  <2>1. DOMAIN h.page = {}
    BY <1>2
  <2> QED
    BY <2>1 DEF Catches, Outdates
<1>10. PICK o, step : o = y.op /\ step = "fetch"
  OBVIOUS
<1>11. WellRun(o, step, h)'
  BY <1>3, <1>10
<1>12. step \in RunSteps /\ Lone(y) => FreshRun(step, h)' /\ PageHeld(h)'
  BY <1>4, <1>10
<1>13. RunHeld(y)' => RestComes(step, h)'
  BY <1>7, <1>10
<1>14. \A s \in Requests : \A g :
          (s # r /\ g = req[s].with /\ req[s].step \in RunSteps /\ Lone(req[s]) /\ RunHeld(y)')
          => Catches(step, h, g)'
  BY <1>8, <1>10
<1>15. \A s \in Requests : \A st, k :
          (s # r /\ st = req[s].step /\ k = req[s].with /\ RunHeld(req[s]) /\ Current(k)' /\ step \in RunSteps /\ Lone(y))
          => Catches(st, k, h)'
  BY <1>9
<1> QED
  BY <1>10, <1>11, <1>12, <1>13, <1>14, <1>15, OwnStep

LEMMA AskSyncKeeps == ASSUME SyncInv, NEW r \in Requests, AskSync(r) PROVE SyncInv'
<1>1. SyncTables /\ Past /\ req \in [Requests -> SyncRequest]
  BY DEF SyncInv, SyncTyped
<1>2. PICK p \in Linked : link[p].on /\ Ask(r, "sync", "fetch", Sync(p, link[p], {})) /\ UNCHANGED syncVars
  BY DEF AskSync
<1>3. PICK l \in SyncRow : l = link[p]
  BY <1>1, LinkType
<1>4. PICK h : h = Sync(p, l, {})
  OBVIOUS
<1>5. h \in RunData
  BY <1>1, <1>4, SyncType
<1>6. PICK y \in SyncRequest : SyncTurned(r, y, {}) /\ y.op = "sync" /\ y.step = "fetch" /\ y.with = h
  <2>1. h \in SyncHolds /\ "fetch" \in SyncSteps
    BY <1>5, SyncHoldsFacts DEF RunSteps
  <2>2. Ask(r, "sync", "fetch", h)
    BY <1>2, <1>3, <1>4
  <2> QED
    BY <1>1, <2>1, <2>2, SyncAsks
<1>7. LinkMoves /\ link' = link
  BY <1>1, <1>2, SameSyncVars DEF syncVars
<1>8. l.id \in Nat /\ l.last \in Int
  BY DEF SyncRow
<1> QED
  BY <1>3, <1>4, <1>6, <1>7, <1>8, Begins

LEMMA AskImportKeeps == ASSUME SyncInv, NEW r \in Requests, AskImport(r) PROVE SyncInv'
<1>1. SyncTables /\ Past /\ req \in [Requests -> SyncRequest]
  BY DEF SyncInv, SyncTyped
<1>2. PICK p \in Linked :
        /\ Ask(r, "import", "fetch", Sync(p, NewLink(link[p]), {}))
        /\ link' = [link EXCEPT ![p] = NewLink(@)] /\ missed' = [missed EXCEPT ![p] = {}]
        /\ UNCHANGED <<service, minute, remote, copy, manual>>
  BY DEF AskImport
<1>3. LinkMoves /\ NewLink(link[p]) \in SyncRow /\ link'[p] = NewLink(link[p])
  BY <1>1, <1>2, NewLinkMoves
<1>4. PICK l \in SyncRow : l = NewLink(link[p]) /\ link'[p] = l
  BY <1>3
<1>5. PICK h : h = Sync(p, l, {})
  OBVIOUS
<1>6. h \in RunData
  BY <1>1, <1>5, SyncType
<1>7. PICK y \in SyncRequest : SyncTurned(r, y, {}) /\ y.op = "import" /\ y.step = "fetch" /\ y.with = h
  <2>1. h \in SyncHolds /\ "fetch" \in SyncSteps
    BY <1>6, SyncHoldsFacts DEF RunSteps
  <2>2. Ask(r, "import", "fetch", h)
    BY <1>2, <1>4, <1>5
  <2> QED
    BY <1>1, <2>1, <2>2, SyncAsks
<1>8. l.id \in Nat /\ l.last \in Int
  BY DEF SyncRow
<1> QED
  BY <1>3, <1>4, <1>5, <1>7, <1>8, Begins

LEMMA NextScheduledKeeps == ASSUME SyncInv, NEW r \in Requests, NextScheduled(r) PROVE SyncInv'
<1>1. SyncTables /\ Past /\ req \in [Requests -> SyncRequest]
  BY DEF SyncInv, SyncTyped
<1>2. PICK w : w = req[r].with
  OBVIOUS
<1>3. PICK d \in w.due : GoOn(r, "fetch", Sync(d[1], d[2], w.due \ {d})) /\ UNCHANGED syncVars
                         /\ req[r].op = "schedule" /\ req[r].step = "next"
  BY <1>2 DEF NextScheduled, At
<1>4. w \in LeftData /\ \A e \in w.due : KnownRow(e)
  BY <1>2, <1>3 DEF SyncInv, AllWellRun, WellRun
<1>5. PICK due \in SUBSET (Linked \X SyncRow) : due = w.due \ {d}
  BY <1>4 DEF LeftData
<1>6. PICK p \in Linked, l \in SyncRow : p = d[1] /\ l = d[2]
  BY <1>3, <1>4 DEF LeftData
<1>7. PICK h : h = Sync(p, l, due)
  OBVIOUS
<1>8. h \in RunData
  BY <1>1, <1>7, SyncType
<1>9. PICK y \in SyncRequest : SyncTurned(r, y, {}) /\ y.op = "schedule" /\ y.step = "fetch" /\ y.with = h
  <2>1. h \in SyncHolds /\ "fetch" \in SyncSteps
    BY <1>8, SyncHoldsFacts DEF RunSteps
  <2>2. GoOn(r, "fetch", h)
    BY <1>3, <1>5, <1>6, <1>7
  <2> QED
    BY <1>1, <1>3, <2>1, <2>2, SyncGoesOn
<1>10. LinkMoves /\ link' = link
  BY <1>1, <1>3, SameSyncVars DEF syncVars
<1>11. KnownRow(d)
  BY <1>3, <1>4
<1>12. l.id <= link'[p].id /\ (link'[p].on /\ link'[p].id = l.id => l.last <= link'[p].last)
  BY <1>6, <1>10, <1>11 DEF KnownRow
<1>13. \A e \in due : KnownRow(e)'
  BY <1>4, <1>5, <1>10 DEF KnownRow
<1> QED
  BY <1>7, <1>9, <1>10, <1>12, <1>13, Begins

LEMMA AskScheduleKeeps == ASSUME SyncInv, NEW r \in Requests, AskSchedule(r) PROVE SyncInv'
<1>1. SyncTables /\ Past /\ req \in [Requests -> SyncRequest]
  BY DEF SyncInv, SyncTyped
<1>2. PICK due : due = {<<p, link[p]>> : p \in {p \in Linked : Due(p)}}
  OBVIOUS
<1>3. due \in SUBSET (Linked \X SyncRow)
  BY <1>1, <1>2, LinkType
<1>4. ASSUME NEW d \in due PROVE KnownRow(d)
  <2>1. PICK p \in Linked : d = <<p, link[p]>>
    BY <1>2
  <2>2. link[p].id \in Nat /\ link[p].last \in Int
    BY <1>1, LinkType
  <2> QED
    BY <2>1, <2>2 DEF KnownRow
<1>5. PICK h : h = [due |-> due]
  OBVIOUS
<1>6. h \in LeftData
  BY <1>3, <1>5 DEF LeftData
<1>7. Ask(r, "schedule", "next", h) /\ UNCHANGED syncVars
  BY <1>2, <1>5 DEF AskSchedule
<1>8. PICK y \in SyncRequest : SyncTurned(r, y, {}) /\ y.op = "schedule" /\ y.step = "next" /\ y.with = h
  <2>1. h \in SyncHolds /\ "next" \in SyncSteps
    BY <1>6, SyncHoldsFacts
  <2> QED
    BY <1>1, <1>7, <2>1, SyncAsks
<1>9. LinkMoves /\ link' = link
  BY <1>1, <1>7, SameSyncVars DEF syncVars
<1>10. WellRun("schedule", "next", h)'
  <2>1. \A d \in h.due : KnownRow(d)'
    BY <1>4, <1>5, <1>9 DEF KnownRow
  <2> QED
    BY <1>6, <2>1 DEF WellRun, RunSteps
<1>11. "next" \notin RunSteps /\ ~RunHeld(y)'
  BY <1>8 DEF RunSteps, RunHeld
<1>12. PICK o, step : o = y.op /\ step = "next"
  OBVIOUS
<1>13. WellRun(o, step, h)' /\ step \notin RunSteps
  BY <1>8, <1>10, <1>11, <1>12
<1> QED
  BY <1>8, <1>9, <1>11, <1>12, <1>13, OwnStep

-----------------------------------------------------------------------------
\* A step that reads: no table changes.

LEMMA NothingMoves ==
  ASSUME UNCHANGED syncVars, NEW o, NEW step, NEW h
  PROVE  /\ WellRun(o, step, h)' <=> WellRun(o, step, h)
         /\ FreshRun(step, h)' <=> FreshRun(step, h)
         /\ PageHeld(h)' <=> PageHeld(h)
         /\ RestComes(step, h)' <=> RestComes(step, h)
         /\ Current(h)' <=> Current(h)
         /\ \A g : Catches(step, h, g)' <=> Catches(step, h, g)
<1>1. UNCHANGED <<service, minute, remote, copy, manual, link, missed>>
  BY DEF syncVars
<1>2. WellRun(o, step, h)' <=> WellRun(o, step, h)
  BY <1>1 DEF WellRun, RunOK, KnownRow, Current
<1>3. FreshRun(step, h)' <=> FreshRun(step, h)
  BY <1>1 DEF FreshRun, TaskNumbers, Found, Copied
<1>4. \A e : AsRead(e)' <=> AsRead(e)
  BY <1>1 DEF AsRead
<1>5. \A i : Recent(h, i)' <=> Recent(h, i)
  BY <1>1 DEF Recent
<1>6. PageHeld(h)' <=> PageHeld(h)
  BY <1>4, <1>5 DEF PageHeld
<1>7. \A i : (Coming(step, h, i)' <=> Coming(step, h, i)) /\ (Exists(i)' <=> Exists(i))
  BY <1>1, ListSame
<1>8. Unsynced' = Unsynced
  BY <1>1 DEF Unsynced, Exists, Copied
<1>9. RestComes(step, h)' <=> RestComes(step, h)
  BY <1>1, <1>7, <1>8 DEF RestComes
<1>10. ASSUME NEW g PROVE Catches(step, h, g)' <=> Catches(step, h, g)
  <2>1. \A i : Outdates(g, h, i)' <=> Outdates(g, h, i)
    BY <1>1, <1>4, <1>7 DEF Outdates
  <2> QED
    BY <1>3, <1>7, <2>1 DEF Catches
<1> QED
  BY <1>1, <1>2, <1>3, <1>6, <1>9, <1>10 DEF Current

\* What a sync is, whatever it has read.
SameRun(h, g) ==
  /\ h.p = g.p /\ h.id = g.id /\ h.last = g.last /\ h.number = g.number /\ h.begun = g.begun /\ h.due = g.due

LEMMA ReadStep ==
  ASSUME SyncInv, NEW r \in Requests, NEW y, SyncTurned(r, y, {}), UNCHANGED syncVars,
         NEW st, NEW g, st = req[r].step, g = req[r].with, st \in RunSteps,
         NEW step, NEW h, y.op = req[r].op, y.step = step, y.with = h, y.over = req[r].over,
         step \in RunSteps, h \in RunData, SameRun(h, g), step \in {"fetch", "done"} => h.page = <<>>,
         FreshRun(st, g) => FreshRun(step, h), PageHeld(g) => PageHeld(h),
         \A i \in Issues : Coming(st, g, i) => Coming(step, h, i),
         \A k : \A i \in Issues : Outdates(h, k, i) => Outdates(g, k, i)
  PROVE  SyncInv'
<1>1. SyncTyped /\ SyncTables /\ Past /\ AllWellRun
  BY DEF SyncInv, SyncTyped
<1>2. LinkMoves
  BY <1>1, SameSyncVars
<1>3. PICK o : o = y.op
  OBVIOUS
<1>4. WellRun(o, st, g) /\ g \in RunData
  BY <1>1, <1>3 DEF AllWellRun, WellRun
<1>5. WellRun(o, step, h)
  <2>1. RunOK(h)
    BY <1>4 DEF WellRun, RunOK, SameRun, Current
  <2>2. step # "" /\ st # "" /\ step # "next"
    BY DEF RunSteps
  <2> QED
    BY <1>4, <2>1, <2>2 DEF WellRun, SameRun
<1>6. step \in RunSteps /\ Lone(y) => FreshRun(step, h) /\ PageHeld(h)
  BY DEF SyncInv, LoneFresh, Lone
<1>7. RunHeld(y) => RunHeld(req[r])
  BY DEF RunHeld, Current, SameRun
<1>8. RunHeld(y) => RestComes(step, h)
  <2> SUFFICES ASSUME RunHeld(y), NEW i \in Unsynced
               PROVE  remote[i].updated >= h.begun \/ i \in missed[h.p] \/ Coming(step, h, i)
    BY DEF RestComes
  <2>1. RestComes(st, g)
    BY <1>7 DEF SyncInv, RestHeld
  <2>2. i \in Issues
    BY DEF Unsynced
  <2> QED
    BY <2>1, <2>2 DEF RestComes, SameRun
<1>9. ASSUME NEW s \in Requests, NEW k, s # r, k = req[s].with, req[s].step \in RunSteps, Lone(req[s]), RunHeld(y)
      PROVE  Catches(step, h, k)
  <2> SUFFICES ASSUME NEW i \in Issues, Outdates(k, h, i) PROVE FreshRun(step, h) /\ Coming(step, h, i)
    BY DEF Catches
  <2>1. Catches(st, g, k)
    BY <1>7, <1>9 DEF SyncInv, Caught
  <2>2. Outdates(k, g, i)
    BY DEF Outdates, SameRun
  <2> QED
    BY <2>1, <2>2 DEF Catches
<1>10. ASSUME NEW s \in Requests, NEW sk, NEW k, s # r, sk = req[s].step, k = req[s].with, RunHeld(req[s]), Lone(y)
       PROVE  Catches(sk, k, h)
  <2> SUFFICES ASSUME NEW i \in Issues, Outdates(h, k, i) PROVE FreshRun(sk, k) /\ Coming(sk, k, i)
    BY DEF Catches
  <2>1. Lone(req[r])
    BY <1>10 DEF Lone
  <2>2. Catches(sk, k, g)
    BY <1>10, <2>1 DEF SyncInv, Caught
  <2> QED
    BY <2>2 DEF Catches
<1>11. RunHeld(y)' <=> RunHeld(y)
  BY NothingMoves DEF RunHeld
<1>12. \A s \in Requests : \A k :
          (s # r /\ k = req[s].with /\ req[s].step \in RunSteps /\ Lone(req[s]) /\ RunHeld(y)')
          => Catches(step, h, k)'
  BY <1>9, <1>11, NothingMoves
<1>13. \A s \in Requests : \A sk, k :
          (s # r /\ sk = req[s].step /\ k = req[s].with /\ RunHeld(req[s]) /\ Current(k)' /\ step \in RunSteps /\ Lone(y))
          => Catches(sk, k, h)'
  BY <1>10, NothingMoves
<1>14. WellRun(o, step, h)'
  BY <1>5, NothingMoves
<1>15. step \in RunSteps /\ Lone(y) => FreshRun(step, h)' /\ PageHeld(h)'
  BY <1>6, NothingMoves
<1>16. RunHeld(y)' => RestComes(step, h)'
  BY <1>8, <1>11, NothingMoves
<1> QED
  BY <1>2, <1>3, <1>12, <1>13, <1>14, <1>15, <1>16, OwnStep

\* The steps of a sync, of whatever operation.
LEMMA SyncingRun ==
  ASSUME SyncInv, NEW r \in Requests, NEW st, Syncing(r, st), st \in RunSteps
  PROVE  /\ req[r].step = st /\ req[r].with \in RunData /\ req[r] \in SyncRequest
         /\ req[r].op \in SyncOps /\ req[r].op \in Overtakers /\ req[r].op # "remoteDelete"
         /\ st \in {"fetch", "done"} => req[r].with.page = <<>>
<1>1. req[r].step = st /\ req[r].op \in {"sync", "schedule", "import"}
  BY DEF Syncing
<1>2. WellRun(req[r].op, st, req[r].with) /\ req[r] \in SyncRequest
  BY <1>1 DEF SyncInv, AllWellRun, SyncTyped
<1> QED
  BY <1>1, <1>2 DEF WellRun, SyncOps, Overtakers, RunSteps

LEMMA MatchTasksKeeps == ASSUME SyncInv, NEW r \in Requests, MatchTasks(r) PROVE SyncInv'
<1>1. SyncTables /\ req \in [Requests -> SyncRequest] /\ Syncing(r, "match") /\ UNCHANGED syncVars
  BY DEF SyncInv, SyncTyped, MatchTasks
<1>2. PICK g : g = req[r].with
  OBVIOUS
<1>3. g \in RunData /\ req[r].step = "match"
  BY <1>1, <1>2, SyncingRun DEF RunSteps
<1>4. PICK F : F = {<<i, copy[i].project>> : i \in {i \in BatchIssues(g) : Copied(i)}}
  OBVIOUS
<1>5. BatchIssues(g) \in SUBSET Issues
  BY <1>3, RunDataParts
<1>6. F \in SUBSET Copies
  BY <1>1, <1>4, <1>5 DEF SyncTables, Copies
<1>7. PICK h : h = [g EXCEPT !.found = F]
  OBVIOUS
<1>8. h \in RunData /\ SameRun(h, g) /\ h.page = g.page /\ h.at = g.at /\ h.found = F
  BY <1>3, <1>6, <1>7 DEF RunData, SameRun
<1>9. GoOn(r, "write", h)
  BY <1>2, <1>4, <1>7 DEF MatchTasks
<1>10. PICK y \in SyncRequest : SyncTurned(r, y, {}) /\ y.op = req[r].op /\ y.step = "write" /\ y.with = h
                                /\ y.over = req[r].over
  <2>1. h \in SyncHolds /\ "write" \in SyncSteps
    BY <1>8, SyncHoldsFacts DEF RunSteps
  <2> QED
    BY <1>1, <1>9, <2>1, SyncGoesOn
<1>11. BatchIssues(h) = BatchIssues(g)
  BY <1>8 DEF BatchIssues
<1>12. ASSUME FreshRun("match", g) PROVE FreshRun("write", h)
  <2>1. ASSUME NEW i \in BatchIssues(h) PROVE Found(h, i) <=> Copied(i)
    <3>1. i \in BatchIssues(g)
      BY <1>11
    <3>2. ASSUME Copied(i) PROVE \E f \in F : f[1] = i
      <4>1. <<i, copy[i].project>> \in F
        BY <1>4, <3>1, <3>2
      <4> QED
        BY <4>1
    <3>3. ASSUME NEW f \in F, f[1] = i PROVE Copied(i)
      BY <1>4, <3>3
    <3> QED
      BY <1>8, <3>2, <3>3 DEF Found
  <2> QED
    BY <1>8, <1>12, <2>1 DEF FreshRun, SameRun
<1>13. PageHeld(g) => PageHeld(h)
  BY <1>8 DEF PageHeld, Recent, SameRun
<1>14. ASSUME NEW i \in Issues PROVE Coming("match", g, i) => Coming("write", h, i)
  BY <1>8, <1>11 DEF Coming, Listed, ChangedSince, CardsBefore, SameRun
<1>15. \A k : \A i \in Issues : Outdates(h, k, i) => Outdates(g, k, i)
  BY <1>8 DEF Outdates
<1> QED
  BY <1>1, <1>2, <1>3, <1>8, <1>10, <1>12, <1>13, <1>14, <1>15, ReadStep DEF RunSteps

\* A sync that fetches a page and what it holds then.
PageOf(page) == [n \in DOMAIN page |-> [i |-> page[n], ver |-> remote[page[n]].ver,
                                        closed |-> remote[page[n]].closed]]
AtAfter(g, page) == IF service = "jira" THEN g.at + Len(page) ELSE Last(page)

LEMMA PageOfType ==
  ASSUME SyncTables, NEW page \in Seq(Issues)
  PROVE  /\ PageOf(page) \in Seq(PageEntry) /\ DOMAIN PageOf(page) = DOMAIN page
         /\ \A n \in DOMAIN page : PageOf(page)[n].i = page[n] /\ AsRead(PageOf(page)[n])
<1>1. PICK k \in Nat : k = Len(page) /\ DOMAIN page = 1 .. k
  OBVIOUS
<1>2. ASSUME NEW n \in 1 .. k
      PROVE  /\ PageOf(page)[n] \in PageEntry
             /\ PageOf(page)[n].i = page[n] /\ AsRead(PageOf(page)[n])
  <2>1. PICK i \in Issues : i = page[n]
    BY <1>1
  <2>2. PICK v \in Nat, c \in BOOLEAN : v = remote[i].ver /\ c = remote[i].closed
    BY IssueRow
  <2>3. PageOf(page)[n] = [i |-> i, ver |-> v, closed |-> c]
    BY <1>1, <2>1, <2>2, Zenon DEF PageOf
  <2>4. PICK e : e = [i |-> i, ver |-> v, closed |-> c]
    OBVIOUS
  <2>5. e \in PageEntry /\ e.i = i /\ e.ver = v
    BY <2>4 DEF PageEntry
  <2>6. e.closed = c
    BY <2>4, Zenon
  <2>7. AsRead(e)
    BY <2>2, <2>5, <2>6, Zenon DEF AsRead
  <2> QED
    BY <2>1, <2>3, <2>4, <2>5, <2>7
<1>3. PageOf(page) \in [1 .. k -> PageEntry]
  BY <1>1, <1>2 DEF PageOf
<1>4. PageOf(page) \in Seq(PageEntry)
  BY <1>3
<1> QED
  BY <1>1, <1>2, <1>3, <1>4

\* Nothing that is to come is lost by going to the next page.
LEMMA FetchMeets ==
  ASSUME SyncTables, NEW g \in RunData, g.page = <<>>, NEW i \in Issues, Coming("fetch", g, i),
         NEW h \in RunData, SameRun(h, g), h.page = PageOf(Page(g)), h.at = AtAfter(g, Page(g))
  PROVE  Page(g) # <<>> /\ Coming("match", h, i)
<1>1. BatchIssues(g) = {}
  <2>1. DOMAIN g.page = {}
    OBVIOUS
  <2> QED
    BY <2>1 DEF BatchIssues
<1>2. Listed(g, i)
  BY <1>1 DEF Coming
<1>3. Page(g) \in Seq(Issues)
  BY PageType
<1>4. ASSUME NEW n \in DOMAIN Page(g), Page(g)[n] = i PROVE i \in BatchIssues(h)
  <2>1. n \in DOMAIN h.page /\ h.page[n].i = i
    BY <1>3, <1>4, PageOfType
  <2> QED
    BY <2>1 DEF BatchIssues
<1>5. CASE service = "jira"
  <2>1. i \in ChangedSince(g) /\ Cardinality(Older(ChangedSince(g), i)) >= g.at /\ Page(g) = JiraPage(g)
    BY <1>2, <1>5 DEF Listed, Page
  <2>2. /\ JiraPage(g) # <<>>
        /\ \/ \E n \in DOMAIN JiraPage(g) : JiraPage(g)[n] = i
           \/ Cardinality(Older(ChangedSince(g), i)) >= g.at + Len(JiraPage(g))
    BY <2>1, JiraMeets
  <2>3. CASE \E n \in DOMAIN JiraPage(g) : JiraPage(g)[n] = i
    BY <1>4, <2>1, <2>2, <2>3 DEF Coming
  <2>4. CASE Cardinality(Older(ChangedSince(g), i)) >= g.at + Len(JiraPage(g))
    <3>1. ChangedSince(h) = ChangedSince(g)
      BY DEF ChangedSince, SameRun
    <3>2. h.at = g.at + Len(JiraPage(g))
      BY <1>5, <2>1 DEF AtAfter
    <3>3. Listed(h, i)
      BY <1>5, <2>1, <2>4, <3>1, <3>2 DEF Listed
    <3> QED
      BY <2>1, <2>2, <3>3 DEF Coming
  <2> QED
    BY <2>2, <2>3, <2>4
<1>6. CASE service # "jira"
  <2>1. i \in CardsBefore(g) /\ Page(g) = TrelloPage(g) /\ h.at = Last(TrelloPage(g))
    BY <1>2, <1>6 DEF Listed, Page, AtAfter
  <2>2. /\ TrelloPage(g) # <<>>
        /\ (\E n \in DOMAIN TrelloPage(g) : TrelloPage(g)[n] = i) \/ i < Last(TrelloPage(g))
    BY <2>1, TrelloMeets
  <2>3. CASE \E n \in DOMAIN TrelloPage(g) : TrelloPage(g)[n] = i
    BY <1>4, <2>1, <2>2, <2>3 DEF Coming
  <2>4. CASE i < Last(TrelloPage(g))
    <3>1. Exists(i)
      BY <2>1 DEF CardsBefore
    <3>2. i \in CardsBefore(h)
      BY <2>1, <2>4, <3>1 DEF CardsBefore
    <3> QED
      BY <1>6, <2>1, <2>2, <3>2 DEF Coming, Listed
  <2> QED
    BY <2>2, <2>3, <2>4
<1> QED
  BY <1>5, <1>6

LEMMA FetchPageKeeps == ASSUME SyncInv, NEW r \in Requests, FetchPage(r) PROVE SyncInv'
<1>1. SyncTables /\ req \in [Requests -> SyncRequest] /\ Syncing(r, "fetch") /\ UNCHANGED syncVars
  BY DEF SyncInv, SyncTyped, FetchPage
<1>2. PICK g : g = req[r].with
  OBVIOUS
<1>3. g \in RunData /\ req[r].step = "fetch" /\ g.page = <<>>
  BY <1>1, <1>2, SyncingRun DEF RunSteps
<1>4. PICK page \in Seq(Issues) : page = Page(g)
  BY <1>1, <1>3, PageType
<1>5. g.at \in Nat /\ SameRun(g, g)
  BY <1>3, RunDataParts DEF SameRun
<1>6. PICK P \in Seq(PageEntry) : P = PageOf(page)
  BY <1>1, PageOfType
<1>7. CASE page = <<>>
  <2>1. GoOn(r, "done", g)
    BY <1>2, <1>4, <1>7 DEF FetchPage
  <2>2. PICK y \in SyncRequest : SyncTurned(r, y, {}) /\ y.op = req[r].op /\ y.step = "done" /\ y.with = g
                                 /\ y.over = req[r].over
    <3>1. g \in SyncHolds /\ "done" \in SyncSteps
      BY <1>3, SyncHoldsFacts DEF RunSteps
    <3> QED
      BY <1>1, <2>1, <3>1, SyncGoesOn
  <2>3. FreshRun("fetch", g) => FreshRun("done", g)
    BY DEF FreshRun
  <2>4. ASSUME NEW i \in Issues, Coming("fetch", g, i) PROVE FALSE
    <3>1. DOMAIN g.page = {}
      BY <1>3
    <3>2. Listed(g, i)
      BY <2>4, <3>1 DEF Coming, BatchIssues
    <3>3. Page(g) # <<>>
      BY <1>3, <3>2, JiraMeets, TrelloMeets DEF Listed, Page
    <3> QED
      BY <1>4, <1>7, <3>3
  <2> QED
    BY <1>1, <1>2, <1>3, <1>5, <2>2, <2>3, <2>4, ReadStep DEF RunSteps
<1>8. CASE page # <<>>
  <2>1. PICK a \in Nat : a = AtAfter(g, page)
    <3>1. Last(page) \in Issues /\ Len(page) \in Nat
      <4>1. PICK k \in Nat : k = Len(page)
        OBVIOUS
      <4>2. k # 0
        BY <1>8, <4>1, EmptySeq
      <4>3. page[k] \in Issues
        BY <4>1, <4>2
      <4> QED
        BY <4>1, <4>3 DEF Last
    <3> QED
      <4>1. PICK k \in Nat : k = Len(page)
        BY <3>1
      <4>2. PICK l \in Nat : l = Last(page)
        BY <3>1, IssuesFacts
      <4>3. AtAfter(g, page) = IF service = "jira" THEN g.at + k ELSE l
        BY <4>1, <4>2 DEF AtAfter
      <4>4. PICK b \in Nat : b = g.at + k
        BY <1>5, <4>1
      <4> QED
        BY <4>2, <4>3, <4>4
  <2>2. PICK h : h = [g EXCEPT !.page = P, !.at = a]
    OBVIOUS
  <2>3. h \in RunData /\ SameRun(h, g) /\ h.page = P /\ h.at = a
    <3>1. PICK k : k = [g EXCEPT !.page = P]
      OBVIOUS
    <3>2. k \in RunData /\ SameRun(k, g) /\ k.page = P
      BY <1>3, <3>1 DEF RunData, SameRun
    <3>3. [k EXCEPT !.at = a] \in RunData /\ SameRun([k EXCEPT !.at = a], k) /\ [k EXCEPT !.at = a].page = P
          /\ [k EXCEPT !.at = a].at = a
      BY <3>2 DEF RunData, SameRun
    <3>4. h = [k EXCEPT !.at = a]
      BY <2>2, <3>1, Zenon
    <3> QED
      BY <3>2, <3>3, <3>4 DEF SameRun
  <2>4. GoOn(r, "match", h)
    <3>1. GoOn(r, "match", [g EXCEPT !.page = [n \in DOMAIN page |-> [i |-> page[n], ver |-> remote[page[n]].ver,
                                                             closed |-> remote[page[n]].closed]],
                            !.at = IF service = "jira" THEN @ + Len(page) ELSE Last(page)])
      BY <1>2, <1>4, <1>8, Zenon DEF FetchPage
    <3>2. [g EXCEPT !.page = P, !.at = IF service = "jira" THEN @ + Len(page) ELSE Last(page)] = h
      BY <2>1, <2>2, Zenon DEF AtAfter
    <3> QED
      BY <1>6, <3>1, <3>2, Zenon DEF PageOf
  <2>5. PICK y \in SyncRequest : SyncTurned(r, y, {}) /\ y.op = req[r].op /\ y.step = "match" /\ y.with = h
                                 /\ y.over = req[r].over
    <3>1. h \in SyncHolds /\ "match" \in SyncSteps
      BY <2>3, SyncHoldsFacts DEF RunSteps
    <3> QED
      BY <1>1, <2>4, <3>1, SyncGoesOn
  <2>6. FreshRun("fetch", g) => FreshRun("match", h)
    BY <2>3 DEF FreshRun, SameRun
  <2>7. \A n \in DOMAIN h.page : AsRead(h.page[n])
    BY <1>1, <1>6, <2>3, PageOfType
  <2>8. PageHeld(h) /\ \A k : \A i \in Issues : ~Outdates(h, k, i)
    BY <2>7 DEF PageHeld, Outdates
  <2>9. ASSUME NEW i \in Issues, Coming("fetch", g, i) PROVE Coming("match", h, i)
    BY <1>1, <1>3, <1>4, <1>6, <2>1, <2>3, <2>9, FetchMeets
  <2> QED
    BY <1>1, <1>2, <1>3, <2>3, <2>5, <2>6, <2>8, <2>9, ReadStep DEF RunSteps
<1> QED
  BY <1>7, <1>8

-----------------------------------------------------------------------------
\* A batch that is written.

LEMMA NumberedCount ==
  ASSUME NEW h \in RunData
  PROVE  /\ Cardinality(Numbered(h)) \in Nat /\ Numbered(h) \in SUBSET (DOMAIN h.page)
         /\ \A n \in Numbered(h) : /\ NumberOf(h, n) \in Nat /\ NumberOf(h, n) > h.number
                                   /\ NumberOf(h, n) <= h.number + Cardinality(Numbered(h))
<1>1. PICK k \in Nat : DOMAIN h.page = 1 .. k
  BY RunDataParts
<1>2. IsFiniteSet(1 .. k)
  <2>1. 1 \in Int /\ k \in Int
    OBVIOUS
  <2> QED
    BY <2>1, FS_Interval, Zenon
<1>3. Numbered(h) \in SUBSET (1 .. k)
  BY <1>1 DEF Numbered
<1>4. IsFiniteSet(Numbered(h)) /\ Cardinality(Numbered(h)) \in Nat
  BY <1>2, <1>3, FS_Subset, FS_CardinalityType
<1>5. ASSUME NEW n \in Numbered(h)
      PROVE  /\ NumberOf(h, n) \in Nat /\ NumberOf(h, n) > h.number
             /\ NumberOf(h, n) <= h.number + Cardinality(Numbered(h))
  <2>1. PICK S : S = {m \in Numbered(h) : m <= n}
    OBVIOUS
  <2>2. n \in Nat /\ n \in S /\ S \subseteq Numbered(h)
    BY <1>3, <2>1
  <2>3. IsFiniteSet(S) /\ Cardinality(S) <= Cardinality(Numbered(h)) /\ Cardinality(S) \in Nat
    BY <1>4, <2>2, FS_Subset, FS_CardinalityType
  <2>4. Cardinality(S) # 0
    BY <2>2, <2>3, FS_EmptySet
  <2>5. PICK a \in Nat, b \in Nat, c \in Nat : a = h.number /\ b = Cardinality(S) /\ c = Cardinality(Numbered(h))
    BY <1>4, <2>3, RunDataParts
  <2>6. NumberOf(h, n) = a + b
    BY <2>1, <2>5 DEF NumberOf
  <2> QED
    BY <2>3, <2>4, <2>5, <2>6
<1> QED
  BY <1>1, <1>3, <1>4, <1>5

\* A batch nobody overtook is accepted.
LEMMA FreshAccepted ==
  ASSUME SyncTables, NEW h \in RunData, FreshRun("write", h)
  PROVE  Accepted(h)
<1> SUFFICES ASSUME NEW n \in DOMAIN h.page, NEW i, i = h.page[n].i
             PROVE  /\ Found(h, i) => Copied(i)
                    /\ n \in Numbered(h) => /\ Copied(i) => Found(h, i)
                                            /\ NumberOf(h, n) \notin TaskNumbers(h.p)
  BY DEF Accepted
<1>1. Found(h, i) <=> Copied(i)
  BY DEF FreshRun, BatchIssues
<1>2. ASSUME n \in Numbered(h) PROVE NumberOf(h, n) \notin TaskNumbers(h.p)
  <2>1. PICK a \in Nat, b \in Nat : a = h.number /\ b = NumberOf(h, n) /\ b > a
    BY <1>2, NumberedCount, RunDataParts
  <2>2. \A m \in TaskNumbers(h.p) : m <= a
    BY <2>1 DEF FreshRun
  <2> QED
    BY <2>1, <2>2
<1> QED
  BY <1>1, <1>2

\* What a task of a batch becomes.
LEMMA WrittenTask ==
  ASSUME SyncTables, NEW h \in RunData, NEW i \in Issues
  PROVE  \/ Written(h)[i] = copy[i]
              /\ (i \in BatchIssues(h) => ~Found(h, i) /\ \E n \in DOMAIN h.page : h.page[n].i = i /\ n \notin Numbered(h))
         \/ \E n \in DOMAIN h.page : /\ h.page[n].i = i
              /\ \/ n \in Numbered(h)
                      /\ Written(h)[i] = [project |-> h.p, ver |-> h.page[n].ver, number |-> NumberOf(h, n)]
                 \/ Written(h)[i] = [copy[i] EXCEPT !.ver = h.page[n].ver]
<1>1. CASE i \notin BatchIssues(h)
  BY <1>1 DEF Written
<1>2. CASE i \in BatchIssues(h)
  <2>1. PICK n : n = CHOOSE m \in DOMAIN h.page : h.page[m].i = i
    OBVIOUS
  <2>2. n \in DOMAIN h.page /\ h.page[n].i = i
    BY <1>2, <2>1 DEF BatchIssues
  <2>3. Written(h)[i] = IF n \in Numbered(h)
                          THEN [project |-> h.p, ver |-> h.page[n].ver, number |-> NumberOf(h, n)]
                        ELSE IF Found(h, i) THEN [copy[i] EXCEPT !.ver = h.page[n].ver]
                        ELSE copy[i]
    BY <1>2, <2>1 DEF Written
  <2> QED
    BY <2>2, <2>3
<1> QED
  BY <1>1, <1>2

CopyRow == [project : Linked \union {NoData}, ver : Nat, number : Nat]

LEMMA NewCopy ==
  ASSUME NEW p \in Linked, NEW v \in Nat, NEW n \in Nat, NEW t, t = [project |-> p, ver |-> v, number |-> n]
  PROVE  t \in CopyRow /\ t.project = p /\ t.ver = v /\ t.number = n
BY DEF CopyRow

LEMMA SameCopy ==
  ASSUME NEW c \in CopyRow, NEW v \in Nat, NEW t, t = [c EXCEPT !.ver = v]
  PROVE  t \in CopyRow /\ t.project = c.project /\ t.ver = v /\ t.number = c.number
BY DEF CopyRow

\* A batch written: the types, the numbers, and what is left behind.
LEMMA WrittenType ==
  ASSUME SyncTables, NEW h \in RunData
  PROVE  Written(h) \in [Issues -> CopyRow]
<1>1. ASSUME NEW i \in Issues PROVE Written(h)[i] \in CopyRow
  <2>1. copy[i] \in CopyRow
    BY DEF SyncTables, CopyRow
  <2>2. CASE Written(h)[i] = copy[i]
    BY <2>1, <2>2
  <2>3. CASE Written(h)[i] # copy[i]
    <3>1. PICK n \in DOMAIN h.page :
             \/ n \in Numbered(h)
                  /\ Written(h)[i] = [project |-> h.p, ver |-> h.page[n].ver, number |-> NumberOf(h, n)]
             \/ Written(h)[i] = [copy[i] EXCEPT !.ver = h.page[n].ver]
      BY <2>3, WrittenTask
    <3>2. PICK v \in Nat : v = h.page[n].ver
      BY RunDataParts
    <3>3. h.p \in Linked
      BY RunDataParts
    <3>4. CASE n \in Numbered(h) /\ Written(h)[i] = [project |-> h.p, ver |-> v, number |-> NumberOf(h, n)]
      <4>1. NumberOf(h, n) \in Nat
        BY <3>4, NumberedCount
      <4> QED
        BY <3>3, <3>4, <4>1, NewCopy
    <3>5. CASE Written(h)[i] = [copy[i] EXCEPT !.ver = v]
      BY <2>1, <3>5, SameCopy
    <3> QED
      BY <3>1, <3>2, <3>4, <3>5
  <2> QED
    BY <2>2, <2>3
<1>2. Written(h) = [i \in Issues |-> Written(h)[i]]
  BY DEF Written
<1> QED
  BY <1>1, <1>2

LEMMA WrittenNumbers ==
  ASSUME SyncTables, NEW h \in RunData, FreshRun("write", h), copy' = Written(h), UNCHANGED manual
  PROVE  \A m \in TaskNumbers(h.p)' : m <= h.number + Cardinality(Numbered(h))
<1>1. PICK a \in Nat, c \in Nat : a = h.number /\ c = Cardinality(Numbered(h))
  BY NumberedCount, RunDataParts
<1>2. \A m \in TaskNumbers(h.p) : m <= a
  BY <1>1 DEF FreshRun
<1> SUFFICES ASSUME NEW m \in TaskNumbers(h.p)' PROVE m <= a + c
  BY <1>1
<1>3. h.p \in Linked
  BY RunDataParts
<1>4. CASE m \in manual[h.p]
  <2>1. m \in TaskNumbers(h.p) /\ m \in Nat
    BY <1>3, <1>4 DEF TaskNumbers, SyncTables
  <2> QED
    BY <1>2, <2>1
<1>5. CASE m \notin manual[h.p]
  <2>1. PICK i \in Issues : copy'[i].project = h.p /\ m = copy'[i].number
    BY <1>5 DEF TaskNumbers
  <2>2. copy[i] \in CopyRow
    BY DEF SyncTables, CopyRow
  <2>3. ASSUME copy[i].project = h.p, m = copy[i].number PROVE m <= a + c
    <3>1. m \in TaskNumbers(h.p) /\ m \in Nat
      BY <2>2, <2>3 DEF TaskNumbers, CopyRow
    <3> QED
      BY <1>2, <3>1
  <2>4. CASE Written(h)[i] = copy[i]
    BY <2>1, <2>3, <2>4
  <2>5. CASE Written(h)[i] # copy[i]
    <3>1. PICK n \in DOMAIN h.page :
             \/ n \in Numbered(h)
                  /\ Written(h)[i] = [project |-> h.p, ver |-> h.page[n].ver, number |-> NumberOf(h, n)]
             \/ Written(h)[i] = [copy[i] EXCEPT !.ver = h.page[n].ver]
      BY <2>5, WrittenTask
    <3>2. PICK v \in Nat : v = h.page[n].ver
      BY RunDataParts
    <3>4. CASE n \in Numbered(h) /\ Written(h)[i] = [project |-> h.p, ver |-> v, number |-> NumberOf(h, n)]
      <4>1. NumberOf(h, n) \in Nat /\ NumberOf(h, n) <= a + c
        BY <1>1, <3>4, NumberedCount
      <4>2. copy'[i].number = NumberOf(h, n)
        BY <1>3, <3>4, <4>1, NewCopy
      <4> QED
        BY <2>1, <4>1, <4>2
    <3>5. CASE Written(h)[i] = [copy[i] EXCEPT !.ver = v]
      <4>1. copy'[i].project = copy[i].project /\ copy'[i].number = copy[i].number
        BY <2>2, <3>5, SameCopy
      <4> QED
        BY <2>1, <2>3, <4>1
    <3> QED
      BY <3>1, <3>2, <3>4, <3>5
  <2> QED
    BY <2>4, <2>5
<1> QED
  BY <1>4, <1>5

LEMMA LeftByBatch ==
  ASSUME SyncTables, NEW h \in RunData, FreshRun("write", h), copy' = Written(h), UNCHANGED remote,
         NEW i \in BatchIssues(h), i \in Unsynced'
  PROVE  \E n \in DOMAIN h.page : h.page[n].i = i /\ ~AsRead(h.page[n])
<1>1. i \in Issues
  BY RunDataParts
<1>2. copy'[i].ver # remote[i].ver /\ ~(remote[i].closed /\ ~Copied(i)')
  BY DEF Unsynced
<1>3. copy[i] \in CopyRow
  BY <1>1 DEF SyncTables, CopyRow
<1>4. CASE Written(h)[i] = copy[i] /\ ~Found(h, i) /\ \E n \in DOMAIN h.page : h.page[n].i = i /\ n \notin Numbered(h)
  <2>1. PICK n \in DOMAIN h.page : h.page[n].i = i /\ n \notin Numbered(h)
    BY <1>4
  <2>2. h.page[n].closed
    BY <1>4, <2>1, Zenon DEF Numbered
  <2>3. ~Copied(i)
    BY <1>4 DEF FreshRun
  <2>4. ~Copied(i)'
    BY <1>4, <2>3 DEF Copied
  <2>5. ~remote[i].closed
    BY <1>2, <2>4
  <2>6. ~AsRead(h.page[n])
    BY <2>1, <2>2, <2>5, Zenon DEF AsRead
  <2> QED
    BY <2>1, <2>6
<1>5. ASSUME NEW n \in DOMAIN h.page, h.page[n].i = i,
             \/ n \in Numbered(h)
                  /\ Written(h)[i] = [project |-> h.p, ver |-> h.page[n].ver, number |-> NumberOf(h, n)]
             \/ Written(h)[i] = [copy[i] EXCEPT !.ver = h.page[n].ver]
      PROVE  ~AsRead(h.page[n])
  <2>1. PICK v \in Nat : v = h.page[n].ver
    BY RunDataParts
  <2>2. copy'[i].ver = v
    <3>1. CASE n \in Numbered(h) /\ Written(h)[i] = [project |-> h.p, ver |-> v, number |-> NumberOf(h, n)]
      <4>1. NumberOf(h, n) \in Nat /\ h.p \in Linked
        BY <3>1, NumberedCount, RunDataParts
      <4> QED
        BY <3>1, <4>1, NewCopy
    <3>2. CASE Written(h)[i] = [copy[i] EXCEPT !.ver = v]
      BY <1>3, <3>2, SameCopy
    <3> QED
      BY <1>5, <2>1, <3>1, <3>2
  <2> QED
    BY <1>2, <1>5, <2>1, <2>2 DEF AsRead
<1>6. CASE Written(h)[i] = copy[i]
              /\ (i \in BatchIssues(h) => ~Found(h, i) /\ \E n \in DOMAIN h.page : h.page[n].i = i /\ n \notin Numbered(h))
  BY <1>4, <1>6
<1>7. CASE \E n \in DOMAIN h.page : /\ h.page[n].i = i
              /\ \/ n \in Numbered(h)
                      /\ Written(h)[i] = [project |-> h.p, ver |-> h.page[n].ver, number |-> NumberOf(h, n)]
                 \/ Written(h)[i] = [copy[i] EXCEPT !.ver = h.page[n].ver]
  <2>1. PICK n \in DOMAIN h.page : /\ h.page[n].i = i
              /\ \/ n \in Numbered(h)
                      /\ Written(h)[i] = [project |-> h.p, ver |-> h.page[n].ver, number |-> NumberOf(h, n)]
                 \/ Written(h)[i] = [copy[i] EXCEPT !.ver = h.page[n].ver]
    BY <1>7
  <2>2. ~AsRead(h.page[n])
    BY <1>5, <2>1
  <2> QED
    BY <2>1, <2>2
<1> QED
  BY <1>1, <1>6, <1>7, WrittenTask

LEMMA NextRun ==
  ASSUME NEW h \in RunData, NEW c \in Nat
  PROVE  \E k \in RunData :
           /\ k = [h EXCEPT !.page = <<>>, !.found = {}, !.number = @ + c]
           /\ k.p = h.p /\ k.id = h.id /\ k.last = h.last /\ k.begun = h.begun /\ k.due = h.due /\ k.at = h.at
           /\ k.page = <<>> /\ k.number = h.number + c
<1>1. PICK e : e = <<>> /\ e \in Seq(PageEntry)
  BY EmptySeq
<1>2. PICK n \in Nat : n = h.number + c
  BY RunDataParts
<1>3. PICK a : a = [h EXCEPT !.page = e]
  OBVIOUS
<1>4. a \in RunData /\ a.p = h.p /\ a.id = h.id /\ a.last = h.last /\ a.begun = h.begun /\ a.due = h.due /\ a.at = h.at
      /\ a.page = e /\ a.number = h.number
  BY <1>1, <1>3 DEF RunData
<1>5. PICK b : b = [a EXCEPT !.found = {}]
  OBVIOUS
<1>6. b \in RunData /\ b.p = h.p /\ b.id = h.id /\ b.last = h.last /\ b.begun = h.begun /\ b.due = h.due /\ b.at = h.at
      /\ b.page = e
  BY <1>4, <1>5 DEF RunData
<1>7. PICK k : k = [b EXCEPT !.number = n]
  OBVIOUS
<1>8. k \in RunData /\ k.p = h.p /\ k.id = h.id /\ k.last = h.last /\ k.begun = h.begun /\ k.due = h.due /\ k.at = h.at
      /\ k.page = e /\ k.number = n
  BY <1>6, <1>7 DEF RunData
<1>9. k = [h EXCEPT !.page = <<>>, !.found = {}, !.number = @ + c]
  BY <1>1, <1>2, <1>3, <1>5, <1>7, Zenon
<1> QED
  BY <1>1, <1>2, <1>8, <1>9

LEMMA BatchRefused ==
  ASSUME SyncInv, NEW r \in Requests, NEW h \in RunData, h = req[r].with, req[r].step = "write", ~Accepted(h),
         NEW k \in RunData, k.p = h.p, k.id = h.id, k.last = h.last, k.begun = h.begun, k.due = h.due, k.at = h.at,
         k.page = <<>>, NEW y, SyncTurned(r, y, {}), y.op = req[r].op, y.step = "fetch", y.with = k,
         y.over = req[r].over, UNCHANGED <<service, minute, remote, copy, manual, link>>,
         missed' = IF Lone(req[r]) THEN missed ELSE [missed EXCEPT ![h.p] = @ \union BatchIssues(h)]
  PROVE  SyncInv'
<1>1. SyncTables /\ Past /\ AllWellRun
  BY DEF SyncInv, SyncTyped
<1>2. ~FreshRun("write", h)
  BY <1>1, FreshAccepted
<1>3. ~Lone(req[r])
  BY <1>2 DEF SyncInv, LoneFresh, RunSteps
<1>4. missed' = [missed EXCEPT ![h.p] = @ \union BatchIssues(h)]
  BY <1>3
<1>5. h.p \in Linked /\ BatchIssues(h) \in SUBSET Issues
  BY RunDataParts
<1>6. missed' \in [Linked -> SUBSET Issues] /\ (\A p \in Linked : missed[p] \subseteq missed'[p])
      /\ BatchIssues(h) \subseteq missed'[h.p]
  BY <1>1, <1>4, <1>5 DEF SyncTables
<1>7. SyncTables'
  BY <1>1, <1>6 DEF SyncTables
<1>8. \A p \in Linked : SameLink(p)
  BY <1>6 DEF SameLink
<1>9. LinkMoves
  BY <1>7, <1>8 DEF LinkMoves
<1>10. PICK o, step : o = y.op /\ step = "fetch"
  OBVIOUS
<1>11. WellRun(o, step, k)'
  <2>1. WellRun(o, "write", h)
    BY <1>1, <1>10 DEF AllWellRun
  <2>2. RunOK(k)'
    BY <2>1 DEF WellRun, RunSteps, RunOK, Current
  <2> QED
    BY <1>10, <2>1, <2>2 DEF WellRun, RunSteps, KnownRow
<1>12. ~Lone(y)
  BY <1>3 DEF Lone
<1>13. RunHeld(y)' => RunHeld(req[r])
  BY DEF RunHeld, Current, RunSteps
<1>14. RunHeld(y)' => RestComes(step, k)'
  <2> SUFFICES ASSUME RunHeld(y)', NEW i \in Unsynced'
               PROVE  remote'[i].updated >= k.begun \/ i \in missed'[k.p] \/ Coming("fetch", k, i)'
    BY <1>10 DEF RestComes
  <2>1. RestComes("write", h)
    BY <1>13 DEF SyncInv, RestHeld
  <2>2. i \in Unsynced
    BY DEF Unsynced, Exists, Copied
  <2>3. remote[i].updated >= h.begun \/ i \in missed[h.p] \/ Listed(h, i) \/ i \in BatchIssues(h)
    BY <2>1, <2>2 DEF RestComes, Coming
  <2>4. Listed(h, i) => Listed(k, i)
    BY DEF Listed, ChangedSince, CardsBefore
  <2>5. Listed(k, i) => Coming("fetch", k, i)'
    BY ListSame DEF Coming
  <2> QED
    BY <1>5, <1>6, <2>3, <2>4, <2>5
<1>15. \A s \in Requests : \A g :
          (s # r /\ g = req[s].with /\ req[s].step \in RunSteps /\ Lone(req[s]) /\ RunHeld(y)')
          => Catches(step, k, g)'
  <2> SUFFICES ASSUME NEW s \in Requests, NEW g, s # r, g = req[s].with, req[s].step \in RunSteps, Lone(req[s]), RunHeld(y)',
                      NEW i \in Issues, Outdates(g, k, i)'
               PROVE  FALSE
    BY DEF Catches
  <2>1. Catches("write", h, g)
    BY <1>13 DEF SyncInv, Caught
  <2>2. Outdates(g, h, i)
    BY DEF Outdates, Exists, AsRead
  <2> QED
    BY <1>2, <2>1, <2>2 DEF Catches
<1> QED
  BY <1>9, <1>10, <1>11, <1>12, <1>14, <1>15, OwnStep

LEMMA BatchAccepted ==
  ASSUME SyncInv, NEW r \in Requests, NEW h \in RunData, h = req[r].with, req[r].step = "write",
         NEW k \in RunData, k.p = h.p, k.id = h.id, k.last = h.last, k.begun = h.begun, k.due = h.due, k.at = h.at,
         k.page = <<>>, k.number = h.number + Cardinality(Numbered(h)),
         NEW op \in Overtakers, op # "remoteDelete", NEW y, SyncTurned(r, y, {op}), y.op = req[r].op, y.step = "fetch",
         y.with = k, y.over = req[r].over, UNCHANGED <<service, minute, remote, manual, link>>, copy' = Written(h),
         missed' = [p \in Linked |-> (missed[p] \ BatchIssues(h)) \union (IF Lone(req[r]) THEN {} ELSE Outdated(h))]
  PROVE  SyncInv'
<1>1. SyncTyped /\ SyncTables /\ Past /\ AllWellRun
  BY DEF SyncInv, SyncTyped
<1>2. req'[r] = y
  BY DEF SyncTurned
<1>3. \A s \in Requests : s # r => StandsBy(s, {op})
  BY <1>1, OthersStandBy
<1>4. h.p \in Linked /\ BatchIssues(h) \in SUBSET Issues
  BY RunDataParts
<1>5. SyncTyped' /\ Past'
  <2>1. copy' \in [Issues -> [project : Linked \union {NoData}, ver : Nat, number : Nat]]
    BY <1>1, WrittenType DEF CopyRow
  <2>2. missed' \in [Linked -> SUBSET Issues]
    BY <1>1, <1>4 DEF SyncTables, Outdated
  <2>3. SyncTables'
    BY <1>1, <2>1, <2>2 DEF SyncTables
  <2> QED
    BY <1>1, <2>3 DEF SyncTyped, SyncTurned, Past
<1>6. AllWellRun'
  <2> SUFFICES ASSUME NEW s \in Requests PROVE WellRun(req[s].op, req[s].step, req[s].with)'
    BY DEF AllWellRun
  <2>1. CASE s = r
    <3>1. PICK o : o = y.op
      OBVIOUS
    <3>2. WellRun(o, "write", h)
      BY <1>1, <3>1 DEF AllWellRun
    <3>3. RunOK(k)'
      BY <3>2 DEF WellRun, RunSteps, RunOK, Current
    <3>4. WellRun(o, "fetch", k)'
      BY <3>2, <3>3 DEF WellRun, RunSteps, KnownRow
    <3> QED
      BY <1>2, <2>1, <3>1, <3>4
  <2>2. CASE s # r
    <3>1. PICK oo, st, g : oo = req[s].op /\ st = req[s].step /\ g = req[s].with
      OBVIOUS
    <3>2. WellRun(oo, st, g)
      BY <1>1, <3>1 DEF AllWellRun
    <3>3. WellRun(oo, st, g)'
      BY <3>2 DEF WellRun, RunOK, KnownRow, Current
    <3>4. oo = req'[s].op /\ st = req'[s].step /\ g = req'[s].with
      BY <1>3, <2>2, <3>1 DEF StandsBy
    <3> QED
      BY <3>3, <3>4
  <2> QED
    BY <2>1, <2>2
<1>7. \A s \in Requests : s # r => ~(req'[s].step \in RunSteps /\ Lone(req[s])')
  BY <1>3, StandsByKeeps
<1>8. ASSUME Lone(req[r]) PROVE FreshRun("write", h) /\ PageHeld(h)
  BY <1>8 DEF SyncInv, LoneFresh, RunSteps
<1>9. DOMAIN k.page = {}
  OBVIOUS
<1>10. LoneFresh'
  <2> SUFFICES ASSUME NEW s \in Requests, req'[s].step \in RunSteps, Lone(req[s])'
               PROVE  FreshRun(req[s].step, req[s].with)' /\ PageHeld(req[s].with)'
    BY DEF LoneFresh
  <2>1. s = r
    BY <1>7
  <2>2. Lone(req[r])
    BY <1>2, <2>1 DEF Lone
  <2>3. FreshRun("fetch", k)'
    BY <1>1, <1>8, <2>2, WrittenNumbers DEF FreshRun
  <2>4. PageHeld(k)'
    BY <1>9 DEF PageHeld
  <2> QED
    BY <1>2, <2>1, <2>3, <2>4
<1>11. Caught'
  <2> SUFFICES ASSUME NEW q \in Requests, NEW s \in Requests, q # s, RunHeld(req[q])',
                      req'[s].step \in RunSteps, Lone(req[s])'
               PROVE  Catches(req[q].step, req[q].with, req[s].with)'
    BY DEF Caught
  <2>1. s = r
    BY <1>7
  <2> QED
    BY <1>2, <1>9, <2>1 DEF Catches, Outdates
\* An issue outside the batch stays as it is; one left behind in it ...
<1>12. ASSUME NEW i \in Unsynced', i \notin BatchIssues(h)
       PROVE  i \in Unsynced /\ \A p \in Linked : i \in missed[p] => i \in missed'[p]
  <2>1. i \in Issues
    BY DEF Unsynced
  <2>2. copy'[i] = copy[i]
    BY <1>12, <2>1 DEF Written
  <2> QED
    BY <1>12, <2>1, <2>2 DEF Unsynced, Exists, Copied
\* ... was overtaken, or changed since.
<1>13. ASSUME NEW i \in Unsynced', i \in BatchIssues(h)
       PROVE  \/ \A p \in Linked : i \in missed'[p]
              \/ Lone(req[r]) /\ Recent(h, i) /\ \E n \in DOMAIN h.page : h.page[n].i = i /\ ~AsRead(h.page[n])
  <2>1. i \in Outdated(h)
    BY <1>13 DEF Outdated, Unsynced
  <2>2. CASE ~Lone(req[r])
    BY <2>1, <2>2
  <2>3. CASE Lone(req[r])
    <3>1. PICK n \in DOMAIN h.page : h.page[n].i = i /\ ~AsRead(h.page[n])
      BY <1>1, <1>8, <1>13, <2>3, LeftByBatch
    <3>2. Recent(h, i)
      BY <1>8, <2>3, <3>1 DEF PageHeld
    <3> QED
      BY <2>3, <3>1, <3>2
  <2> QED
    BY <2>2, <2>3
<1>14. RestHeld'
  <2> SUFFICES ASSUME NEW s \in Requests, RunHeld(req[s])' PROVE RestComes(req[s].step, req[s].with)'
    BY DEF RestHeld
  <2>1. CASE s = r
    <3> SUFFICES ASSUME NEW i \in Unsynced'
                 PROVE  remote'[i].updated >= k.begun \/ i \in missed'[k.p] \/ Coming("fetch", k, i)'
      BY <1>2, <2>1 DEF RestComes
    <3>1. CASE i \in BatchIssues(h)
      BY <1>4, <1>13, <3>1 DEF Recent
    <3>2. CASE i \notin BatchIssues(h)
      <4>1. RunHeld(req[r])
        BY <1>2, <2>1 DEF RunHeld, Current, RunSteps
      <4>2. RestComes("write", h)
        BY <4>1 DEF SyncInv, RestHeld
      <4>3. remote[i].updated >= h.begun \/ i \in missed'[h.p] \/ Listed(h, i)
        BY <1>4, <1>12, <3>2, <4>2 DEF RestComes, Coming
      <4>4. Listed(h, i) => Listed(k, i)
        BY DEF Listed, ChangedSince, CardsBefore
      <4>5. Listed(k, i) => Coming("fetch", k, i)'
        BY ListSame DEF Coming
      <4> QED
        BY <4>3, <4>4, <4>5
    <3> QED
      BY <3>1, <3>2
  <2>2. CASE s # r
    <3>1. PICK st, g : st = req[s].step /\ g = req[s].with
      OBVIOUS
    <3>2. st = req'[s].step /\ g = req'[s].with
      BY <1>3, <2>2, <3>1 DEF StandsBy
    <3>3. StandsBy(s, {op})
      BY <1>3, <2>2
    <3>4. RunHeld(req[s])
      BY <3>3, StandsByKeeps DEF RunHeld, Current, StandsBy
    <3>5. RestComes(st, g)
      BY <3>1, <3>4 DEF SyncInv, RestHeld
    <3>6. g.p \in Linked
      BY <1>1, <3>1, <3>4, RunDataParts DEF AllWellRun, WellRun, RunHeld
    <3> SUFFICES ASSUME NEW i \in Unsynced'
                 PROVE  remote'[i].updated >= g.begun \/ i \in missed'[g.p] \/ Coming(st, g, i)'
      BY <3>2 DEF RestComes
    <3>7. CASE i \in BatchIssues(h)
      <4>1. CASE \A p \in Linked : i \in missed'[p]
        BY <3>6, <4>1
      <4>2. CASE Lone(req[r]) /\ Recent(h, i) /\ \E n \in DOMAIN h.page : h.page[n].i = i /\ ~AsRead(h.page[n])
        <5>1. Catches(st, g, h)
          BY <2>2, <3>1, <3>4, <4>2 DEF SyncInv, Caught, RunSteps
        <5>2. i \in Issues /\ Exists(i)
          BY DEF Unsynced, Exists
        <5>3. remote[i].updated \in Nat /\ g.begun \in Nat
          BY <1>1, <3>1, <3>4, <5>2, IssueRow, RunDataParts DEF AllWellRun, WellRun, RunHeld
        <5>4. CASE remote[i].updated < g.begun
          <6>1. Outdates(h, g, i)
            BY <4>2, <5>2, <5>4 DEF Outdates
          <6>2. Coming(st, g, i)
            BY <5>1, <5>2, <6>1 DEF Catches
          <6> QED
            BY <6>2, ListSame
        <5> QED
          BY <5>3, <5>4
      <4> QED
        BY <1>13, <3>7, <4>1, <4>2
    <3>8. CASE i \notin BatchIssues(h)
      BY <1>12, <3>5, <3>6, <3>8, ListSame DEF RestComes
    <3> QED
      BY <3>7, <3>8
  <2> QED
    BY <2>1, <2>2
<1>15. NothingSkipped'
  <2> SUFFICES ASSUME NEW p \in Linked, NEW i \in Unsynced', link'[p].on, remote'[i].updated < link'[p].last
               PROVE  i \in missed'[p]
    BY DEF NothingSkipped
  <2>1. CASE i \in BatchIssues(h)
    <3>1. i \in Issues
      BY DEF Unsynced
    <3>2. remote[i].updated \in Nat /\ link[p].last \in Int
      BY <1>1, <3>1, IssueRow, LinkType
    <3> QED
      BY <1>13, <2>1, <3>2 DEF Recent
  <2>2. CASE i \notin BatchIssues(h)
    BY <1>12, <2>2 DEF SyncInv, NothingSkipped
  <2> QED
    BY <2>1, <2>2
<1> QED
  BY <1>5, <1>6, <1>10, <1>11, <1>14, <1>15 DEF SyncInv

LEMMA WriteBatchKeeps == ASSUME SyncInv, NEW r \in Requests, WriteBatch(r) PROVE SyncInv'
<1>1. SyncTables /\ req \in [Requests -> SyncRequest] /\ Syncing(r, "write")
      /\ UNCHANGED <<service, minute, remote, manual, link>>
  BY DEF SyncInv, SyncTyped, WriteBatch
<1>2. PICK h : h = req[r].with
  OBVIOUS
<1>3. h \in RunData /\ req[r].step = "write"
  BY <1>1, <1>2, SyncingRun DEF RunSteps
<1>4. PICK op \in Overtakers : op = req[r].op /\ op \in SyncOps /\ op # "remoteDelete"
  BY <1>1, SyncingRun DEF RunSteps
<1>5. PICK c \in Nat : c = Cardinality(Numbered(h))
  BY <1>3, NumberedCount
<1>6. PICK k \in RunData :
           /\ k = [h EXCEPT !.page = <<>>, !.found = {}, !.number = @ + c]
           /\ k.p = h.p /\ k.id = h.id /\ k.last = h.last /\ k.begun = h.begun /\ k.due = h.due /\ k.at = h.at
           /\ k.page = <<>> /\ k.number = h.number + c
  BY <1>3, NextRun
<1>7. k \in SyncHolds /\ "fetch" \in SyncSteps
  BY SyncHoldsFacts DEF RunSteps
<1>8. Alone(r, Overtakers) <=> Lone(req[r])
  BY DEF Alone, Lone
<1>9. CASE Accepted(h)
  <2>1. /\ copy' = Written(h) /\ CommitAnd(r, "fetch", k)
        /\ missed' = [p \in Linked |->
                        (missed[p] \ BatchIssues(h)) \union (IF Alone(r, Overtakers) THEN {} ELSE Outdated(h))]
    BY <1>2, <1>5, <1>6, <1>9, Zenon DEF WriteBatch
  <2>2. PICK y \in SyncRequest : SyncTurned(r, y, {op}) /\ y.op = req[r].op /\ y.step = "fetch" /\ y.with = k
                                 /\ y.over = req[r].over
    <3>1. PICK step \in SyncSteps : step = "fetch"
      BY <1>7
    <3>2. CommitAnd(r, step, k)
      BY <2>1, <3>1
    <3>3. PICK y \in SyncRequest : SyncTurned(r, y, {op}) /\ y.op = req[r].op /\ y.step = step /\ y.with = k
                                   /\ y.over = req[r].over
      BY <1>1, <1>4, <1>7, <3>2, SyncCommitsAnd
    <3> QED
      BY <3>1, <3>3
  <2>3. missed' = [p \in Linked |-> (missed[p] \ BatchIssues(h)) \union (IF Lone(req[r]) THEN {} ELSE Outdated(h))]
    BY <1>8, <2>1
  <2> QED
    <3>1. k.p = h.p /\ k.id = h.id /\ k.last = h.last /\ k.begun = h.begun /\ k.due = h.due /\ k.at = h.at
          /\ k.page = <<>> /\ k.number = h.number + Cardinality(Numbered(h))
      BY <1>5, <1>6
    <3>2. op \in Overtakers /\ op # "remoteDelete" /\ h \in RunData /\ k \in RunData
      BY <1>3, <1>4
    <3>3. UNCHANGED <<service, minute, remote, manual, link>> /\ copy' = Written(h)
      BY <1>1, <2>1
    <3> QED
      BY <1>2, <1>3, <2>2, <2>3, <3>1, <3>2, <3>3, BatchAccepted
<1>10. CASE ~Accepted(h)
  <2>1. /\ copy' = copy /\ GoOn(r, "fetch", k)
        /\ missed' = IF Alone(r, Overtakers) THEN missed ELSE [missed EXCEPT ![h.p] = @ \union BatchIssues(h)]
    BY <1>2, <1>5, <1>6, <1>10, Zenon DEF WriteBatch
  <2>2. PICK y \in SyncRequest : SyncTurned(r, y, {}) /\ y.op = req[r].op /\ y.step = "fetch" /\ y.with = k
                                 /\ y.over = req[r].over
    BY <1>1, <1>7, <2>1, SyncGoesOn
  <2>3. missed' = IF Lone(req[r]) THEN missed ELSE [missed EXCEPT ![h.p] = @ \union BatchIssues(h)]
    BY <1>8, <2>1
  <2> QED
    <3>1. k.p = h.p /\ k.id = h.id /\ k.last = h.last /\ k.begun = h.begun /\ k.due = h.due /\ k.at = h.at
          /\ k.page = <<>>
      BY <1>6
    <3>2. UNCHANGED <<service, minute, remote, copy, manual, link>>
      BY <1>1, <2>1
    <3> QED
      BY <1>2, <1>3, <1>10, <2>2, <2>3, <3>1, <3>2, BatchRefused
<1> QED
  BY <1>9, <1>10

-----------------------------------------------------------------------------
\* A sync that ends.

LinkRises ==
  /\ SyncTables' /\ UNCHANGED <<service, minute, remote, copy, manual>>
  /\ \A p \in Linked : /\ link'[p].on = link[p].on /\ link'[p].id = link[p].id
                       /\ link[p].last <= link'[p].last /\ link'[p].last <= minute
                       /\ missed[p] \subseteq missed'[p]

LEMMA LastRow ==
  ASSUME NEW l \in SyncRow, NEW t \in Int, NEW m, m = [l EXCEPT !.last = t]
  PROVE  m \in SyncRow /\ m.on = l.on /\ m.id = l.id /\ m.last = t
<1>1. PICK x, y, z, w : x = l.on /\ y = l.enabled /\ z = l.last /\ w = l.id
  OBVIOUS
<1>2. l = [on |-> x, enabled |-> y, last |-> z, id |-> w] /\ x \in BOOLEAN /\ y \in BOOLEAN /\ w \in Nat
  BY <1>1 DEF SyncRow
<1>3. m = [on |-> x, enabled |-> y, last |-> t, id |-> w]
  BY <1>2
<1> QED
  BY <1>1, <1>2, <1>3 DEF SyncRow

LEMMA RecordRises ==
  ASSUME SyncTables, Past, NEW h \in RunData, NEW left \in SUBSET Issues,
         link' = IF Current(h) THEN [link EXCEPT ![h.p].last = minute] ELSE link,
         missed' = [missed EXCEPT ![h.p] = @ \union left], UNCHANGED <<service, minute, remote, copy, manual>>
  PROVE  /\ LinkRises /\ left \subseteq missed'[h.p]
         /\ \A p \in Linked : link'[p].last = link[p].last \/ (p = h.p /\ Current(h))
<1>1. PICK q \in Linked : q = h.p
  BY RunDataParts
<1>2. PICK l \in SyncRow, t \in Nat : l = link[q] /\ t = minute
  BY <1>1, LinkType
<1>3. PICK m : m = [l EXCEPT !.last = t] /\ m \in SyncRow /\ m.on = l.on /\ m.id = l.id /\ m.last = t
  <2>1. PICK m : m = [l EXCEPT !.last = t]
    OBVIOUS
  <2>2. t \in Int
    OBVIOUS
  <2>3. m \in SyncRow /\ m.on = l.on /\ m.id = l.id /\ m.last = t
    BY <2>1, <2>2, LastRow
  <2> QED
    BY <2>1, <2>3
<1>4. [link EXCEPT ![q].last = t] = [link EXCEPT ![q] = m]
  BY <1>2, <1>3, Zenon
<1>5. link' = IF Current(h) THEN [link EXCEPT ![q] = m] ELSE link
  BY <1>1, <1>2, <1>4, Zenon
<1>6. link' \in [Linked -> SyncRow]
  BY <1>3, <1>5 DEF SyncTables
<1>7. ASSUME NEW p \in Linked
      PROVE  /\ link'[p].on = link[p].on /\ link'[p].id = link[p].id
             /\ link[p].last <= link'[p].last /\ link'[p].last <= minute
             /\ link'[p].last = link[p].last \/ (p = h.p /\ Current(h))
  <2>1. link[p].last \in Int /\ link[p].last <= minute /\ minute \in Nat
    BY LinkType
  <2>2. CASE link'[p] = link[p]
    BY <2>1, <2>2
  <2>3. CASE link'[p] # link[p]
    <3>1. p = q /\ link'[p] = m /\ Current(h)
      BY <1>5, <2>3 DEF SyncTables
    <3> QED
      BY <1>1, <1>2, <1>3, <2>1, <3>1
  <2> QED
    BY <2>2, <2>3
<1>8. missed' = [missed EXCEPT ![q] = missed[q] \union left]
  BY <1>1
<1>9. missed' \in [Linked -> SUBSET Issues] /\ (\A p \in Linked : missed[p] \subseteq missed'[p]) /\ left \subseteq missed'[q]
  <2>1. missed \in [Linked -> SUBSET Issues]
    BY DEF SyncTables
  <2>2. PICK M \in SUBSET Issues : M = missed[q] \union left
    BY <2>1
  <2>3. missed' = [missed EXCEPT ![q] = M]
    BY <1>8, <2>2
  <2> QED
    BY <2>1, <2>2, <2>3
<1>10. SyncTables'
  BY <1>6, <1>9 DEF SyncTables
<1> QED
  BY <1>1, <1>7, <1>9, <1>10 DEF LinkRises

LEMMA RiseWellRun ==
  ASSUME SyncTables, Past, LinkRises, NEW o, NEW step, NEW h, WellRun(o, step, h)
  PROVE  WellRun(o, step, h)'
<1>1. \A p \in Linked : link[p].last \in Int /\ link'[p].last \in Int
  BY DEF LinkRises, SyncTables, SyncRow
<1>2. ASSUME h \in RunData, RunOK(h) PROVE RunOK(h)'
  <2>1. h.p \in Linked /\ h.last \in Int
    BY <1>2, RunDataParts
  <2>2. Current(h)' <=> Current(h)
    BY <2>1 DEF Current, LinkRises
  <2>3. Current(h) => h.last <= link'[h.p].last
    BY <1>1, <1>2, <2>1 DEF RunOK, LinkRises
  <2> QED
    BY <1>2, <2>1, <2>2, <2>3 DEF RunOK, LinkRises
<1>3. ASSUME NEW d \in Linked \X SyncRow, KnownRow(d) PROVE KnownRow(d)'
  <2>1. d[1] \in Linked /\ d[2].last \in Int
    BY DEF SyncRow
  <2> QED
    BY <1>1, <1>3, <2>1 DEF KnownRow, LinkRises
<1>4. step \in RunSteps \union {"next"} => h.due \in SUBSET (Linked \X SyncRow)
  BY RunDataParts DEF WellRun, LeftData
<1>5. step \in RunSteps \union {"next"} => \A d \in h.due : KnownRow(d)'
  BY <1>3, <1>4 DEF WellRun
<1>6. step \in RunSteps => h \in RunData /\ RunOK(h)'
  BY <1>2 DEF WellRun
<1> QED
  BY <1>5, <1>6 DEF WellRun

LEMMA RecordKeeps ==
  ASSUME SyncInv, NEW r \in Requests, NEW st \in {"fetch", "done"}, Syncing(r, st), NEW h, h = req[r].with,
         NEW left \in SUBSET Issues, Record(r, left),
         Current(h) => \A i \in Unsynced : remote[i].updated < minute => i \in missed[h.p] \/ i \in left
  PROVE  SyncInv'
<1>1. SyncTyped /\ SyncTables /\ Past /\ AllWellRun /\ req \in [Requests -> SyncRequest]
  BY DEF SyncInv, SyncTyped
<1>2. h \in RunData /\ req[r].step = st
  BY SyncingRun DEF RunSteps
<1>3. PICK op \in Overtakers : op = req[r].op /\ op \in SyncOps /\ op # "idle"
  <2>1. req[r].op \in Overtakers /\ req[r].op \in SyncOps /\ req[r].op # "idle"
    BY SyncingRun DEF RunSteps, Syncing
  <2> QED
    BY <2>1
<1>4. /\ link' = IF Current(h) THEN [link EXCEPT ![h.p].last = minute] ELSE link
      /\ missed' = [missed EXCEPT ![h.p] = @ \union left] /\ UNCHANGED <<service, minute, remote, copy, manual>>
  BY DEF Record, Current
<1>5. /\ LinkRises /\ left \subseteq missed'[h.p]
      /\ \A p \in Linked : link'[p].last = link[p].last \/ (p = h.p /\ Current(h))
  BY <1>1, <1>2, <1>4, RecordRises
<1>6. PICK y : SyncTurned(r, y, {op}) /\ y.step \notin RunSteps /\ WellRun(y.op, y.step, y.with)'
  <2>1. CASE h.due = {}
    <3>1. Commit(r)
      BY <2>1 DEF Record
    <3>2. SyncTurned(r, Idle, {op})
      BY <1>1, <1>3, <3>1, SyncCommits
    <3>3. PICK y : y = Idle
      OBVIOUS
    <3>4. y.op = "idle" /\ y.step = ""
      BY <3>3, SyncHoldsFacts
    <3>5. WellRun(y.op, y.step, y.with)'
      BY <3>4 DEF WellRun, RunSteps
    <3> QED
      BY <3>2, <3>3, <3>4, <3>5 DEF RunSteps
  <2>2. CASE h.due # {}
    <3>1. PICK g : g = [due |-> h.due]
      OBVIOUS
    <3>2. g \in LeftData /\ g.due = h.due
      BY <1>2, <3>1, RunDataParts DEF LeftData
    <3>3. CommitAnd(r, "next", g)
      BY <2>2, <3>1 DEF Record
    <3>4. PICK step \in SyncSteps : step = "next"
      BY SyncHoldsFacts
    <3>5. g \in SyncHolds /\ CommitAnd(r, step, g)
      BY <3>2, <3>3, <3>4, SyncHoldsFacts
    <3>6. PICK y \in SyncRequest : SyncTurned(r, y, {op}) /\ y.op = req[r].op /\ y.step = step /\ y.with = g
      BY <1>1, <1>3, <3>5, SyncCommitsAnd
    <3>7. WellRun(op, st, h)
      BY <1>1, <1>2, <1>3 DEF AllWellRun
    <3>8. WellRun(op, step, g)
      BY <1>3, <3>2, <3>4, <3>7 DEF WellRun, RunSteps
    <3>9. WellRun(op, step, g)'
      BY <1>1, <1>5, <3>8, RiseWellRun
    <3> QED
      BY <1>3, <3>4, <3>6, <3>9 DEF RunSteps
  <2> QED
    BY <2>1, <2>2
<1>7. req'[r] = y
  BY <1>6 DEF SyncTurned
<1>8. \A s \in Requests : s # r => StandsBy(s, {op})
  BY <1>1, <1>6, OthersStandBy
<1>9. SyncTyped' /\ Past'
  <2>1. \A p \in Linked : link[p].last \in Int /\ link'[p].last \in Int /\ Never <= link[p].last /\ Never \in Int
    BY <1>1, <1>5, LinkType DEF LinkRises, SyncTables, SyncRow
  <2>2. \A p \in Linked : Never <= link'[p].last /\ link'[p].last <= minute'
    BY <1>5, <2>1 DEF LinkRises
  <2> QED
    BY <1>1, <1>5, <1>6, <2>2 DEF SyncTyped, SyncTurned, Past, LinkRises
<1>10. AllWellRun'
  <2> SUFFICES ASSUME NEW s \in Requests PROVE WellRun(req[s].op, req[s].step, req[s].with)'
    BY DEF AllWellRun
  <2>1. CASE s = r
    BY <1>6, <1>7, <2>1
  <2>2. CASE s # r
    <3>1. PICK oo, sg, g : oo = req[s].op /\ sg = req[s].step /\ g = req[s].with
      OBVIOUS
    <3>2. WellRun(oo, sg, g)
      BY <1>1, <3>1 DEF AllWellRun
    <3>3. WellRun(oo, sg, g)'
      BY <1>1, <1>5, <3>2, RiseWellRun
    <3>4. oo = req'[s].op /\ sg = req'[s].step /\ g = req'[s].with
      BY <1>8, <2>2, <3>1 DEF StandsBy
    <3> QED
      BY <3>3, <3>4
  <2> QED
    BY <2>1, <2>2
<1>11. \A s \in Requests : ~(req'[s].step \in RunSteps /\ Lone(req[s])')
  BY <1>6, <1>7, <1>8, StandsByKeeps
<1>12. Unsynced' = Unsynced
  BY <1>5 DEF LinkRises, Unsynced, Exists, Copied
<1>13. RestHeld'
  <2> SUFFICES ASSUME NEW s \in Requests, RunHeld(req[s])' PROVE RestComes(req[s].step, req[s].with)'
    BY DEF RestHeld
  <2>1. s # r
    BY <1>6, <1>7 DEF RunHeld
  <2>2. PICK sg, g : sg = req[s].step /\ g = req[s].with
    OBVIOUS
  <2>3. StandsBy(s, {op})
    BY <1>8, <2>1
  <2>4. sg = req'[s].step /\ g = req'[s].with
    BY <2>2, <2>3 DEF StandsBy
  <2>5. sg \in RunSteps /\ Current(g)' /\ "remoteDelete" \notin req[s].over
    BY <2>2, <2>3, <2>4, StandsByKeeps DEF RunHeld, Current
  <2>6. g \in RunData
    BY <1>1, <2>2, <2>5 DEF AllWellRun, WellRun
  <2>7. g.p \in Linked
    BY <2>6, RunDataParts
  <2>8. RunHeld(req[s])
    BY <1>5, <2>2, <2>5, <2>7 DEF RunHeld, Current, LinkRises
  <2>9. RestComes(sg, g)
    BY <2>2, <2>8 DEF SyncInv, RestHeld
  <2>10. missed[g.p] \subseteq missed'[g.p]
    BY <1>5, <2>7 DEF LinkRises
  <2>11. RestComes(sg, g)'
    BY <1>5, <1>12, <2>9, <2>10, RestStays DEF LinkRises
  <2> QED
    BY <2>4, <2>11
<1>14. NothingSkipped'
  <2> SUFFICES ASSUME NEW p \in Linked, NEW i \in Unsynced', link'[p].on, remote'[i].updated < link'[p].last
               PROVE  i \in missed'[p]
    BY DEF NothingSkipped
  <2>1. i \in Unsynced /\ i \in Issues /\ remote'[i] = remote[i]
    BY <1>5, <1>12 DEF Unsynced, LinkRises
  <2>2. CASE link'[p].last = link[p].last
    <3>1. i \in missed[p]
      BY <1>5, <2>1, <2>2 DEF SyncInv, NothingSkipped, LinkRises
    <3> QED
      BY <1>5, <3>1 DEF LinkRises
  <2>3. CASE p = h.p /\ Current(h)
    <3>1. remote[i].updated < minute
      <4>1. remote[i].updated \in Nat /\ minute \in Nat /\ link'[p].last \in Int /\ link'[p].last <= minute
        BY <1>1, <1>5, <2>1, IssueRow DEF LinkRises, SyncTables, SyncRow
      <4> QED
        BY <2>1, <4>1
    <3> QED
      BY <1>5, <2>1, <2>3, <3>1 DEF LinkRises
  <2> QED
    BY <1>5, <2>2, <2>3
<1> QED
  BY <1>9, <1>10, <1>11, <1>13, <1>14 DEF SyncInv, LoneFresh, Caught

LEMMA BreakOffKeeps == ASSUME SyncInv, NEW r \in Requests, BreakOff(r) PROVE SyncInv'
<1>1. PICK h, st : h = req[r].with /\ st = "fetch"
  OBVIOUS
<1>2. PICK left \in SUBSET Issues : left = Unsynced
  BY DEF Unsynced
<1>3. Syncing(r, st) /\ Record(r, left)
  BY <1>1, <1>2 DEF BreakOff
<1> QED
  BY <1>1, <1>2, <1>3, RecordKeeps

LEMMA FinishKeeps == ASSUME SyncInv, NEW r \in Requests, Finish(r) PROVE SyncInv'
<1>1. PICK h, st : h = req[r].with /\ st = "done"
  OBVIOUS
<1>2. PICK left : left = IF "remoteDelete" \in req[r].over THEN Unsynced
                         ELSE {i \in Unsynced : remote[i].updated >= h.begun /\ remote[i].updated < minute}
  OBVIOUS
<1>3. Syncing(r, st) /\ Record(r, left) /\ left \in SUBSET Issues
  BY <1>1, <1>2 DEF Finish, Unsynced
<1>4. h \in RunData /\ req[r].step = st /\ h.page = <<>>
  BY <1>1, <1>3, SyncingRun DEF RunSteps
<1>5. ASSUME Current(h), NEW i \in Unsynced, remote[i].updated < minute
      PROVE  i \in missed[h.p] \/ i \in left
  <2>1. CASE "remoteDelete" \in req[r].over
    BY <1>2, <1>5, <2>1
  <2>2. CASE "remoteDelete" \notin req[r].over
    <3>1. RunHeld(req[r])
      BY <1>1, <1>4, <1>5, <2>2 DEF RunHeld, RunSteps
    <3>2. RestComes(st, h)
      BY <1>1, <1>4, <3>1 DEF SyncInv, RestHeld
    <3>3. DOMAIN h.page = {}
      BY <1>4
    <3>4. ~Coming(st, h, i)
      BY <1>1, <3>3 DEF Coming, BatchIssues
    <3>5. remote[i].updated >= h.begun \/ i \in missed[h.p]
      BY <3>2, <3>4 DEF RestComes
    <3> QED
      BY <1>2, <1>5, <2>2, <3>5
  <2> QED
    BY <2>1, <2>2
<1> QED
  BY <1>1, <1>3, <1>5, RecordKeeps

-----------------------------------------------------------------------------
\* The beginning, and every step.

LEMMA SyncBegins == ASSUME HandlersInit, SyncInit PROVE SyncInv
<1>1. PICK x : x = NoData
  OBVIOUS
<1>2. PICK none : none = NoCopy /\ none \in [project : Linked \union {NoData}, ver : Nat, number : Nat]
  <2>1. NoCopy = [project |-> x, ver |-> 0, number |-> 0]
    BY <1>1 DEF NoCopy
  <2> QED
    BY <1>1, <2>1
<1>3. copy \in [Issues -> [project : Linked \union {NoData}, ver : Nat, number : Nat]]
  BY <1>2 DEF SyncInit
<1>4. remote \in [Issues -> [ver : Nat, updated : Nat, closed : BOOLEAN, gone : BOOLEAN]]
      /\ \A i \in Issues : remote[i].updated = 0
  <2>1. PICK n \in Issues \union {0} :
          remote = [i \in Issues |-> [ver |-> IF i <= n THEN 1 ELSE 0, updated |-> 0, closed |-> FALSE, gone |-> FALSE]]
    BY DEF SyncInit
  <2>2. ASSUME NEW i \in Issues
        PROVE  remote[i] \in [ver : Nat, updated : Nat, closed : BOOLEAN, gone : BOOLEAN] /\ remote[i].updated = 0
    <3>1. PICK v \in Nat : v = IF i <= n THEN 1 ELSE 0
      OBVIOUS
    <3>2. PICK b \in BOOLEAN : b = FALSE
      OBVIOUS
    <3>3. remote[i] = [ver |-> v, updated |-> 0, closed |-> b, gone |-> b]
      BY <2>1, <3>1, <3>2, Zenon
    <3>4. PICK e : e = [ver |-> v, updated |-> 0, closed |-> b, gone |-> b]
      OBVIOUS
    <3>5. e \in [ver : Nat, updated : Nat, closed : BOOLEAN, gone : BOOLEAN] /\ e.updated = 0
      BY <3>4
    <3> QED
      BY <3>3, <3>4, <3>5
  <2> QED
    BY <2>1, <2>2
<1>5. link \in [Linked -> SyncRow] /\ \A p \in Linked : link[p].last = Never
  <2>1. PICK t \in BOOLEAN, f \in BOOLEAN : t = TRUE /\ f = FALSE
    OBVIOUS
  <2>2. PICK z \in Int : z = Never
    BY DEF Never
  <2>3. PICK a : a = [on |-> f, enabled |-> f, last |-> z, id |-> 0]
    OBVIOUS
  <2>4. a \in SyncRow /\ a.last = z /\ a.id = 0
    BY <2>3 DEF SyncRow
  <2>5. a = NoLink
    BY <2>1, <2>2, <2>3, Zenon DEF NoLink
  <2>6. PICK b : b = [on |-> t, enabled |-> t, last |-> z, id |-> 1]
    OBVIOUS
  <2>7. b \in SyncRow /\ b.last = z
    BY <2>6 DEF SyncRow
  <2>8. b = NewLink(NoLink)
    <3>1. NoLink.id + 1 = 1
      BY <2>4, <2>5
    <3> QED
      BY <2>1, <2>2, <2>6, <3>1, Zenon DEF NewLink
  <2>9. link = [p \in Linked |-> IF p = First THEN b ELSE a]
    BY <2>5, <2>8, Zenon DEF SyncInit
  <2> QED
    BY <2>2, <2>4, <2>7, <2>9
<1>6. manual = [p \in Linked |-> {}] /\ missed = [p \in Linked |-> {}] /\ minute = 0 /\ service \in {"jira", "trello"}
  BY DEF SyncInit
<1>7. SyncTables
  <2>1. manual \in [Linked -> SUBSET Nat] /\ missed \in [Linked -> SUBSET Issues] /\ minute \in Nat
    BY <1>6
  <2> QED
    BY <1>3, <1>4, <1>5, <1>6, <2>1 DEF SyncTables
<1>8. req = [s \in Requests |-> Idle]
  BY DEF HandlersInit
<1>9. SyncTyped
  BY <1>7, <1>8, SyncHoldsFacts DEF SyncTyped
<1>10. Past
  <2>1. Never <= 0
    BY DEF Never
  <2>2. \A p \in Linked : IsFiniteSet(manual[p])
    BY <1>6, FS_EmptySet
  <2>3. Never <= Never
    BY DEF Never
  <2> QED
    BY <1>4, <1>5, <1>6, <2>1, <2>2, <2>3 DEF Past
<1>11. \A s \in Requests : req[s].op = "idle" /\ req[s].step = ""
  BY <1>8, SyncHoldsFacts
<1>12. AllWellRun /\ LoneFresh /\ RestHeld /\ Caught
  BY <1>11 DEF AllWellRun, WellRun, LoneFresh, RestHeld, Caught, RunHeld, RunSteps
<1>13. NothingSkipped
  BY <1>4, <1>5 DEF NothingSkipped, Never, Unsynced
<1> QED
  BY <1>9, <1>10, <1>12, <1>13 DEF SyncInv

LEMMA SyncStaysSame ==
  ASSUME SyncInv, UNCHANGED <<handlerVars, syncVars>>
  PROVE  SyncInv'
<1>1. UNCHANGED <<req, service, minute, remote, copy, manual, link, missed>>
  BY DEF handlerVars, syncVars
<1>2. UNCHANGED syncVars
  BY DEF syncVars
<1>3. SyncTyped' /\ Past'
  BY <1>1 DEF SyncInv, SyncTyped, SyncTables, Past
<1>4. AllWellRun'
  <2> SUFFICES ASSUME NEW s \in Requests PROVE WellRun(req[s].op, req[s].step, req[s].with)'
    BY DEF AllWellRun
  <2>1. PICK o, step, h : o = req[s].op /\ step = req[s].step /\ h = req[s].with
    OBVIOUS
  <2>2. WellRun(o, step, h)'
    BY <1>2, <2>1, NothingMoves DEF SyncInv, AllWellRun
  <2> QED
    BY <1>1, <2>1, <2>2
<1>5. LoneFresh'
  <2> SUFFICES ASSUME NEW s \in Requests, req'[s].step \in RunSteps, Lone(req[s])'
               PROVE  FreshRun(req[s].step, req[s].with)' /\ PageHeld(req[s].with)'
    BY DEF LoneFresh
  <2>1. PICK step, h : step = req[s].step /\ h = req[s].with
    OBVIOUS
  <2>2. FreshRun(step, h)' /\ PageHeld(h)'
    BY <1>1, <1>2, <2>1, NothingMoves DEF SyncInv, LoneFresh, Lone
  <2> QED
    BY <1>1, <2>1, <2>2
<1>6. ASSUME NEW s \in Requests, RunHeld(req[s])' PROVE RunHeld(req[s])
  BY <1>1, <1>6 DEF RunHeld, Current
<1>7. RestHeld'
  <2> SUFFICES ASSUME NEW s \in Requests, RunHeld(req[s])' PROVE RestComes(req[s].step, req[s].with)'
    BY DEF RestHeld
  <2>1. PICK step, h : step = req[s].step /\ h = req[s].with
    OBVIOUS
  <2>2. RestComes(step, h)'
    BY <1>2, <1>6, <2>1, NothingMoves DEF SyncInv, RestHeld
  <2> QED
    BY <1>1, <2>1, <2>2
<1>8. Caught'
  <2> SUFFICES ASSUME NEW q \in Requests, NEW s \in Requests, q # s, RunHeld(req[q])',
                      req'[s].step \in RunSteps, Lone(req[s])'
               PROVE  Catches(req[q].step, req[q].with, req[s].with)'
    BY DEF Caught
  <2>1. PICK step, h, g : step = req[q].step /\ h = req[q].with /\ g = req[s].with
    OBVIOUS
  <2>2. Catches(step, h, g)'
    BY <1>1, <1>2, <1>6, <2>1, NothingMoves DEF SyncInv, Caught, Lone
  <2> QED
    BY <1>1, <2>1, <2>2
<1>9. NothingSkipped'
  BY <1>1 DEF SyncInv, NothingSkipped, Unsynced, Exists, Copied
<1> QED
  BY <1>3, <1>4, <1>5, <1>7, <1>8, <1>9 DEF SyncInv

LEMMA SyncStepKeeps == ASSUME SyncInv, NEW r \in Requests, SyncStep(r) PROVE SyncInv'
BY MinuteKeeps, RemoteEditKeeps, RemoteCloseKeeps, RemoteDeleteKeeps, ManualTaskKeeps, DeleteCopyKeeps,
   ConnectKeeps, DisconnectKeeps, ConfigureKeeps, AskSyncKeeps, AskScheduleKeeps, NextScheduledKeeps,
   AskImportKeeps, FetchPageKeeps, MatchTasksKeeps, WriteBatchKeeps, BreakOffKeeps, FinishKeeps
   DEF SyncStep

\* The tables and the requests of the synchronisation keep their types.
THEOREM SyncTypes == SyncSpec => []SyncTyped
<1>1. HandlersInit /\ SyncInit => SyncInv
  BY SyncBegins
<1>2. SyncInv /\ [SyncNext]_<<handlerVars, syncVars>> => SyncInv'
  BY SyncStepKeeps, SyncStaysSame DEF SyncNext
<1>3. SyncInv => SyncTyped
  BY DEF SyncInv
<1> QED
  BY <1>1, <1>2, <1>3, PTL DEF SyncSpec

\* NothingSkipped holds for every set of issues, every page size and any number
\* of requests, in the synchronisation by itself: what an incremental sync asks
\* for no more is in its task, or was left out for a reason the model names.
THEOREM NoIssueSkipped == SyncSpec => []NothingSkipped
<1>1. HandlersInit /\ SyncInit => SyncInv
  BY SyncBegins
<1>2. SyncInv /\ [SyncNext]_<<handlerVars, syncVars>> => SyncInv'
  BY SyncStepKeeps, SyncStaysSame DEF SyncNext
<1>3. SyncInv => NothingSkipped
  BY DEF SyncInv
<1> QED
  BY <1>1, <1>2, <1>3, PTL DEF SyncSpec
=============================================================================
