---------------------------- MODULE Desk_proofs ----------------------------
(***************************************************************************)
(* Three components that share nothing but the shape of their requests.    *)
(*                                                                         *)
(* The mailbox, for any mails, days, comments and requests at a time:      *)
(* every mail is handled, and handled once.  A sync works through the list *)
(* it fetched while others work the same table; what it, a conversion or a *)
(* sending may still rely on is what no other request has overtaken.       *)
(*                                                                         *)
(* The session, for any tabs and calls at a time: who is signed in stays   *)
(* so, who signed out stays so, and a call that waits has a refresh to     *)
(* wait for.                                                               *)
(*                                                                         *)
(* The workspaces, for any ids, slugs and requests at a time: the tree     *)
(* stays formed under moves and removals, archived projects come back only *)
(* into workspaces that are there, and the slugs found free are free.      *)
(***************************************************************************)
EXTENDS MailInbox, SessionClient, Spaces, FiniteSetTheorems, SequenceTheorems,
        WellFoundedInduction, TLAPS

(***************************************************************************)
(* The mailbox                                                             *)
(***************************************************************************)
Steps == {"", "fetch", "store", "rules", "auto", "comment", "mark", "end", "stamp",
          "find", "create", "reply", "first", "link"}
SyncData == [start : Int, last : Int, list : SUBSET Mails, m : Mails \union {0},
             task : Mails \union {0}]
ConvertData == [m : Mails, task : Mails \union {0}]
Data == SyncData \union ConvertData \union Comments \union {NoData}
RequestType ==
  [op : {"idle", "syncAll", "convert", "send"}, step : Steps, with : Data, over : SUBSET InboxOps]

Tables ==
  /\ day \in Nat
  /\ mail \in [Mails -> [day : Int, answers : Mails \union {0}, thread : Mails]]
  /\ message \in [Mails -> [status : {"none", "PENDING", "IGNORED", "CONVERTED"}, converted : BOOLEAN]]
  /\ made \in [Mails -> {"none", "live", "gone"}]
  /\ note \in [Mails -> Mails \union {0}]
  /\ account \in [auto : BOOLEAN, last : Int]
  /\ letters \in [Comments -> [marked : BOOLEAN, sent : Nat]]
  /\ threaded \in BOOLEAN

Typed == Tables /\ req \in [Requests -> RequestType]

\* What the requests are about to mark, or to count as read.
Marking == {m \in Mails : \E q \in Requests :
              req[q].op \in {"syncAll", "convert"} /\ req[q].step = "mark" /\ req[q].with.m = m}
Sending == {c \in Comments : \E q \in Requests :
              req[q].op = "send" /\ req[q].step \in {"link", "mark"} /\ req[q].with = c}
Stamping == {q \in Requests : AtMail(q, "stamp")}

\* Days are past; what was used is kept, and marked unless one is about to, or
\* may be used again.
Order ==
  /\ account.last <= day
  /\ \A m \in Mails :
       /\ mail[m].day <= day
       /\ m \in Kept => mail[m].day # Never0
       /\ note[m] # 0 \/ made[m] # "none" => m \in Kept
Marks ==
  /\ \A m \in Mails :
       (note[m] # 0 \/ made[m] # "none") /\ ~message[m].converted => m \in twice \union Marking
  /\ \A c \in Comments :
       /\ letters[c].marked => threaded
       /\ letters[c].sent > 0 /\ ~letters[c].marked => c \in twice \union Sending

Unused(m) == note[m] = 0 /\ made[m] = "none"
LeftBehind(before) == {m \in Late : mail[m].day < before /\ m \notin lost}

\* A sync has dealt with what is older than its start, or has it in its list.
SyncOK(r, q) ==
  q.op = "syncAll" =>
    /\ q.with \in SyncData /\ q.with.start <= day /\ q.with.last <= q.with.start
    /\ q.step \in {"fetch", "store", "rules", "auto", "comment", "mark", "end", "stamp"}
    /\ q.with.list = {} <=> q.step \in {"fetch", "end", "stamp"}
    /\ q.with.list \subseteq Arrived
    /\ q.over \intersect {"syncAll", "syncJob"} = {} /\ Stamping \subseteq {r} =>
         IF q.step = "fetch" THEN LeftBehind(q.with.last) = {}
                             ELSE LeftBehind(q.with.start) \subseteq q.with.list
    /\ q.step \in {"rules", "auto", "comment", "mark"} => NextMail(q.with) \in Kept
    /\ q.step \in {"comment", "mark"} => q.with.m = NextMail(q.with)
    /\ q.step \in {"rules", "auto", "comment"} /\ q.over \intersect Takers = {} =>
         Unused(NextMail(q.with))

\* A conversion holds a message that was not converted, and has looked for the
\* tasks of its thread.
ConvertOK(q) ==
  q.op = "convert" =>
    /\ q.with \in ConvertData /\ q.with.m \in Kept
    /\ q.step \in {"find", "comment", "create", "mark"}
    /\ q.step # "mark" /\ q.over \intersect Takers = {} =>
         /\ ~message[q.with.m].converted
         /\ Unused(q.with.m) \/ q.with.m \in twice \union Marking
         /\ q.step = "create" => ThreadTasks(q.with.m) = {}

SendOK(q) ==
  q.op = "send" =>
    /\ q.with \in Comments /\ q.step \in {"reply", "first", "link", "mark"}
    /\ q.step \in {"reply", "mark"} => threaded
    /\ q.step \in {"reply", "first"} /\ q.over \intersect Takers = {} =>
         letters[q.with].sent = 0 \/ q.with \in twice \union Sending

Kept0 == Stamping = {} => LeftBehind(account.last) = {}

IInv ==
  /\ Typed /\ Order /\ Marks /\ Kept0 /\ MailUsedOnce
  /\ \A r \in Requests : SyncOK(r, req[r]) /\ ConvertOK(req[r]) /\ SendOK(req[r])

-----------------------------------------------------------------------------
\* Data of the requests, and the lists of mails.

LEMMA DataFacts ==
  /\ SyncData \subseteq Data /\ ConvertData \subseteq Data /\ Comments \subseteq Data /\ NoData \in Data
  /\ Idle \in RequestType /\ Idle.op = "idle" /\ Idle.step = ""
BY DEF Data, Idle, RequestType, Steps

LEMMA Mails0 == /\ Mails \subseteq Nat /\ 0 \notin Mails
BY InboxAssumption

\* The next mail of a list is in it.
LEMMA LeastNatural ==
  ASSUME NEW S \in SUBSET Nat, S # {}
  PROVE  \E n \in S : \A m \in S : n <= m
<1> DEFINE R == {ss \in Nat \X Nat : ss[1] < ss[2]}
<1>1. IsWellFoundedOn(R, Nat)
  BY NatLessThanWellFounded, Zenon DEF OpToRel
<1>2. PICK n \in S : \A m \in S : ~(<<m, n>> \in R)
  <2> HIDE DEF R
  <2> QED
    BY <1>1, WFMin
<1> SUFFICES ASSUME NEW m \in S, m < n PROVE FALSE
  OBVIOUS
<1>3. <<m, n>> \in R
  OBVIOUS
<1> QED
  BY <1>2, <1>3

LEMMA Next0 == ASSUME NEW h \in SyncData, h.list # {} PROVE NextMail(h) \in h.list
<1>1. h.list \in SUBSET Nat
  BY Mails0 DEF SyncData
<1> QED
  BY <1>1, LeastNatural DEF NextMail

LEMMA RestType ==
  ASSUME NEW h \in SyncData
  PROVE  /\ Rest(h) \in SyncData /\ Rest(h).list = h.list \ {NextMail(h)}
         /\ Rest(h).start = h.start /\ Rest(h).last = h.last
BY DEF Rest, SyncData

-----------------------------------------------------------------------------
\* A step of r: it goes on as y, and what it wrote overtakes the others.

Moved(r, y, w) ==
  /\ req' \in [Requests -> RequestType] /\ req'[r] = y
  /\ \A q \in Requests \ {r} :
       /\ req'[q].op = req[q].op /\ req'[q].step = req[q].step /\ req'[q].with = req[q].with
       /\ req'[q].over = IF req[q].op = "idle" THEN req[q].over ELSE req[q].over \union w

LEMMA GoOnMoves ==
  ASSUME req \in [Requests -> RequestType], NEW r \in Requests, NEW step \in Steps,
         NEW with \in Data, GoOn(r, step, with)
  PROVE  \E y \in RequestType : /\ Moved(r, y, {}) /\ y.op = req[r].op /\ y.step = step
                                /\ y.with = with /\ y.over = req[r].over
<1>1. PICK y : y = [req[r] EXCEPT !.step = step, !.with = with]
  OBVIOUS
<1>2. y \in RequestType /\ y.op = req[r].op /\ y.step = step /\ y.with = with /\ y.over = req[r].over
  BY <1>1 DEF RequestType
<1>3. req' = [req EXCEPT ![r] = y]
  BY <1>1 DEF GoOn
<1>4. Moved(r, y, {})
  BY <1>2, <1>3 DEF Moved
<1> QED
  BY <1>2, <1>4

OthersOvertaken(r, op, o) ==
  /\ o \in [Requests -> RequestType]
  /\ \A q \in Requests \ {r} :
       /\ o[q].op = req[q].op /\ o[q].step = req[q].step /\ o[q].with = req[q].with
       /\ o[q].over = IF req[q].op = "idle" THEN req[q].over ELSE req[q].over \union {op}

LEMMA OvertakenType ==
  ASSUME req \in [Requests -> RequestType], NEW r \in Requests, NEW op \in InboxOps
  PROVE  OthersOvertaken(r, op, Overtaken(r, op)) /\ Overtaken(r, op)[r] = req[r]
<1>1. \A q \in Requests : [req[q] EXCEPT !.over = @ \union {op}] \in RequestType
  BY DEF RequestType
<1>2. ASSUME NEW q \in Requests \ {r}
      PROVE  /\ Overtaken(r, op)[q] \in RequestType
             /\ Overtaken(r, op)[q].op = req[q].op /\ Overtaken(r, op)[q].step = req[q].step
             /\ Overtaken(r, op)[q].with = req[q].with
             /\ Overtaken(r, op)[q].over = IF req[q].op = "idle" THEN req[q].over
                                           ELSE req[q].over \union {op}
  <2>1. Overtaken(r, op)[q] = IF req[q].op # "idle" THEN [req[q] EXCEPT !.over = @ \union {op}] ELSE req[q]
    BY DEF Overtaken, Active
  <2> QED
    BY <1>1, <2>1 DEF RequestType
<1>3. Overtaken(r, op)[r] = req[r]
  BY DEF Overtaken
<1>4. Overtaken(r, op) \in [Requests -> RequestType]
  BY <1>2, <1>3 DEF Overtaken
<1> QED
  BY <1>2, <1>3, <1>4 DEF OthersOvertaken

LEMMA CommitAndMoves ==
  ASSUME req \in [Requests -> RequestType], NEW r \in Requests, NEW step \in Steps,
         NEW with \in Data, req[r].op \in InboxOps, CommitAnd(r, step, with)
  PROVE  \E y \in RequestType : /\ Moved(r, y, {req[r].op}) /\ y.op = req[r].op /\ y.step = step
                                /\ y.with = with /\ y.over = req[r].over
<1>1. PICK y : y = [req[r] EXCEPT !.step = step, !.with = with]
  OBVIOUS
<1>2. y \in RequestType /\ y.op = req[r].op /\ y.step = step /\ y.with = with /\ y.over = req[r].over
  BY <1>1 DEF RequestType
<1>3. PICK o : o = Overtaken(r, req[r].op)
  OBVIOUS
<1>4. o[r] = req[r] /\ OthersOvertaken(r, req[r].op, o)
  BY <1>3, OvertakenType
<1>5. req' = [o EXCEPT ![r] = y]
  BY <1>1, <1>3, <1>4 DEF CommitAnd
<1>6. Moved(r, y, {req[r].op})
  BY <1>2, <1>4, <1>5 DEF Moved, OthersOvertaken
<1> QED
  BY <1>2, <1>6

LEMMA CommitMoves ==
  ASSUME req \in [Requests -> RequestType], NEW r \in Requests, req[r].op \in InboxOps, Commit(r)
  PROVE  Moved(r, Idle, {req[r].op})
<1>1. PICK o : o = Overtaken(r, req[r].op)
  OBVIOUS
<1>2. OthersOvertaken(r, req[r].op, o) /\ req' = [o EXCEPT ![r] = Idle]
  BY <1>1, OvertakenType DEF Commit
<1> QED
  BY <1>2, DataFacts DEF Moved, OthersOvertaken

LEMMA AnswerMoves ==
  ASSUME req \in [Requests -> RequestType], NEW r \in Requests, Answer(r)
  PROVE  Moved(r, Idle, {})
BY DataFacts DEF Moved, Answer

LEMMA OnceMoves ==
  ASSUME req \in [Requests -> RequestType], NEW r \in Requests, NEW op \in InboxOps, Once(r, op)
  PROVE  Moved(r, req[r], {op}) /\ req[r].op = "idle" /\ req[r] \in RequestType
<1>1. OthersOvertaken(r, op, req') /\ req'[r] = req[r] /\ req[r].op = "idle"
  BY OvertakenType DEF Once, Active
<1> QED
  BY <1>1 DEF Moved, OthersOvertaken

LEMMA AskMoves ==
  ASSUME req \in [Requests -> RequestType], NEW r \in Requests, NEW op \in {"syncAll", "convert", "send"},
         NEW step \in Steps, NEW with \in Data, Ask(r, op, step, with)
  PROVE  \E y \in RequestType : /\ Moved(r, y, {}) /\ y.op = op /\ y.step = step
                                /\ y.with = with /\ y.over = {} /\ req[r].op = "idle"
<1>1. PICK y : y = [op |-> op, step |-> step, with |-> with, over |-> {}]
  OBVIOUS
<1>2. y \in RequestType /\ y.op = op /\ y.step = step /\ y.with = with /\ y.over = {}
  BY <1>1 DEF RequestType
<1>3. req' = [req EXCEPT ![r] = y] /\ req[r].op = "idle"
  BY <1>1 DEF Ask, Active
<1>4. Moved(r, y, {})
  BY <1>2, <1>3 DEF Moved
<1> QED
  BY <1>2, <1>3, <1>4

\* What is being marked, sent and counted after a step.
LEMMA AfterMove ==
  ASSUME NEW r \in Requests, NEW y, NEW w, Moved(r, y, w)
  PROVE  /\ y.op \in {"syncAll", "convert"} /\ y.step = "mark" /\ y.with.m \in Mails => y.with.m \in Marking'
         /\ \A m \in Marking :
              m \in Marking' \/ (req[r].op # "idle" /\ req[r].step = "mark" /\ m = req[r].with.m)
         /\ y.op = "send" /\ y.step \in {"link", "mark"} /\ y.with \in Comments => y.with \in Sending'
         /\ \A c \in Sending : c \in Sending' \/ (req[r].op = "send" /\ req[r].step \in {"link", "mark"} /\ c = req[r].with)
         /\ Stamping' \ {r} = Stamping \ {r}
         /\ r \in Stamping' <=> y.op = "syncAll" /\ y.step = "stamp"
         /\ r \in Stamping <=> req[r].op = "syncAll" /\ req[r].step = "stamp"
<1>1. /\ Marking = {m \in Mails : \E q \in Requests :
              req[q].op \in {"syncAll", "convert"} /\ req[q].step = "mark" /\ req[q].with.m = m}
      /\ Marking' = {m \in Mails : \E q \in Requests :
              req'[q].op \in {"syncAll", "convert"} /\ req'[q].step = "mark" /\ req'[q].with.m = m}
  BY DEF Marking
<1>2. /\ y.op \in {"syncAll", "convert"} /\ y.step = "mark" /\ y.with.m \in Mails => y.with.m \in Marking'
      /\ \A m \in Marking :
              m \in Marking' \/ (req[r].op # "idle" /\ req[r].step = "mark" /\ m = req[r].with.m)
  BY <1>1 DEF Moved
<1>3. /\ y.op = "send" /\ y.step \in {"link", "mark"} /\ y.with \in Comments => y.with \in Sending'
      /\ \A c \in Sending : c \in Sending' \/ (req[r].op = "send" /\ req[r].step \in {"link", "mark"} /\ c = req[r].with)
  BY DEF Sending, Moved
<1>4. /\ Stamping' \ {r} = Stamping \ {r}
      /\ r \in Stamping' <=> y.op = "syncAll" /\ y.step = "stamp"
      /\ r \in Stamping <=> req[r].op = "syncAll" /\ req[r].step = "stamp"
  BY DEF Stamping, AtMail, At, Moved
<1> QED
  BY <1>2, <1>3, <1>4

-----------------------------------------------------------------------------
\* What a step of r that overtakes the others with w has to leave to them.

Framed(r, w) ==
  /\ Kept \subseteq Kept' /\ Arrived \subseteq Arrived' /\ day' \in Nat /\ day <= day' /\ (threaded => threaded')
  /\ w \intersect {"syncAll", "syncJob"} = {} =>
       /\ r \in Stamping => r \in Stamping'
       /\ \A b \in Int : b <= day => LeftBehind(b)' \subseteq LeftBehind(b)
  /\ w \intersect Takers = {} =>
       /\ \A m \in Kept :
            /\ Unused(m) => Unused(m)'
            /\ ~message[m].converted =>
                 /\ ~message'[m].converted
                 /\ Unused(m) \/ m \in twice \union Marking =>
                      Unused(m)' \/ m \in twice' \union Marking'
            /\ ThreadTasks(m)' \subseteq ThreadTasks(m)
       /\ \A c \in Comments : letters[c].sent = 0 \/ c \in twice \union Sending =>
                                letters'[c].sent = 0 \/ c \in twice' \union Sending'

LEMMA OthersKeep ==
  ASSUME IInv, NEW r \in Requests, NEW y, NEW w, Moved(r, y, w), Framed(r, w), NEW q \in Requests \ {r}
  PROVE  SyncOK(q, req[q])' /\ ConvertOK(req[q])' /\ SendOK(req[q])'
<1>1. PICK a, b : a = req[q] /\ b = req'[q]
  OBVIOUS
<1>2. /\ a \in RequestType /\ b \in RequestType
      /\ b.op = a.op /\ b.step = a.step /\ b.with = a.with
      /\ a.op # "idle" => b.over = a.over \union w
  BY <1>1 DEF IInv, Typed, Moved
<1>3. SyncOK(q, a) /\ ConvertOK(a) /\ SendOK(a) /\ day \in Nat
  BY <1>1 DEF IInv, Typed, Tables
<1>4. (SyncOK(q, req[q])' <=> SyncOK(q, b)') /\ (ConvertOK(req[q])' <=> ConvertOK(b)')
      /\ (SendOK(req[q])' <=> SendOK(b)')
  BY <1>1
<1>5. ASSUME a.op = "syncAll"
      PROVE  SyncOK(q, b)'
  <2>1. /\ b.with \in SyncData /\ b.with.start <= day' /\ b.with.last <= b.with.start
        /\ b.step \in {"fetch", "store", "rules", "auto", "comment", "mark", "end", "stamp"}
        /\ b.with.list = {} <=> b.step \in {"fetch", "end", "stamp"}
        /\ b.with.list \subseteq Arrived'
        /\ b.step \in {"comment", "mark"} => b.with.m = NextMail(b.with)
    BY <1>2, <1>3, <1>5 DEF SyncOK, SyncData, Framed
  <2>2. ASSUME b.over \intersect {"syncAll", "syncJob"} = {}, Stamping' \subseteq {q}
        PROVE  IF b.step = "fetch" THEN LeftBehind(b.with.last)' = {}
                                   ELSE LeftBehind(b.with.start)' \subseteq b.with.list
    <3>1. a.over \intersect {"syncAll", "syncJob"} = {} /\ w \intersect {"syncAll", "syncJob"} = {}
      BY <1>2, <1>5, <2>2
    <3>2. Stamping' \ {r} = Stamping \ {r}
      BY AfterMove
    <3>3. Stamping \subseteq {q}
      BY <2>2, <3>1, <3>2 DEF Framed
    <3>4. a.with.start \in Int /\ a.with.last \in Int /\ a.with.start <= day /\ a.with.last <= day
      BY <1>3, <1>5 DEF SyncOK, SyncData
    <3>5. \A t \in Int : t <= day => LeftBehind(t)' \subseteq LeftBehind(t)
      BY <3>1 DEF Framed
    <3> HIDE DEF LeftBehind
    <3> QED
      BY <1>2, <1>3, <1>5, <3>1, <3>3, <3>4, <3>5 DEF SyncOK
  <2>3. b.step \in {"rules", "auto", "comment", "mark"} => NextMail(b.with) \in Kept'
    BY <1>2, <1>3, <1>5 DEF SyncOK, Framed
  <2>4. b.step \in {"rules", "auto", "comment"} /\ b.over \intersect Takers = {} =>
          Unused(NextMail(b.with))'
    BY <1>2, <1>3, <1>5 DEF SyncOK, Framed
  <2> QED
    BY <2>1, <2>2, <2>3, <2>4 DEF SyncOK
<1>6. ASSUME a.op = "convert"
      PROVE  ConvertOK(b)'
  <2>1. PICK m : m = a.with.m
    OBVIOUS
  <2>2. /\ b.with \in ConvertData /\ b.with.m = m /\ m \in Kept /\ m \in Kept'
        /\ b.step \in {"find", "comment", "create", "mark"}
    BY <1>2, <1>3, <1>6, <2>1 DEF ConvertOK, Framed
  <2>3. ASSUME b.step # "mark", b.over \intersect Takers = {}
        PROVE  /\ ~message'[m].converted
               /\ Unused(m)' \/ m \in twice' \union Marking'
               /\ b.step = "create" => ThreadTasks(m)' = {}
    <3>1. a.over \intersect Takers = {} /\ w \intersect Takers = {}
      BY <1>2, <1>6, <2>3
    <3>2. /\ ~message[m].converted
          /\ Unused(m) \/ m \in twice \union Marking
          /\ a.step = "create" => ThreadTasks(m) = {}
      BY <1>2, <1>3, <1>6, <2>1, <2>3, <3>1 DEF ConvertOK
    <3> QED
      BY <1>2, <2>2, <3>1, <3>2 DEF Framed
  <2> QED
    BY <2>2, <2>3 DEF ConvertOK
<1>7. ASSUME a.op = "send"
      PROVE  SendOK(b)'
  BY <1>2, <1>3, <1>7 DEF SendOK, Framed
<1> QED
  BY <1>2, <1>4, <1>5, <1>6, <1>7 DEF SyncOK, ConvertOK, SendOK

\* The step keeps the invariant, when what it wrote is in order and what r is
\* about to do next is.
LEMMA StepKeeps ==
  ASSUME IInv, NEW r \in Requests, NEW y, NEW w, Moved(r, y, w), Framed(r, w),
         Tables', Order', Marks', Kept0', MailUsedOnce',
         SyncOK(r, y)', ConvertOK(y)', SendOK(y)'
  PROVE  IInv'
<1>1. (SyncOK(r, req[r]) /\ ConvertOK(req[r]) /\ SendOK(req[r]))'
  <2>1. y = req'[r]
    BY DEF Moved
  <2> QED
    BY <2>1
<1>2. ASSUME NEW q \in Requests
      PROVE  (SyncOK(q, req[q]) /\ ConvertOK(req[q]) /\ SendOK(req[q]))'
  <2>1. CASE q = r
    BY <1>1, <2>1
  <2>2. CASE q # r
    BY <2>2, OthersKeep
  <2> QED
    BY <2>1, <2>2
<1>3. Typed'
  BY DEF Typed, Moved
<1> QED
  BY <1>2, <1>3 DEF IInv

\* Nothing is asked of a slot at rest.
LEMMA AtRest ==
  ASSUME NEW r, NEW y \in RequestType, y.op = "idle"
  PROVE  SyncOK(r, y)' /\ ConvertOK(y)' /\ SendOK(y)'
BY DEF SyncOK, ConvertOK, SendOK

\* Steps that write nothing, and none of which leaves a mark to another.
LEMMA LookingKeeps ==
  ASSUME IInv, NEW r \in Requests, NEW y, Moved(r, y, {}), UNCHANGED inboxVars,
         req[r].op = "idle" \/ req[r].step \notin {"mark", "link", "stamp"},
         SyncOK(r, y)', ConvertOK(y)', SendOK(y)'
  PROVE  IInv'
<1>1. /\ day' = day /\ mail' = mail /\ message' = message /\ made' = made /\ note' = note
      /\ account' = account /\ letters' = letters /\ threaded' = threaded /\ lost' = lost
      /\ twice' = twice
  BY DEF inboxVars
<1>2. /\ Kept' = Kept /\ Late' = Late /\ LiveTasks' = LiveTasks /\ Arrived' = Arrived
      /\ \A b \in Int : LeftBehind(b)' = LeftBehind(b)
      /\ \A m : Unused(m)' = Unused(m) /\ ThreadTasks(m)' = ThreadTasks(m)
  BY <1>1 DEF Kept, Late, Arrived, LeftBehind, Unused, ThreadTasks, LiveTasks
<1>3. Marking \subseteq Marking' /\ Sending \subseteq Sending' /\ Stamping \subseteq Stamping'
  BY AfterMove
<1>4. Tables' /\ Order' /\ MailUsedOnce' /\ Tables
  BY <1>1, <1>2 DEF IInv, Typed, Tables, Order, MailUsedOnce
<1>5. Marks'
  BY <1>1, <1>3 DEF IInv, Marks
<1>6. Kept0'
  BY <1>1, <1>2, <1>3, <1>4 DEF IInv, Kept0, Tables
<1>7. Framed(r, {})
  BY <1>1, <1>2, <1>3, <1>4 DEF Framed, Tables
<1> QED
  BY <1>4, <1>5, <1>6, <1>7, StepKeeps

-----------------------------------------------------------------------------
\* The initial states, and the steps that only look.

LEMMA InitIInv == HandlersInit /\ InboxInit => IInv
<1> SUFFICES ASSUME HandlersInit, InboxInit PROVE IInv
  OBVIOUS
<1>1. \A r \in Requests : req[r] = Idle
  BY DEF HandlersInit
<1>2. req \in [Requests -> RequestType] /\ Stamping = {} /\ Marking = {} /\ Sending = {}
  BY <1>1, DataFacts DEF HandlersInit, Stamping, AtMail, At, Marking, Sending
<1>3. \A r \in Requests : SyncOK(r, req[r]) /\ ConvertOK(req[r]) /\ SendOK(req[r])
  BY <1>1, DataFacts DEF SyncOK, ConvertOK, SendOK
<1>4. \A m \in Mails : /\ mail[m] \in [day : {Never0, 0}, answers : Mails \union {0}, thread : Mails]
                       /\ message[m] = [status |-> "none", converted |-> FALSE]
                       /\ made[m] = "none" /\ note[m] = 0
  BY DEF InboxInit
<1>5. Tables
  <2>1. mail \in [Mails -> [day : Int, answers : Mails \union {0}, thread : Mails]]
    <3>1. mail \in [Mails -> [day : {Never0, 0}, answers : Mails \union {0}, thread : Mails]]
      BY DEF InboxInit
    <3> QED
      BY <3>1 DEF Never0
  <2>2. message \in [Mails -> [status : {"none", "PENDING", "IGNORED", "CONVERTED"}, converted : BOOLEAN]]
    BY DEF InboxInit
  <2>3. account \in [auto : BOOLEAN, last : Int] /\ letters \in [Comments -> [marked : BOOLEAN, sent : Nat]]
    BY DEF InboxInit, Never0
  <2> QED
    BY <2>1, <2>2, <2>3 DEF InboxInit, Tables
<1>6. Kept = {} /\ LiveTasks = {}
  BY <1>4 DEF Kept, LiveTasks
<1>7. Order
  BY <1>4, <1>6 DEF Order, InboxInit, Never0
<1>8. LeftBehind(account.last) = {}
  BY <1>4 DEF LeftBehind, Late, Arrived, InboxInit, Never0
<1>9. Marks /\ MailUsedOnce
  BY <1>4, <1>6 DEF Marks, MailUsedOnce, InboxInit
<1> QED
  BY <1>2, <1>3, <1>5, <1>7, <1>8, <1>9 DEF IInv, Typed, Kept0

\* Where r stands in a sync, and goes on to y.
Standing(r, y) ==
  /\ y \in RequestType /\ req[r] \in RequestType /\ y.op = req[r].op /\ y.over = req[r].over
  /\ req[r].op = "syncAll" /\ SyncOK(r, req[r]) /\ day \in Nat
  /\ req[r].step # "stamp" => r \notin Stamping
  /\ Stamping' \ {r} = Stamping \ {r}

LEMMA Stands ==
  ASSUME IInv, NEW r \in Requests, NEW y \in RequestType, NEW w, Moved(r, y, w),
         y.op = req[r].op, y.over = req[r].over, req[r].op = "syncAll"
  PROVE  Standing(r, y)
BY AfterMove DEF Standing, IInv, Typed, Tables

\* A sync takes the next mail up when the one it had is dealt with.
LEMMA OnwardOK ==
  ASSUME NEW r \in Requests, NEW y, Standing(r, y), day' = day,
         req[r].step \in {"store", "rules", "auto", "comment", "mark"},
         y.with = Rest(req[r].with),
         y.step = IF Rest(req[r].with).list = {} THEN "end" ELSE "store",
         \A b \in Int : b <= day => LeftBehind(b)' \subseteq LeftBehind(b),
         NextMail(req[r].with) \in Kept' \union lost', Arrived \subseteq Arrived'
  PROVE  SyncOK(r, y)'
<1>1. PICK x : x = req[r]
  OBVIOUS
<1>2. PICK h : h = x.with
  OBVIOUS
<1>3. /\ h \in SyncData /\ h.start \in Int /\ h.start <= day /\ h.last <= h.start
      /\ h.list \subseteq Arrived' /\ SyncOK(r, x)
  BY <1>1, <1>2 DEF Standing, SyncOK, SyncData
<1>4. /\ Rest(h) \in SyncData /\ Rest(h).list = h.list \ {NextMail(h)}
      /\ Rest(h).start = h.start /\ Rest(h).last = h.last
  BY <1>3, RestType
<1>5. /\ y.op = "syncAll" /\ y.over = x.over /\ y.with = Rest(h)
      /\ y.step = IF Rest(h).list = {} THEN "end" ELSE "store"
  BY <1>1, <1>2 DEF Standing
<1>6. ASSUME y.over \intersect {"syncAll", "syncJob"} = {}, Stamping' \subseteq {r}
      PROVE  LeftBehind(y.with.start)' \subseteq y.with.list
  <2>1. Stamping \subseteq {r}
    BY <1>6 DEF Standing
  <2>2. LeftBehind(h.start) \subseteq h.list
    BY <1>1, <1>2, <1>3, <1>5, <1>6, <2>1 DEF SyncOK, Standing
  <2>3. LeftBehind(h.start)' \subseteq LeftBehind(h.start)
    BY <1>3
  <2>4. NextMail(h) \notin LeftBehind(h.start)'
    BY <1>1, <1>2 DEF LeftBehind, Late
  <2>5. LeftBehind(h.start)' \subseteq h.list \ {NextMail(h)}
    BY <2>2, <2>3, <2>4
  <2>6. y.with.start = h.start /\ y.with.list = h.list \ {NextMail(h)}
    BY <1>4, <1>5
  <2>7. LeftBehind(y.with.start)' = LeftBehind(h.start)'
    BY <2>6
  <2> QED
    BY <2>5, <2>6, <2>7
<1> QED
  BY <1>3, <1>4, <1>5, <1>6 DEF SyncOK

LEMMA AskSyncAllKeeps == ASSUME IInv, NEW r \in Requests, AskSyncAll(r) PROVE IInv'
<1>1. PICK h : h = [start |-> day, last |-> account.last, list |-> {}, m |-> 0, task |-> 0]
  OBVIOUS
<1>2. /\ h \in SyncData /\ h \in Data /\ h.start = day /\ h.last = account.last /\ h.list = {}
      /\ account.last <= day /\ day \in Nat /\ req \in [Requests -> RequestType]
  <2>1. account.last <= day /\ account.last \in Int /\ day \in Nat /\ req \in [Requests -> RequestType]
    BY DEF IInv, Typed, Tables, Order
  <2>2. h \in SyncData /\ h.start = day /\ h.last = account.last /\ h.list = {}
    BY <1>1, <2>1 DEF SyncData
  <2> QED
    BY <2>1, <2>2, DataFacts
<1>3. Ask(r, "syncAll", "fetch", h) /\ UNCHANGED inboxVars
  BY <1>1 DEF AskSyncAll
<1>4. PICK y \in RequestType : /\ Moved(r, y, {}) /\ y.op = "syncAll" /\ y.step = "fetch"
                               /\ y.with = h /\ y.over = {} /\ req[r].op = "idle"
  <2>1. "syncAll" \in {"syncAll", "convert", "send"} /\ "fetch" \in Steps
    BY DEF Steps
  <2> QED
    BY <1>2, <1>3, <2>1, AskMoves
<1>5. SyncOK(r, y)'
  <2>1. ASSUME Stamping' \subseteq {r}
        PROVE  LeftBehind(h.last)' = {}
    <3>1. Stamping = {}
      BY <1>4, <2>1, AfterMove
    <3>2. LeftBehind(account.last) = {}
      BY <3>1 DEF IInv, Kept0
    <3>3. LeftBehind(h.last)' = LeftBehind(h.last)
      BY <1>3 DEF LeftBehind, Late, Arrived, Kept, inboxVars
    <3> QED
      BY <1>2, <3>2, <3>3
  <2>2. day' = day
    BY <1>3 DEF inboxVars
  <2> QED
    BY <1>2, <1>4, <2>1, <2>2 DEF SyncOK
<1>6. ConvertOK(y)' /\ SendOK(y)'
  BY <1>4 DEF ConvertOK, SendOK
<1> QED
  BY <1>3, <1>4, <1>5, <1>6, LookingKeeps

LEMMA FetchKeeps == ASSUME IInv, NEW r \in Requests, Fetch(r) PROVE IInv'
<1>1. PICK x : x = req[r]
  OBVIOUS
<1>2. PICK h : h = x.with
  OBVIOUS
<1>3. /\ x.op = "syncAll" /\ x.step = "fetch" /\ SyncOK(r, x) /\ req \in [Requests -> RequestType]
  BY <1>1 DEF Fetch, AtMail, At, IInv, Typed
<1>4. h \in SyncData /\ h.start \in Int /\ h.last \in Int /\ h.start <= day /\ h.last <= h.start
  BY <1>2, <1>3 DEF SyncOK, SyncData
<1>5. PICK g : g = [h EXCEPT !.list = Since(h)]
  OBVIOUS
<1>6. g \in SyncData /\ g.start = h.start /\ g.last = h.last /\ g.list = Since(h)
  BY <1>4, <1>5 DEF SyncData, Since, Arrived
<1>7. PICK step \in Steps : step = IF Since(h) = {} THEN "end" ELSE "store"
  BY DEF Steps
<1>8. GoOn(r, step, g) /\ UNCHANGED inboxVars
  BY <1>1, <1>2, <1>5, <1>7 DEF Fetch
<1>9. PICK y \in RequestType : /\ Moved(r, y, {}) /\ y.op = x.op /\ y.step = step
                               /\ y.with = g /\ y.over = x.over
  BY <1>1, <1>3, <1>6, <1>8, GoOnMoves, DataFacts
<1>10. /\ day' = day /\ Arrived' = Arrived /\ Since(h) \subseteq Arrived
       /\ \A b \in Int : LeftBehind(b)' = LeftBehind(b)
  BY <1>8 DEF LeftBehind, Late, Arrived, Kept, Since, inboxVars
<1>11. SyncOK(r, y)'
  <2>1. ASSUME y.over \intersect {"syncAll", "syncJob"} = {}, Stamping' \subseteq {r}
        PROVE  LeftBehind(h.start) \subseteq Since(h)
    <3>1. Stamping \subseteq {r}
      BY <1>9, <2>1, AfterMove
    <3>2. LeftBehind(h.last) = {}
      BY <1>2, <1>3, <1>9, <2>1, <3>1 DEF SyncOK
    <3>3. mail \in [Mails -> [day : Int, answers : Mails \union {0}, thread : Mails]]
      BY DEF IInv, Typed, Tables
    <3> QED
      BY <1>4, <3>2, <3>3 DEF LeftBehind, Late, Arrived, Since
  <2>2. LeftBehind(g.start)' = LeftBehind(h.start)
    BY <1>4, <1>6, <1>10
  <2> HIDE DEF LeftBehind, Since
  <2> QED
    BY <1>3, <1>4, <1>6, <1>7, <1>9, <1>10, <2>1, <2>2 DEF SyncOK
<1>12. ConvertOK(y)' /\ SendOK(y)'
  BY <1>3, <1>9 DEF ConvertOK, SendOK
<1> QED
  BY <1>1, <1>3, <1>8, <1>9, <1>11, <1>12, LookingKeeps

LEMMA AskConvertKeeps == ASSUME IInv, NEW r \in Requests, AskConvert(r) PROVE IInv'
<1>1. PICK m \in Mails : /\ NotConverted(m) /\ Ask(r, "convert", "find", [m |-> m, task |-> 0])
                         /\ UNCHANGED inboxVars
  BY DEF AskConvert
<1>2. PICK h : h = [m |-> m, task |-> 0]
  OBVIOUS
<1>3. h \in ConvertData /\ h \in Data /\ h.m = m /\ req \in [Requests -> RequestType]
  BY <1>2, DataFacts DEF ConvertData, IInv, Typed
<1>4. Ask(r, "convert", "find", h)
  BY <1>1, <1>2
<1>5. PICK y \in RequestType : /\ Moved(r, y, {}) /\ y.op = "convert" /\ y.step = "find"
                               /\ y.with = h /\ y.over = {} /\ req[r].op = "idle"
  <2>1. "convert" \in {"syncAll", "convert", "send"} /\ "find" \in Steps
    BY DEF Steps
  <2> QED
    BY <1>3, <1>4, <2>1, AskMoves
<1>6. m \in Kept /\ ~message[m].converted /\ (Unused(m) \/ m \in twice \union Marking)
  BY <1>1 DEF NotConverted, IInv, Marks, Unused
<1>7. Marking \subseteq Marking'
  BY <1>5, AfterMove
<1>8. ConvertOK(y)'
  BY <1>1, <1>3, <1>5, <1>6, <1>7 DEF ConvertOK, Kept, Unused, inboxVars
<1>9. SyncOK(r, y)' /\ SendOK(y)'
  BY <1>5 DEF SyncOK, SendOK
<1> QED
  BY <1>1, <1>5, <1>8, <1>9, LookingKeeps

LEMMA AskSendKeeps == ASSUME IInv, NEW r \in Requests, AskSend(r) PROVE IInv'
<1>1. PICK c \in Comments :
        /\ (threaded => ~letters[c].marked)
        /\ Ask(r, "send", IF threaded THEN "reply" ELSE "first", c)
        /\ UNCHANGED inboxVars
  BY DEF AskSend
<1>2. PICK step \in Steps : step = IF threaded THEN "reply" ELSE "first"
  BY DEF Steps
<1>3. PICK y \in RequestType : /\ Moved(r, y, {}) /\ y.op = "send" /\ y.step = step
                               /\ y.with = c /\ y.over = {} /\ req[r].op = "idle"
  <2>1. "send" \in {"syncAll", "convert", "send"} /\ c \in Data /\ req \in [Requests -> RequestType]
    BY DataFacts DEF IInv, Typed
  <2>2. Ask(r, "send", step, c)
    BY <1>1, <1>2
  <2> QED
    BY <2>1, <2>2, AskMoves
<1>4. letters[c].sent = 0 \/ c \in twice \union Sending
  <2>1. letters[c].sent \in Nat
    BY DEF IInv, Typed, Tables
  <2> QED
    BY <1>1, <2>1 DEF IInv, Marks
<1>5. Sending \subseteq Sending'
  BY <1>3, AfterMove
<1>6. SendOK(y)'
  BY <1>1, <1>2, <1>3, <1>4, <1>5 DEF SendOK, inboxVars
<1>7. SyncOK(r, y)' /\ ConvertOK(y)'
  BY <1>3 DEF SyncOK, ConvertOK
<1> QED
  BY <1>1, <1>3, <1>6, <1>7, LookingKeeps

\* A sync passes on to the next mail.
LEMMA OnwardMoves ==
  ASSUME IInv, NEW r \in Requests, NEW h, h = req[r].with, req[r].op = "syncAll", Onward(r, h),
         req[r].step \in {"store", "rules", "auto", "comment", "mark"}
  PROVE  \E y \in RequestType :
           /\ Moved(r, y, {}) /\ Standing(r, y) /\ y.op = "syncAll" /\ y.over = req[r].over
           /\ y.with = Rest(h) /\ y.step = IF Rest(h).list = {} THEN "end" ELSE "store"
<1>1. req \in [Requests -> RequestType] /\ SyncOK(r, req[r])
  BY DEF IInv, Typed
<1>2. h \in SyncData
  BY <1>1 DEF SyncOK
<1>3. Rest(h) \in Data
  BY <1>2, RestType, DataFacts
<1>4. PICK step \in Steps : step = IF Rest(h).list = {} THEN "end" ELSE "store"
  BY DEF Steps
<1>5. GoOn(r, step, Rest(h))
  BY <1>4 DEF Onward
<1>6. PICK y \in RequestType : /\ Moved(r, y, {}) /\ y.op = req[r].op /\ y.step = step
                               /\ y.with = Rest(h) /\ y.over = req[r].over
  BY <1>1, <1>3, <1>5, GoOnMoves
<1>7. Standing(r, y)
  BY <1>6, Stands
<1> QED
  BY <1>4, <1>6, <1>7

LEMMA PassingKeeps ==
  ASSUME IInv, NEW r \in Requests, NEW h, h = req[r].with, req[r].op = "syncAll", Onward(r, h),
         req[r].step \in {"store", "rules", "auto", "comment"}, NextMail(h) \in Kept, UNCHANGED inboxVars
  PROVE  IInv'
<1>1. PICK y \in RequestType :
        /\ Moved(r, y, {}) /\ Standing(r, y) /\ y.op = "syncAll" /\ y.over = req[r].over
        /\ y.with = Rest(h) /\ y.step = IF Rest(h).list = {} THEN "end" ELSE "store"
  BY OnwardMoves
<1>2. /\ day' = day /\ Kept' = Kept /\ Arrived' = Arrived /\ \A b \in Int : LeftBehind(b)' = LeftBehind(b)
  BY DEF LeftBehind, Late, Arrived, Kept, inboxVars
<1>3. SyncOK(r, y)'
  BY <1>1, <1>2, OnwardOK
<1>4. ConvertOK(y)' /\ SendOK(y)'
  BY <1>1 DEF ConvertOK, SendOK
<1> QED
  BY <1>1, <1>3, <1>4, LookingKeeps

LEMMA AutoCreateKeeps == ASSUME IInv, NEW r \in Requests, AutoCreate(r) PROVE IInv'
<1>1. PICK x : x = req[r]
  OBVIOUS
<1>2. PICK h : h = x.with
  OBVIOUS
<1>3. PICK m : m = NextMail(h)
  OBVIOUS
<1>4. /\ x.op = "syncAll" /\ x.step = "auto" /\ SyncOK(r, x) /\ req \in [Requests -> RequestType]
      /\ UNCHANGED inboxVars
  BY <1>1 DEF AutoCreate, AtMail, At, IInv, Typed
<1>5. /\ h \in SyncData /\ h.start \in Int /\ h.start <= day /\ h.last <= h.start
      /\ h.list # {} /\ h.list \subseteq Arrived /\ m \in Kept
  BY <1>2, <1>3, <1>4 DEF SyncOK, SyncData
<1>6. CASE Onward(r, h)
  BY <1>1, <1>2, <1>3, <1>4, <1>5, <1>6, PassingKeeps
<1>7. ASSUME NEW t \in Mails, GoOn(r, "comment", [h EXCEPT !.m = m, !.task = t])
      PROVE  IInv'
  <2>1. PICK g : g = [h EXCEPT !.m = m, !.task = t]
    OBVIOUS
  <2>2. /\ g \in SyncData /\ g.start = h.start /\ g.last = h.last /\ g.list = h.list /\ g.m = m
    BY <1>5, <2>1 DEF SyncData, Kept
  <2>3. NextMail(g) = m
    BY <1>3, <2>2 DEF NextMail
  <2>4. GoOn(r, "comment", g) /\ "comment" \in Steps /\ g \in Data
    BY <1>7, <2>1, <2>2, DataFacts DEF Steps
  <2>5. PICK y \in RequestType : /\ Moved(r, y, {}) /\ y.op = x.op /\ y.step = "comment"
                                 /\ y.with = g /\ y.over = x.over
    BY <1>1, <1>4, <2>4, GoOnMoves
  <2>6. /\ day' = day /\ Kept' = Kept /\ Arrived' = Arrived /\ Unused(m)' = Unused(m)
        /\ \A b \in Int : LeftBehind(b)' = LeftBehind(b)
    BY <1>4 DEF LeftBehind, Late, Arrived, Kept, Unused, inboxVars
  <2>7. Stamping = Stamping' \ {r} /\ r \notin Stamping
    BY <1>1, <1>4, <2>5, AfterMove
  <2>8. SyncOK(r, y)'
    <3>1. LeftBehind(g.start)' = LeftBehind(h.start)
      BY <1>5, <2>2, <2>6
    <3>2. y.over \intersect {"syncAll", "syncJob"} = {} /\ Stamping' \subseteq {r} =>
            LeftBehind(g.start)' \subseteq g.list
      BY <1>2, <1>4, <2>2, <2>5, <2>7, <3>1 DEF SyncOK
    <3>3. y.over \intersect Takers = {} => Unused(m)
      BY <1>2, <1>3, <1>4, <2>5 DEF SyncOK
    <3> HIDE DEF LeftBehind, Unused
    <3> QED
      BY <1>4, <1>5, <2>2, <2>3, <2>5, <2>6, <3>2, <3>3 DEF SyncOK
  <2>9. ConvertOK(y)' /\ SendOK(y)'
    BY <1>4, <2>5 DEF ConvertOK, SendOK
  <2> QED
    BY <1>1, <1>4, <2>5, <2>8, <2>9, LookingKeeps
<1>8. \A t \in ThreadTasks(m) : t \in Mails
  BY DEF ThreadTasks, LiveTasks
<1>9. \A t \in AnsweredTasks(m) : t \in Mails
  BY DEF AnsweredTasks, LiveTasks
<1> QED
  <2>1. PICK tasks : tasks = IF ThreadTasks(m) # {} THEN ThreadTasks(m) ELSE AnsweredTasks(m)
    OBVIOUS
  <2>2. \A t \in tasks : t \in Mails
    BY <1>8, <1>9, <2>1
  <2>3. Onward(r, h) \/ \E t \in tasks : GoOn(r, "comment", [h EXCEPT !.m = m, !.task = t])
    BY <1>1, <1>2, <1>3, <2>1 DEF AutoCreate
  <2> QED
    BY <1>6, <1>7, <2>2, <2>3

LEMMA FindThreadKeeps == ASSUME IInv, NEW r \in Requests, FindThread(r) PROVE IInv'
<1>1. PICK x : x = req[r]
  OBVIOUS
<1>2. PICK h : h = x.with
  OBVIOUS
<1>3. /\ x.op = "convert" /\ x.step = "find" /\ ConvertOK(x) /\ req \in [Requests -> RequestType]
      /\ UNCHANGED inboxVars
  BY <1>1 DEF FindThread, At, IInv, Typed
<1>4. h \in ConvertData /\ h.m \in Kept
  BY <1>2, <1>3 DEF ConvertOK
<1>5. ASSUME NEW g, NEW step \in {"comment", "create"}, g \in ConvertData, g.m = h.m, GoOn(r, step, g),
             step = "create" => ThreadTasks(h.m) = {}
      PROVE  IInv'
  <2>1. step \in Steps /\ g \in Data
    BY <1>5, DataFacts DEF Steps
  <2>2. PICK y \in RequestType : /\ Moved(r, y, {}) /\ y.op = x.op /\ y.step = step
                                 /\ y.with = g /\ y.over = x.over
    BY <1>1, <1>3, <1>5, <2>1, GoOnMoves
  <2>3. Marking \subseteq Marking'
    BY <1>1, <1>3, <2>2, AfterMove
  <2>4. /\ message' = message /\ twice' = twice /\ Kept' = Kept
        /\ \A m : Unused(m)' = Unused(m) /\ ThreadTasks(m)' = ThreadTasks(m)
    BY <1>3 DEF Kept, Unused, ThreadTasks, LiveTasks, inboxVars
  <2>5. ConvertOK(y)'
    BY <1>2, <1>3, <1>4, <1>5, <2>2, <2>3, <2>4 DEF ConvertOK
  <2>6. SyncOK(r, y)' /\ SendOK(y)'
    BY <1>3, <2>2 DEF SyncOK, SendOK
  <2> QED
    BY <1>1, <1>3, <2>2, <2>5, <2>6, LookingKeeps
<1>6. ASSUME NEW t \in ThreadTasks(h.m), GoOn(r, "comment", [h EXCEPT !.task = t])
      PROVE  IInv'
  <2>1. PICK g : g = [h EXCEPT !.task = t]
    OBVIOUS
  <2>2. g \in ConvertData /\ g.m = h.m
    BY <1>4, <2>1 DEF ConvertData, ThreadTasks, LiveTasks
  <2> QED
    BY <1>5, <1>6, <2>1, <2>2
<1>7. CASE ThreadTasks(h.m) = {} /\ GoOn(r, "create", h)
  BY <1>4, <1>5, <1>7
<1> QED
  BY <1>1, <1>2, <1>6, <1>7 DEF FindThread

-----------------------------------------------------------------------------
\* Requests of one statement: a mail arrives, a day passes, a manual sync, and
\* what the members change in the inbox.

LEMMA OnceStep ==
  ASSUME IInv, NEW r \in Requests, NEW op \in InboxOps, Once(r, op)
  PROVE  /\ \E y : /\ Moved(r, y, {op}) /\ SyncOK(r, y)' /\ ConvertOK(y)' /\ SendOK(y)'
         /\ Marking \subseteq Marking' /\ Sending \subseteq Sending' /\ Stamping' = Stamping
         /\ Tables /\ Order /\ Marks /\ Kept0 /\ MailUsedOnce
<1>1. req \in [Requests -> RequestType]
  BY DEF IInv, Typed
<1>2. PICK y \in RequestType : y = req[r] /\ y.op = "idle" /\ Moved(r, y, {op})
  BY <1>1, OnceMoves
<1>3. SyncOK(r, y)' /\ ConvertOK(y)' /\ SendOK(y)'
  BY <1>2, AtRest
<1>4. Marking \subseteq Marking' /\ Sending \subseteq Sending' /\ Stamping' = Stamping
  BY <1>2, AfterMove
<1> QED
  BY <1>2, <1>3, <1>4 DEF IInv, Typed

LEMMA ArriveKeeps == ASSUME IInv, NEW r \in Requests, Arrive(r) PROVE IInv'
<1>0. PICK m \in Mails \ Arrived :
        \E l \in Letters(m, mail) :
          /\ Once(r, "arrive") /\ mail' = [mail EXCEPT ![m] = [l EXCEPT !.day = day]]
          /\ UNCHANGED <<day, boxVars, letters, threaded>>
  BY DEF Arrive
<1>1. PICK l \in Letters(m, mail) :
        /\ Once(r, "arrive") /\ mail' = [mail EXCEPT ![m] = [l EXCEPT !.day = day]]
        /\ UNCHANGED <<day, boxVars, letters, threaded>>
  BY <1>0
<1>2. "arrive" \in InboxOps
  BY DEF InboxOps
<1>3. PICK y : /\ Moved(r, y, {"arrive"}) /\ SyncOK(r, y)' /\ ConvertOK(y)' /\ SendOK(y)'
               /\ Marking \subseteq Marking' /\ Sending \subseteq Sending' /\ Stamping' = Stamping
               /\ Tables /\ Order /\ Marks /\ Kept0 /\ MailUsedOnce
  BY <1>1, <1>2, OnceStep
<1>4. /\ day' = day /\ message' = message /\ made' = made /\ note' = note /\ account' = account
      /\ letters' = letters /\ threaded' = threaded /\ lost' = lost /\ twice' = twice
  BY <1>1 DEF boxVars
<1>5. PICK x : x = [l EXCEPT !.day = day]
  OBVIOUS
<1>6. x \in [day : Int, answers : Mails \union {0}, thread : Mails] /\ x.day = day /\ day \in Nat
  <2>1. \A k \in Mails : mail[k].thread \in Mails
    BY <1>3 DEF Tables
  <2>2. l.answers \in Mails \union {0} /\ l.thread \in Mails /\ l = [day |-> l.day, answers |-> l.answers, thread |-> l.thread]
    BY <1>1, <2>1 DEF Letters
  <2>3. x = [day |-> day, answers |-> l.answers, thread |-> l.thread]
    BY <1>5, <2>2
  <2> QED
    BY <1>3, <2>2, <2>3 DEF Tables
<1>7. /\ mail' \in [Mails -> [day : Int, answers : Mails \union {0}, thread : Mails]]
      /\ mail'[m] = x /\ \A k \in Mails \ {m} : mail'[k] = mail[k]
  BY <1>1, <1>3, <1>5, <1>6 DEF Tables
<1>8. mail[m].day = Never0 /\ Kept' = Kept /\ m \notin Kept /\ Arrived \subseteq Arrived'
  BY <1>1, <1>3, <1>4, <1>6, <1>7 DEF Arrived, Kept, Order, Never0
<1>9. Tables'
  BY <1>3, <1>4, <1>7 DEF Tables
<1>10. Order'
  BY <1>3, <1>4, <1>6, <1>7, <1>8 DEF Order, Never0
<1>11. Marks'
  BY <1>3, <1>4 DEF Marks
<1>12. \A b \in Int : b <= day => LeftBehind(b)' \subseteq LeftBehind(b)
  BY <1>4, <1>6, <1>7, <1>8 DEF LeftBehind, Late, Arrived
<1>13. Kept0'
  <2>1. account.last \in Int /\ account.last <= day
    BY <1>3 DEF Tables, Order
  <2> QED
    BY <1>3, <1>4, <1>12, <2>1 DEF Kept0
<1>14. LiveTasks' = LiveTasks /\ LiveTasks \subseteq Kept /\ LiveTasks \subseteq Mails
  BY <1>3, <1>4 DEF LiveTasks, Order
<1>15. MailUsedOnce'
  BY <1>3, <1>4, <1>7, <1>8, <1>14 DEF MailUsedOnce
<1>16. \A k \in Kept : Unused(k)' = Unused(k) /\ ThreadTasks(k)' = ThreadTasks(k)
  BY <1>4, <1>7, <1>8, <1>14 DEF Unused, ThreadTasks, Kept
<1>17. Framed(r, {"arrive"})
  BY <1>3, <1>4, <1>6, <1>8, <1>12, <1>16 DEF Framed
<1> QED
  BY <1>3, <1>9, <1>10, <1>11, <1>13, <1>15, <1>17, StepKeeps

LEMMA MidnightKeeps == ASSUME IInv, NEW r \in Requests, Midnight(r) PROVE IInv'
<1>1. Once(r, "midnight") /\ day' = day + 1 /\ "midnight" \in InboxOps
  BY DEF Midnight, InboxOps
<1>2. PICK y : /\ Moved(r, y, {"midnight"}) /\ SyncOK(r, y)' /\ ConvertOK(y)' /\ SendOK(y)'
               /\ Marking \subseteq Marking' /\ Sending \subseteq Sending' /\ Stamping' = Stamping
               /\ Tables /\ Order /\ Marks /\ Kept0 /\ MailUsedOnce
  BY <1>1, OnceStep
<1>3. /\ mail' = mail /\ message' = message /\ made' = made /\ note' = note /\ account' = account
      /\ letters' = letters /\ threaded' = threaded /\ lost' = lost /\ twice' = twice
  BY DEF Midnight, boxVars
<1>4. /\ Kept' = Kept /\ Late' = Late /\ LiveTasks' = LiveTasks /\ Arrived' = Arrived
      /\ \A b \in Int : LeftBehind(b)' = LeftBehind(b)
      /\ \A m : Unused(m)' = Unused(m) /\ ThreadTasks(m)' = ThreadTasks(m)
  BY <1>3 DEF Kept, Late, Arrived, LeftBehind, Unused, ThreadTasks, LiveTasks
<1>5. Tables' /\ day <= day'
  BY <1>1, <1>2, <1>3 DEF Tables
<1>6. Order'
  <2>1. account.last \in Int /\ \A m \in Mails : mail[m].day \in Int
    BY <1>2 DEF Tables
  <2> QED
    BY <1>1, <1>2, <1>3, <1>4, <2>1 DEF Order, Tables
<1>7. Marks' /\ MailUsedOnce'
  BY <1>2, <1>3, <1>4 DEF Marks, MailUsedOnce
<1>8. Kept0'
  BY <1>2, <1>3, <1>4 DEF Kept0, Tables
<1>9. Framed(r, {"midnight"})
  BY <1>2, <1>3, <1>4, <1>5 DEF Framed, Tables
<1> QED
  BY <1>2, <1>5, <1>6, <1>7, <1>8, <1>9, StepKeeps

LEMMA SyncJobKeeps == ASSUME IInv, NEW r \in Requests, SyncJob(r) PROVE IInv'
<1>1. /\ Once(r, "syncJob") /\ "syncJob" \in InboxOps
      /\ account' = [account EXCEPT !.last = day] /\ lost' = lost \union Late
  BY DEF SyncJob, InboxOps
<1>2. PICK y : /\ Moved(r, y, {"syncJob"}) /\ SyncOK(r, y)' /\ ConvertOK(y)' /\ SendOK(y)'
               /\ Marking \subseteq Marking' /\ Sending \subseteq Sending' /\ Stamping' = Stamping
               /\ Tables /\ Order /\ Marks /\ Kept0 /\ MailUsedOnce
  BY <1>1, OnceStep
<1>3. /\ day' = day /\ mail' = mail /\ message' = message /\ made' = made /\ note' = note
      /\ letters' = letters /\ threaded' = threaded /\ twice' = twice
  BY DEF SyncJob
<1>4. /\ Kept' = Kept /\ Late' = Late /\ LiveTasks' = LiveTasks /\ Arrived' = Arrived
      /\ \A b \in Int : LeftBehind(b)' = {}
      /\ \A m : Unused(m)' = Unused(m) /\ ThreadTasks(m)' = ThreadTasks(m)
  BY <1>1, <1>3 DEF Kept, Late, Arrived, LeftBehind, Unused, ThreadTasks, LiveTasks
<1>5. Tables' /\ account'.last = day
  BY <1>1, <1>2, <1>3 DEF Tables
<1>6. Order' /\ Marks' /\ MailUsedOnce'
  BY <1>2, <1>3, <1>4, <1>5 DEF Order, Marks, MailUsedOnce, Tables
<1>7. Kept0' /\ Framed(r, {"syncJob"})
  BY <1>2, <1>3, <1>4, <1>5 DEF Kept0, Framed, Tables
<1> QED
  BY <1>2, <1>5, <1>6, <1>7, StepKeeps

LEMMA SetAutoKeeps == ASSUME IInv, NEW r \in Requests, SetAuto(r) PROVE IInv'
<1>1. /\ Once(r, "setAuto") /\ "setAuto" \in InboxOps /\ account' = [account EXCEPT !.auto = ~@]
  BY DEF SetAuto, InboxOps
<1>2. PICK y : /\ Moved(r, y, {"setAuto"}) /\ SyncOK(r, y)' /\ ConvertOK(y)' /\ SendOK(y)'
               /\ Marking \subseteq Marking' /\ Sending \subseteq Sending' /\ Stamping' = Stamping
               /\ Tables /\ Order /\ Marks /\ Kept0 /\ MailUsedOnce
  BY <1>1, OnceStep
<1>3. /\ day' = day /\ mail' = mail /\ message' = message /\ made' = made /\ note' = note
      /\ letters' = letters /\ threaded' = threaded /\ twice' = twice /\ lost' = lost
  BY DEF SetAuto
<1>4. /\ Kept' = Kept /\ Late' = Late /\ LiveTasks' = LiveTasks /\ Arrived' = Arrived
      /\ \A b \in Int : LeftBehind(b)' = LeftBehind(b)
      /\ \A m : Unused(m)' = Unused(m) /\ ThreadTasks(m)' = ThreadTasks(m)
  BY <1>3 DEF Kept, Late, Arrived, LeftBehind, Unused, ThreadTasks, LiveTasks
<1>5. Tables' /\ account'.last = account.last
  BY <1>1, <1>2, <1>3 DEF Tables
<1>6. Order' /\ Marks' /\ MailUsedOnce'
  BY <1>2, <1>3, <1>4, <1>5 DEF Order, Marks, MailUsedOnce
<1>7. Kept0' /\ Framed(r, {"setAuto"})
  BY <1>2, <1>3, <1>4, <1>5 DEF Kept0, Framed, Tables
<1> QED
  BY <1>2, <1>5, <1>6, <1>7, StepKeeps

LEMMA SetStatusKeeps == ASSUME IInv, NEW r \in Requests, SetStatus(r) PROVE IInv'
<1>1. PICK m \in Kept, status \in {"PENDING", "IGNORED"} :
        /\ Once(r, "setStatus") /\ message' = [message EXCEPT ![m].status = status]
        /\ UNCHANGED <<day, mail, made, note, account, letters, threaded, lost, twice>>
  BY DEF SetStatus
<1>2. "setStatus" \in InboxOps
  BY DEF InboxOps
<1>3. PICK y : /\ Moved(r, y, {"setStatus"}) /\ SyncOK(r, y)' /\ ConvertOK(y)' /\ SendOK(y)'
               /\ Marking \subseteq Marking' /\ Sending \subseteq Sending' /\ Stamping' = Stamping
               /\ Tables /\ Order /\ Marks /\ Kept0 /\ MailUsedOnce
  BY <1>1, <1>2, OnceStep
<1>4. PICK x : x = [message[m] EXCEPT !.status = status]
  OBVIOUS
<1>5. /\ x \in [status : {"none", "PENDING", "IGNORED", "CONVERTED"}, converted : BOOLEAN]
      /\ x.status # "none" /\ x.converted = message[m].converted
  BY <1>3, <1>4 DEF Tables, Kept
<1>6. message' = [message EXCEPT ![m] = x]
  BY <1>1, <1>4
<1>7. /\ message' \in [Mails -> [status : {"none", "PENDING", "IGNORED", "CONVERTED"}, converted : BOOLEAN]]
      /\ \A k \in Mails : message'[k].converted = message[k].converted
  BY <1>3, <1>5, <1>6 DEF Tables, Kept
<1>8. Kept' = Kept
  BY <1>3, <1>5, <1>6 DEF Kept, Tables
<1>9. /\ Late' = Late /\ LiveTasks' = LiveTasks /\ Arrived' = Arrived
      /\ \A b \in Int : LeftBehind(b)' = LeftBehind(b)
      /\ \A k : Unused(k)' = Unused(k) /\ ThreadTasks(k)' = ThreadTasks(k)
  BY <1>1, <1>8 DEF Late, Arrived, LeftBehind, Unused, ThreadTasks, LiveTasks
<1>10. Tables'
  BY <1>1, <1>3, <1>7 DEF Tables
<1>11. Order' /\ MailUsedOnce' /\ Kept0'
  BY <1>1, <1>3, <1>8, <1>9 DEF Order, MailUsedOnce, Kept0, Tables
<1>12. Marks'
  BY <1>1, <1>3, <1>7 DEF Marks
<1>13. Framed(r, {"setStatus"})
  BY <1>1, <1>3, <1>7, <1>8, <1>9 DEF Framed, Tables, Kept
<1> QED
  BY <1>3, <1>10, <1>11, <1>12, <1>13, StepKeeps

LEMMA DeleteMailTaskKeeps == ASSUME IInv, NEW r \in Requests, DeleteMailTask(r) PROVE IInv'
<1>1. PICK t \in LiveTasks :
        /\ Once(r, "deleteMailTask") /\ made' = [made EXCEPT ![t] = "gone"]
        /\ UNCHANGED <<day, mail, message, note, account, letters, threaded, lost, twice>>
  BY DEF DeleteMailTask
<1>2. "deleteMailTask" \in InboxOps
  BY DEF InboxOps
<1>3. PICK y : /\ Moved(r, y, {"deleteMailTask"}) /\ SyncOK(r, y)' /\ ConvertOK(y)' /\ SendOK(y)'
               /\ Marking \subseteq Marking' /\ Sending \subseteq Sending' /\ Stamping' = Stamping
               /\ Tables /\ Order /\ Marks /\ Kept0 /\ MailUsedOnce
  BY <1>1, <1>2, OnceStep
<1>4. /\ made' \in [Mails -> {"none", "live", "gone"}] /\ made'[t] = "gone" /\ made[t] = "live"
      /\ \A m \in Mails \ {t} : made'[m] = made[m]
  BY <1>1, <1>3 DEF Tables, LiveTasks
<1>5. /\ LiveTasks' \subseteq LiveTasks /\ Kept' = Kept
      /\ \A m \in Mails : made'[m] = "none" <=> made[m] = "none"
  BY <1>1, <1>4 DEF LiveTasks, Kept
<1>6. /\ Late' = Late /\ Arrived' = Arrived /\ \A b \in Int : LeftBehind(b)' = LeftBehind(b)
      /\ \A k : ThreadTasks(k)' \subseteq ThreadTasks(k)
  BY <1>1, <1>5 DEF Late, Arrived, LeftBehind, ThreadTasks
<1>7. \A k \in Kept : Unused(k) => Unused(k)'
  BY <1>1, <1>5 DEF Unused, Kept
<1>8. Tables'
  BY <1>1, <1>3, <1>4 DEF Tables
<1>9. Order' /\ Kept0' /\ Marks'
  BY <1>1, <1>3, <1>5, <1>6 DEF Order, Kept0, Tables, Marks
<1>10. MailUsedOnce'
  BY <1>1, <1>3, <1>5 DEF MailUsedOnce
<1>11. Framed(r, {"deleteMailTask"})
  BY <1>1, <1>3, <1>5, <1>6, <1>7 DEF Framed, Tables, Kept
<1> QED
  BY <1>3, <1>8, <1>9, <1>10, <1>11, StepKeeps

-----------------------------------------------------------------------------
\* The steps of a sync that write.

Syncing(r, x, h) ==
  /\ x = req[r] /\ x \in RequestType /\ h = x.with /\ x.op = "syncAll" /\ SyncOK(r, x)
  /\ h \in SyncData /\ h \in Data /\ h.start \in Int /\ h.last \in Int /\ h.start <= day
  /\ h.last <= h.start /\ h.list \subseteq Arrived
  /\ h.list # {} => NextMail(h) \in h.list /\ NextMail(h) \in Arrived /\ NextMail(h) \in Mails

LEMMA SyncingHolds ==
  ASSUME IInv, NEW r \in Requests, req[r].op = "syncAll"
  PROVE  /\ \E x, h : Syncing(r, x, h)
         /\ Tables /\ Order /\ Marks /\ Kept0 /\ MailUsedOnce /\ req \in [Requests -> RequestType]
<1>1. PICK x : x = req[r]
  OBVIOUS
<1>2. PICK h : h = x.with
  OBVIOUS
<1>3. Tables /\ Order /\ Marks /\ Kept0 /\ MailUsedOnce /\ req \in [Requests -> RequestType] /\ SyncOK(r, x)
  BY <1>1 DEF IInv, Typed
<1>4. /\ h \in SyncData /\ h.start <= day /\ h.last <= h.start /\ h.list \subseteq Arrived
  BY <1>1, <1>2, <1>3 DEF SyncOK
<1>5. h \in Data /\ h.start \in Int /\ h.last \in Int
  BY <1>4, DataFacts DEF SyncData
<1>6. h.list # {} => NextMail(h) \in h.list /\ NextMail(h) \in Arrived /\ NextMail(h) \in Mails
  BY <1>4, Next0 DEF Arrived
<1>7. Syncing(r, x, h)
  BY <1>1, <1>2, <1>3, <1>4, <1>5, <1>6 DEF Syncing
<1> QED
  BY <1>3, <1>7

LEMMA FetchFailsKeeps == ASSUME IInv, NEW r \in Requests, FetchFails(r) PROVE IInv'
<1>1. req[r].op = "syncAll" /\ req[r].step = "fetch"
  BY DEF FetchFails, AtMail, At
<1>2. PICK x, h : Syncing(r, x, h) /\ req \in [Requests -> RequestType]
  BY <1>1, SyncingHolds
<1>3. /\ x.step = "fetch" /\ x = req[r] /\ x.op = "syncAll" /\ h = x.with /\ h \in Data /\ h.list = {}
      /\ h \in SyncData /\ h.start \in Int /\ h.start <= day /\ h.last <= h.start
  BY <1>1, <1>2 DEF Syncing, SyncOK
<1>4. Tables /\ Order /\ Marks /\ MailUsedOnce
  BY DEF IInv, Typed
<1>5. GoOn(r, "stamp", h) /\ "stamp" \in Steps
  BY <1>3 DEF FetchFails, Steps
<1>6. PICK y \in RequestType : /\ Moved(r, y, {}) /\ y.op = "syncAll" /\ y.step = "stamp"
                               /\ y.with = h /\ y.over = x.over
  BY <1>2, <1>3, <1>5, GoOnMoves
<1>7. Marking \subseteq Marking' /\ Sending \subseteq Sending' /\ r \in Stamping' /\ r \notin Stamping
  BY <1>3, <1>6, AfterMove
<1>8. /\ day' = day /\ mail' = mail /\ message' = message /\ made' = made /\ note' = note
      /\ account' = account /\ letters' = letters /\ threaded' = threaded /\ twice' = twice
      /\ lost' = lost \union {m \in Late : mail[m].day < h.start}
  BY <1>3 DEF FetchFails
<1>9. /\ Kept' = Kept /\ Late' = Late /\ LiveTasks' = LiveTasks /\ Arrived' = Arrived
      /\ \A b \in Int : LeftBehind(b)' \subseteq LeftBehind(b)
      /\ LeftBehind(h.start)' = {}
      /\ \A m : Unused(m)' = Unused(m) /\ ThreadTasks(m)' = ThreadTasks(m)
  BY <1>8 DEF Kept, Late, Arrived, LeftBehind, Unused, ThreadTasks, LiveTasks
<1>10. Tables' /\ Order' /\ MailUsedOnce'
  BY <1>4, <1>8, <1>9 DEF Tables, Order, MailUsedOnce
<1>11. Marks' /\ Kept0'
  BY <1>4, <1>7, <1>8 DEF Marks, Kept0
<1>12. Framed(r, {})
  BY <1>4, <1>7, <1>8, <1>9 DEF Framed, Tables
<1>13. SyncOK(r, y)'
  BY <1>3, <1>6, <1>8, <1>9 DEF SyncOK
<1>14. ConvertOK(y)' /\ SendOK(y)'
  BY <1>6 DEF ConvertOK, SendOK
<1> QED
  BY <1>6, <1>10, <1>11, <1>12, <1>13, <1>14, StepKeeps

\* What a statement of a sync overtakes: everything that has to be apart.
LEMMA SyncFramed ==
  ASSUME IInv, NEW r \in Requests, UNCHANGED <<day, threaded>>, Kept \subseteq Kept', Arrived \subseteq Arrived'
  PROVE  Framed(r, {"syncAll"})
BY DEF Framed, IInv, Typed, Tables, Takers

LEMMA StoreMailKeeps == ASSUME IInv, NEW r \in Requests, StoreMail(r) PROVE IInv'
<1>1. req[r].op = "syncAll" /\ req[r].step = "store"
  BY DEF StoreMail, AtMail, At
<1>2. PICK x, h : Syncing(r, x, h) /\ req \in [Requests -> RequestType]
  BY <1>1, SyncingHolds
<1>3. PICK m : m = NextMail(h)
  OBVIOUS
<1>4. /\ x.step = "store" /\ x = req[r] /\ x.op = "syncAll" /\ h = x.with /\ h \in Data /\ h.list # {}
      /\ h \in SyncData /\ h.start \in Int /\ h.start <= day /\ h.last <= h.start
      /\ h.list \subseteq Arrived /\ m \in Mails /\ m \in Arrived
  BY <1>1, <1>2, <1>3 DEF Syncing, SyncOK
<1>5. Tables /\ Order /\ Marks /\ MailUsedOnce
  BY DEF IInv, Typed
<1>6. /\ day' = day /\ mail' = mail /\ made' = made /\ note' = note /\ lost' = lost
      /\ account' = account /\ letters' = letters /\ threaded' = threaded /\ twice' = twice
  BY DEF StoreMail
<1>7. CASE m \in Kept /\ Onward(r, h) /\ message' = message
  <2>1. UNCHANGED inboxVars
    BY <1>6, <1>7 DEF inboxVars
  <2> QED
    BY <1>3, <1>4, <1>7, <2>1, PassingKeeps
<1>8. ASSUME m \notin Kept, message' = [message EXCEPT ![m].status = "PENDING"], CommitAnd(r, "rules", h)
      PROVE  IInv'
  <2>1. "rules" \in Steps /\ x.op \in InboxOps
    BY <1>4 DEF Steps, InboxOps
  <2>2. PICK y \in RequestType : /\ Moved(r, y, {"syncAll"}) /\ y.op = "syncAll" /\ y.step = "rules"
                                 /\ y.with = h /\ y.over = x.over
    BY SMTT(30), <1>2, <1>4, <1>8, <2>1, CommitAndMoves
  <2>3. PICK z : z = [message[m] EXCEPT !.status = "PENDING"]
    OBVIOUS
  <2>4. /\ z \in [status : {"none", "PENDING", "IGNORED", "CONVERTED"}, converted : BOOLEAN]
        /\ z.status = "PENDING" /\ message' = [message EXCEPT ![m] = z]
    BY <1>4, <1>5, <1>8, <2>3 DEF Tables
  <2>5. /\ message' \in [Mails -> [status : {"none", "PENDING", "IGNORED", "CONVERTED"}, converted : BOOLEAN]]
        /\ message'[m] = z /\ \A k \in Mails \ {m} : message'[k] = message[k]
    BY <1>4, <1>5, <2>4 DEF Tables
  <2>6. Kept' = Kept \union {m} /\ Arrived' = Arrived /\ LiveTasks' = LiveTasks
    BY <1>4, <1>6, <2>4, <2>5 DEF Kept, Arrived, LiveTasks
  <2>7. Unused(m) /\ Unused(m)'
    BY <1>4, <1>5, <1>6, <1>8 DEF Unused, Order
  <2>8. \A b \in Int : LeftBehind(b)' \subseteq LeftBehind(b)
    BY <1>6, <2>6 DEF LeftBehind, Late
  <2>9. /\ Marking \subseteq Marking' /\ Sending \subseteq Sending'
        /\ Stamping' = Stamping /\ r \notin Stamping
    BY <1>4, <2>2, AfterMove
  <2>10. Tables'
    BY <1>5, <1>6, <2>5 DEF Tables
  <2>11. Order'
    BY <1>4, <1>5, <1>6, <2>6 DEF Order, Arrived
  <2>12. Marks'
    BY <1>5, <1>6, <2>5, <2>7, <2>9 DEF Marks, Unused
  <2>13. Kept0'
    BY <1>5, <1>6, <2>8, <2>9 DEF IInv, Kept0, Tables
  <2>14. MailUsedOnce'
    BY <1>5, <1>6, <2>6 DEF MailUsedOnce
  <2>15. Framed(r, {"syncAll"})
    BY <1>6, <2>6, SyncFramed
  <2>16. SyncOK(r, y)'
    <3>1. y.over \intersect {"syncAll", "syncJob"} = {} /\ Stamping' \subseteq {r} =>
            LeftBehind(h.start)' \subseteq h.list
      BY <1>2, <1>4, <2>2, <2>8, <2>9 DEF SyncOK, Syncing
    <3> HIDE DEF LeftBehind, Unused
    <3> QED
      BY <1>3, <1>4, <1>6, <2>2, <2>6, <2>7, <3>1 DEF SyncOK
  <2>17. ConvertOK(y)' /\ SendOK(y)'
    BY <2>2 DEF ConvertOK, SendOK
  <2> QED
    BY <2>2, <2>10, <2>11, <2>12, <2>13, <2>14, <2>15, <2>16, <2>17, StepKeeps
<1> QED
  BY <1>3, <1>4, <1>7, <1>8 DEF StoreMail

LEMMA ApplyRulesKeeps == ASSUME IInv, NEW r \in Requests, ApplyRules(r) PROVE IInv'
<1>1. req[r].op = "syncAll" /\ req[r].step = "rules"
  BY DEF ApplyRules, AtMail, At
<1>2. PICK x, h : Syncing(r, x, h) /\ req \in [Requests -> RequestType]
  BY <1>1, SyncingHolds
<1>3. PICK m : m = NextMail(h)
  OBVIOUS
<1>4. /\ x.step = "rules" /\ x = req[r] /\ x.op = "syncAll" /\ h = x.with /\ h \in Data /\ h.list # {}
      /\ h \in SyncData /\ h.start \in Int /\ h.start <= day /\ h.last <= h.start
      /\ h.list \subseteq Arrived /\ m \in Mails /\ m \in Kept
  BY <1>1, <1>2, <1>3 DEF Syncing, SyncOK
<1>5. Tables /\ Order /\ Marks /\ MailUsedOnce
  BY DEF IInv, Typed
<1>6. /\ day' = day /\ mail' = mail /\ made' = made /\ note' = note /\ lost' = lost
      /\ account' = account /\ letters' = letters /\ threaded' = threaded /\ twice' = twice
  BY DEF ApplyRules
<1>7. PICK w : \/ w = {} /\ GoOn(r, "auto", h) /\ message' = message
               \/ /\ w = {"syncAll"} /\ CommitAnd(r, "auto", h)
                  /\ message' = [message EXCEPT ![m].status = "IGNORED"]
  BY <1>3, <1>4 DEF ApplyRules
<1>8. "auto" \in Steps /\ x.op \in InboxOps
  BY <1>4 DEF Steps, InboxOps
<1>9. PICK y \in RequestType : /\ Moved(r, y, w) /\ y.op = "syncAll" /\ y.step = "auto"
                               /\ y.with = h /\ y.over = x.over
  <2>1. CASE w = {} /\ GoOn(r, "auto", h)
    BY <1>2, <1>4, <1>8, <2>1, GoOnMoves
  <2>2. CASE w = {"syncAll"} /\ CommitAnd(r, "auto", h)
    <3>1. \E y \in RequestType : /\ Moved(r, y, {req[r].op}) /\ y.op = req[r].op /\ y.step = "auto"
                                 /\ y.with = h /\ y.over = req[r].over
      <4>1. /\ CommitAnd(r, "auto", h) /\ "auto" \in Steps /\ h \in Data
            /\ req[r].op \in InboxOps /\ req \in [Requests -> RequestType]
        BY <1>2, <1>4, <1>8, <2>2
      <4> QED
        BY <4>1, CommitAndMoves
    <3>2. req[r].op = "syncAll" /\ w = {req[r].op}
      BY <1>4, <2>2
    <3> QED
      BY <1>4, <3>1, <3>2
  <2> QED
    BY <1>7, <2>1, <2>2
<1>10. /\ message' \in [Mails -> [status : {"none", "PENDING", "IGNORED", "CONVERTED"}, converted : BOOLEAN]]
       /\ Kept' = Kept /\ \A k \in Mails : message'[k].converted = message[k].converted
  <2>1. CASE message' = message
    BY <1>5, <2>1 DEF Tables, Kept
  <2>2. CASE message' = [message EXCEPT ![m].status = "IGNORED"]
    <3>1. PICK z : z = [message[m] EXCEPT !.status = "IGNORED"]
      OBVIOUS
    <3>2. /\ z \in [status : {"none", "PENDING", "IGNORED", "CONVERTED"}, converted : BOOLEAN]
          /\ z.status = "IGNORED" /\ z.converted = message[m].converted
          /\ message' = [message EXCEPT ![m] = z]
      BY <1>4, <1>5, <2>2, <3>1 DEF Tables
    <3> QED
      BY <1>4, <1>5, <3>2 DEF Tables, Kept
  <2> QED
    BY <1>7, <2>1, <2>2
<1>11. /\ Arrived' = Arrived /\ LiveTasks' = LiveTasks /\ Late' = Late
       /\ \A b \in Int : LeftBehind(b)' = LeftBehind(b)
       /\ \A k : Unused(k)' = Unused(k) /\ ThreadTasks(k)' = ThreadTasks(k)
  BY <1>6, <1>10 DEF Arrived, LiveTasks, Late, LeftBehind, Unused, ThreadTasks
<1>12. /\ Marking \subseteq Marking' /\ Sending \subseteq Sending'
       /\ Stamping' = Stamping /\ r \notin Stamping
  BY <1>4, <1>9, AfterMove
<1>13. Tables' /\ Order' /\ Kept0' /\ MailUsedOnce'
  BY <1>5, <1>6, <1>10, <1>11, <1>12 DEF IInv, Tables, Order, Kept0, MailUsedOnce
<1>14. Marks'
  BY <1>5, <1>6, <1>10, <1>12 DEF Marks
<1>15. Framed(r, w)
  BY <1>5, <1>6, <1>10, <1>11, <1>12 DEF Framed, Tables, Kept
<1>16. SyncOK(r, y)'
  <2>1. y.over \intersect {"syncAll", "syncJob"} = {} /\ Stamping' \subseteq {r} =>
          LeftBehind(h.start)' \subseteq h.list
    BY <1>2, <1>4, <1>9, <1>11, <1>12 DEF SyncOK, Syncing
  <2>2. y.over \intersect Takers = {} => Unused(m)'
    BY <1>2, <1>3, <1>4, <1>9, <1>11 DEF SyncOK, Syncing
  <2> HIDE DEF LeftBehind, Unused
  <2> QED
    BY <1>3, <1>4, <1>6, <1>9, <1>10, <1>11, <2>1, <2>2 DEF SyncOK
<1>17. ConvertOK(y)' /\ SendOK(y)'
  BY <1>9 DEF ConvertOK, SendOK
<1> QED
  BY <1>9, <1>13, <1>14, <1>15, <1>16, <1>17, StepKeeps

\* A message is noted as a comment of t: it was not used before, or may be twice.
LEMMA NotedKeeps ==
  ASSUME Tables, Order, MailUsedOnce, NEW r \in Requests, NEW m \in Kept, NEW t \in LiveTasks, Noted(r, m, t),
         Apart(r) => Unused(m) \/ m \in twice,
         UNCHANGED <<day, mail, message, made, account, letters, threaded, lost>>
  PROVE  /\ Tables' /\ Order' /\ MailUsedOnce' /\ twice \subseteq twice'
         /\ \A k \in Mails \ {m} : note'[k] = note[k]
<1>1. m \in Mails /\ t \in Mails /\ twice \subseteq twice'
  BY DEF Kept, LiveTasks, Noted
<1>2. note' \in [Mails -> Mails \union {0}] /\ note'[m] = t /\ \A k \in Mails \ {m} : note'[k] = note[k]
  BY <1>1 DEF Noted, Tables
<1>3. made[m] # "none" => m \in twice'
  BY DEF Noted, Unused
<1>4. Kept' = Kept /\ LiveTasks' = LiveTasks
  BY DEF Kept, LiveTasks
<1>5. Tables'
  BY <1>2 DEF Tables
<1>6. Order'
  BY <1>2, <1>4 DEF Order
<1>7. MailUsedOnce'
  BY <1>1, <1>2, <1>3, <1>4 DEF MailUsedOnce
<1> QED
  BY <1>1, <1>2, <1>5, <1>6, <1>7

LEMMA CommentMailKeeps == ASSUME IInv, NEW r \in Requests, CommentMail(r) PROVE IInv'
<1>1. req[r].op = "syncAll" /\ req[r].step = "comment"
  BY DEF CommentMail, AtMail, At
<1>2. PICK x, h : Syncing(r, x, h) /\ req \in [Requests -> RequestType]
  BY <1>1, SyncingHolds
<1>3. PICK m : m = NextMail(h)
  OBVIOUS
<1>4. /\ x.step = "comment" /\ x = req[r] /\ x.op = "syncAll" /\ h = x.with /\ h \in Data /\ h.list # {}
      /\ h \in SyncData /\ h.start \in Int /\ h.start <= day /\ h.last <= h.start
      /\ h.list \subseteq Arrived /\ m \in Mails /\ m \in Kept /\ h.m = m
  BY <1>1, <1>2, <1>3 DEF Syncing, SyncOK
<1>5. Tables /\ Order /\ Marks /\ MailUsedOnce
  BY DEF IInv, Typed
<1>6. /\ day' = day /\ mail' = mail /\ made' = made /\ message' = message /\ lost' = lost
      /\ account' = account /\ letters' = letters /\ threaded' = threaded
  BY DEF CommentMail
<1>7. CASE Onward(r, h) /\ note' = note /\ twice' = twice
  <2>1. UNCHANGED inboxVars
    BY <1>6, <1>7 DEF inboxVars
  <2> QED
    BY <1>3, <1>4, <1>7, <2>1, PassingKeeps
<1>8. ASSUME h.task \in LiveTasks, Noted(r, m, h.task), CommitAnd(r, "mark", h)
      PROVE  IInv'
  <2>1. "mark" \in Steps /\ x.op \in InboxOps
    BY <1>4 DEF Steps, InboxOps
  <2>2. PICK y \in RequestType : /\ Moved(r, y, {"syncAll"}) /\ y.op = "syncAll" /\ y.step = "mark"
                                 /\ y.with = h /\ y.over = x.over
    BY SMTT(30), <1>2, <1>4, <1>8, <2>1, CommitAndMoves
  <2>3. Apart(r) => Unused(m)
    BY <1>2, <1>3, <1>4 DEF Syncing, SyncOK, Apart, Alone
  <2>4. /\ Tables' /\ Order' /\ MailUsedOnce' /\ twice \subseteq twice'
        /\ \A k \in Mails \ {m} : note'[k] = note[k]
    BY <1>4, <1>5, <1>6, <1>8, <2>3, NotedKeeps
  <2>5. /\ Marking \subseteq Marking' /\ Sending \subseteq Sending' /\ m \in Marking'
        /\ Stamping' = Stamping /\ r \notin Stamping
    BY <1>4, <2>2, AfterMove
  <2>6. Kept' = Kept /\ Arrived' = Arrived /\ \A b \in Int : LeftBehind(b)' = LeftBehind(b)
    BY <1>6 DEF Kept, Arrived, Late, LeftBehind
  <2>7. Marks'
    BY <1>5, <1>6, <2>4, <2>5 DEF Marks
  <2>8. Kept0'
    BY <1>5, <1>6, <2>5, <2>6 DEF IInv, Kept0, Tables
  <2>9. Framed(r, {"syncAll"})
    BY <1>6, <2>6, SyncFramed
  <2>10. SyncOK(r, y)'
    <3>1. y.over \intersect {"syncAll", "syncJob"} = {} /\ Stamping' \subseteq {r} =>
            LeftBehind(h.start)' \subseteq h.list
      BY <1>2, <1>4, <2>2, <2>5, <2>6 DEF SyncOK, Syncing
    <3> HIDE DEF LeftBehind
    <3> QED
      BY <1>3, <1>4, <1>6, <2>2, <2>6, <3>1 DEF SyncOK
  <2>11. ConvertOK(y)' /\ SendOK(y)'
    BY <2>2 DEF ConvertOK, SendOK
  <2> QED
    BY <2>2, <2>4, <2>7, <2>8, <2>9, <2>10, <2>11, StepKeeps
<1> QED
  BY <1>3, <1>4, <1>7, <1>8 DEF CommentMail

\* A message is marked as converted.
LEMMA ConvertedKeeps ==
  ASSUME Tables, Order, MailUsedOnce, NEW m \in Kept, Converted(m),
         UNCHANGED <<day, mail, made, note, account, letters, threaded, lost, twice>>
  PROVE  /\ Tables' /\ Order' /\ MailUsedOnce' /\ Kept' = Kept /\ Arrived' = Arrived
         /\ message'[m].converted /\ \A k \in Mails \ {m} : message'[k] = message[k]
         /\ \A b \in Int : LeftBehind(b)' = LeftBehind(b)
<1>1. PICK z : z = [message[m] EXCEPT !.status = "CONVERTED", !.converted = TRUE]
  OBVIOUS
<1>2. m \in Mails
  BY DEF Kept
<1>3. /\ z \in [status : {"none", "PENDING", "IGNORED", "CONVERTED"}, converted : BOOLEAN]
      /\ z.status = "CONVERTED" /\ z.converted
  <2>1. message[m] \in [status : {"none", "PENDING", "IGNORED", "CONVERTED"}, converted : BOOLEAN]
    BY <1>2 DEF Tables
  <2> QED
    BY <1>1, <2>1
<1>4. message' = [message EXCEPT ![m] = z]
  BY <1>1, <1>2 DEF Converted, Tables
<1>5. /\ message' \in [Mails -> [status : {"none", "PENDING", "IGNORED", "CONVERTED"}, converted : BOOLEAN]]
      /\ message'[m] = z /\ \A k \in Mails \ {m} : message'[k] = message[k]
  BY <1>2, <1>3, <1>4 DEF Tables
<1>6. Kept' = Kept /\ Arrived' = Arrived /\ LiveTasks' = LiveTasks
  BY <1>2, <1>3, <1>5 DEF Kept, Arrived, LiveTasks
<1>7. Tables' /\ Order' /\ MailUsedOnce'
  BY <1>5, <1>6 DEF Tables, Order, MailUsedOnce
<1>8. \A b \in Int : LeftBehind(b)' = LeftBehind(b)
  BY <1>6 DEF LeftBehind, Late
<1> QED
  BY <1>3, <1>5, <1>6, <1>7, <1>8

LEMMA MarkMailKeeps == ASSUME IInv, NEW r \in Requests, MarkMail(r) PROVE IInv'
<1>1. req[r].op = "syncAll" /\ req[r].step = "mark"
  BY DEF MarkMail, AtMail, At
<1>2. PICK x, h : Syncing(r, x, h) /\ req \in [Requests -> RequestType]
  BY <1>1, SyncingHolds
<1>3. PICK m : m = NextMail(h)
  OBVIOUS
<1>4. /\ x.step = "mark" /\ x = req[r] /\ x.op = "syncAll" /\ h = x.with
      /\ h \in SyncData /\ m \in Mails /\ m \in Kept /\ h.m = m
  BY <1>1, <1>2, <1>3 DEF Syncing, SyncOK
<1>5. Tables /\ Order /\ Marks /\ MailUsedOnce
  BY DEF IInv, Typed
<1>6. /\ day' = day /\ mail' = mail /\ made' = made /\ note' = note /\ lost' = lost
      /\ account' = account /\ letters' = letters /\ threaded' = threaded /\ twice' = twice
      /\ Converted(m)
  BY <1>4 DEF MarkMail
<1>7. PICK step \in Steps : step = IF Rest(h).list = {} THEN "end" ELSE "store"
  BY DEF Steps
<1>8. CommitAnd(r, step, Rest(h)) /\ Rest(h) \in Data /\ x.op \in InboxOps
  BY <1>4, <1>7, RestType, DataFacts DEF MarkMail, InboxOps
<1>9. PICK y \in RequestType : /\ Moved(r, y, {"syncAll"}) /\ y.op = "syncAll" /\ y.step = step
                               /\ y.with = Rest(h) /\ y.over = x.over
  BY SMTT(30), <1>2, <1>4, <1>8, CommitAndMoves
<1>10. /\ Tables' /\ Order' /\ MailUsedOnce' /\ Kept' = Kept /\ Arrived' = Arrived
       /\ message'[m].converted /\ \A k \in Mails \ {m} : message'[k] = message[k]
       /\ \A b \in Int : LeftBehind(b)' = LeftBehind(b)
  BY <1>4, <1>5, <1>6, ConvertedKeeps
<1>11. /\ \A k \in Marking : k \in Marking' \/ k = m
       /\ Sending \subseteq Sending' /\ Stamping' = Stamping /\ r \notin Stamping
  <2>1. y.step # "stamp" /\ req[r].step = "mark" /\ req[r].with.m = m
    BY <1>4, <1>7, <1>9
  <2>2. \A k \in Marking : k \in Marking' \/ k = m
    BY <1>9, <2>1, AfterMove
  <2>3. Stamping' \ {r} = Stamping \ {r} /\ r \notin Stamping /\ r \notin Stamping'
    BY <1>9, <2>1, AfterMove
  <2>4. \A c \in Sending : c \in Sending' \/ req[r].op = "send"
    BY <1>9, AfterMove
  <2> QED
    BY SMTT(30), <1>4, <2>2, <2>3, <2>4
<1>12. Marks'
  BY <1>5, <1>6, <1>10, <1>11 DEF Marks
<1>13. Kept0'
  BY <1>5, <1>6, <1>10, <1>11 DEF IInv, Kept0, Tables
<1>14. Framed(r, {"syncAll"})
  BY <1>6, <1>10, SyncFramed
<1>15. Standing(r, y)
  BY <1>4, <1>9, Stands
<1>16. SyncOK(r, y)'
  BY <1>3, <1>4, <1>6, <1>7, <1>9, <1>10, <1>15, OnwardOK
<1>17. ConvertOK(y)' /\ SendOK(y)'
  BY <1>9 DEF ConvertOK, SendOK
<1> QED
  BY <1>9, <1>10, <1>12, <1>13, <1>14, <1>16, <1>17, StepKeeps

LEMMA MailFailsKeeps == ASSUME IInv, NEW r \in Requests, MailFails(r) PROVE IInv'
<1>1. req[r].op = "syncAll" /\ req[r].step \in {"store", "rules", "mark"}
  BY DEF MailFails, AtMail, At
<1>2. PICK x, h : Syncing(r, x, h) /\ req \in [Requests -> RequestType]
  BY <1>1, SyncingHolds
<1>3. PICK m : m = NextMail(h)
  OBVIOUS
<1>4. /\ x.step \in {"store", "rules", "mark"} /\ x = req[r] /\ x.op = "syncAll" /\ h = x.with
      /\ x.step = "mark" => h.m = m
  BY <1>1, <1>2, <1>3 DEF Syncing, SyncOK
<1>5. Tables /\ Order /\ Marks /\ MailUsedOnce
  BY DEF IInv, Typed
<1>6. /\ day' = day /\ mail' = mail /\ made' = made /\ note' = note /\ message' = message
      /\ account' = account /\ letters' = letters /\ threaded' = threaded
      /\ lost' = lost \union ({m} \ Kept) /\ twice' = twice \union ({m} \intersect Unmarked)
      /\ Onward(r, h)
  BY <1>3, <1>4 DEF MailFails
<1>7. PICK y \in RequestType :
        /\ Moved(r, y, {}) /\ Standing(r, y) /\ y.op = "syncAll" /\ y.over = req[r].over
        /\ y.with = Rest(h) /\ y.step = IF Rest(h).list = {} THEN "end" ELSE "store"
  BY <1>1, <1>4, <1>6, OnwardMoves
<1>8. /\ \A k \in Marking : k \in Marking' \/ k = m
      /\ Sending \subseteq Sending' /\ Stamping' = Stamping /\ r \notin Stamping
  BY <1>4, <1>7, AfterMove
<1>9. /\ Kept' = Kept /\ Late' = Late /\ LiveTasks' = LiveTasks /\ Arrived' = Arrived
      /\ \A b \in Int : LeftBehind(b)' \subseteq LeftBehind(b)
      /\ \A k : Unused(k)' = Unused(k) /\ ThreadTasks(k)' = ThreadTasks(k)
  BY <1>6 DEF Kept, Late, Arrived, LeftBehind, Unused, ThreadTasks, LiveTasks
<1>10. Tables' /\ Order' /\ MailUsedOnce'
  BY <1>5, <1>6, <1>9 DEF Tables, Order, MailUsedOnce
<1>11. \A k \in Kept : ~message[k].converted /\ k \in Marking => Unused(k) \/ k \in twice' \union Marking'
  BY <1>6, <1>8 DEF Unmarked, Unused
<1>12. Marks'
  BY <1>5, <1>6, <1>8, <1>11 DEF Marks, Order, Unused
<1>13. Kept0'
  BY <1>5, <1>6, <1>8, <1>9 DEF IInv, Kept0, Tables
<1>14. Framed(r, {})
  BY <1>5, <1>6, <1>8, <1>9, <1>11 DEF Framed, Tables
<1>15. SyncOK(r, y)'
  BY <1>1, <1>3, <1>4, <1>6, <1>7, <1>9, OnwardOK
<1>16. ConvertOK(y)' /\ SendOK(y)'
  BY <1>7 DEF ConvertOK, SendOK
<1> QED
  BY <1>7, <1>10, <1>12, <1>13, <1>14, <1>15, <1>16, StepKeeps

LEMMA EndSyncKeeps == ASSUME IInv, NEW r \in Requests, EndSync(r) PROVE IInv'
<1>1. req[r].op = "syncAll" /\ req[r].step = "end"
  BY DEF EndSync, AtMail, At
<1>2. PICK x, h : Syncing(r, x, h) /\ req \in [Requests -> RequestType]
  BY <1>1, SyncingHolds
<1>3. /\ x.step = "end" /\ x = req[r] /\ x.op = "syncAll" /\ h = x.with /\ h \in Data /\ h.list = {}
      /\ h \in SyncData /\ h.start \in Int /\ h.start <= day /\ h.last <= h.start
  BY <1>1, <1>2 DEF Syncing, SyncOK
<1>4. Tables /\ Order /\ Marks /\ MailUsedOnce
  BY DEF IInv, Typed
<1>5. CommitAnd(r, "stamp", h) /\ "stamp" \in Steps /\ x.op \in InboxOps
  BY <1>3 DEF EndSync, Steps, InboxOps
<1>6. PICK y \in RequestType : /\ Moved(r, y, {"syncAll"}) /\ y.op = "syncAll" /\ y.step = "stamp"
                               /\ y.with = h /\ y.over = x.over
  BY <1>2, <1>3, <1>5, CommitAndMoves
<1>7. /\ Marking \subseteq Marking' /\ Sending \subseteq Sending'
      /\ r \in Stamping' /\ r \notin Stamping /\ Stamping' \ {r} = Stamping \ {r}
  BY <1>3, <1>6, AfterMove
<1>8. /\ day' = day /\ mail' = mail /\ message' = message /\ made' = made /\ note' = note
      /\ letters' = letters /\ threaded' = threaded /\ twice' = twice /\ lost' = lost
      /\ account' = [account EXCEPT !.last = day]
  BY DEF EndSync
<1>9. Kept' = Kept /\ LiveTasks' = LiveTasks /\ Arrived' = Arrived /\ \A b \in Int : LeftBehind(b)' = LeftBehind(b)
  BY <1>8 DEF Kept, Late, Arrived, LeftBehind, LiveTasks
<1>10. Tables' /\ account'.last = day
  BY <1>4, <1>8 DEF Tables
<1>11. Order' /\ Marks' /\ MailUsedOnce' /\ Kept0'
  BY <1>4, <1>7, <1>8, <1>9, <1>10 DEF Order, Marks, MailUsedOnce, Kept0, Tables
<1>12. Framed(r, {"syncAll"})
  BY <1>8, <1>9, SyncFramed
<1>13. SyncOK(r, y)'
  <2>1. y.over \intersect {"syncAll", "syncJob"} = {} /\ Stamping' \subseteq {r} =>
          LeftBehind(h.start)' \subseteq h.list
    BY <1>2, <1>3, <1>6, <1>7, <1>9 DEF SyncOK, Syncing
  <2> HIDE DEF LeftBehind
  <2> QED
    BY <1>3, <1>6, <1>8, <2>1 DEF SyncOK
<1>14. ConvertOK(y)' /\ SendOK(y)'
  BY <1>6 DEF ConvertOK, SendOK
<1> QED
  BY <1>6, <1>10, <1>11, <1>12, <1>13, <1>14, StepKeeps

LEMMA StampSyncKeeps == ASSUME IInv, NEW r \in Requests, StampSync(r) PROVE IInv'
<1>1. req[r].op = "syncAll" /\ req[r].step = "stamp"
  BY DEF StampSync, AtMail, At
<1>2. PICK x, h : Syncing(r, x, h) /\ req \in [Requests -> RequestType]
  BY <1>1, SyncingHolds
<1>3. /\ x.step = "stamp" /\ x = req[r] /\ x.op = "syncAll" /\ h = x.with /\ h.list = {}
      /\ h.start \in Int /\ h.start <= day
  BY <1>1, <1>2 DEF Syncing, SyncOK
<1>4. Tables /\ Order /\ Marks /\ MailUsedOnce
  BY DEF IInv, Typed
<1>5. Commit(r) /\ x.op \in InboxOps
  BY <1>3 DEF StampSync, InboxOps
<1>6. PICK y \in RequestType : y = Idle /\ y.op = "idle" /\ Moved(r, y, {"syncAll"})
  BY <1>2, <1>3, <1>5, CommitMoves, DataFacts
<1>7. /\ Marking \subseteq Marking' /\ Sending \subseteq Sending' /\ Stamping' \ {r} = Stamping \ {r}
  BY <1>3, <1>6, AfterMove
<1>8. /\ day' = day /\ mail' = mail /\ message' = message /\ made' = made /\ note' = note
      /\ letters' = letters /\ threaded' = threaded /\ twice' = twice
      /\ account' = [account EXCEPT !.last = h.start]
      /\ lost' = IF Alone(r, {"syncAll", "syncJob"}) THEN lost ELSE lost \union Late
  BY <1>3 DEF StampSync
<1>9. Kept' = Kept /\ Late' = Late /\ LiveTasks' = LiveTasks /\ Arrived' = Arrived
  BY <1>8 DEF Kept, Late, Arrived, LiveTasks
<1>10. Tables' /\ account'.last = h.start
  BY <1>3, <1>4, <1>8 DEF Tables
<1>11. Order' /\ Marks' /\ MailUsedOnce'
  BY <1>3, <1>4, <1>7, <1>8, <1>9, <1>10 DEF Order, Marks, MailUsedOnce
<1>12. Kept0'
  <2>1. ASSUME Stamping' = {}
        PROVE  LeftBehind(h.start)' = {}
    <3>1. CASE Alone(r, {"syncAll", "syncJob"})
      <4>1. Stamping \subseteq {r} /\ x.over \intersect {"syncAll", "syncJob"} = {}
        BY <1>3, <1>7, <2>1, <3>1 DEF Alone
      <4>2. LeftBehind(h.start) = {}
        BY <1>2, <1>3, <4>1 DEF SyncOK, Syncing
      <4> QED
        BY <1>8, <1>9, <3>1, <4>2 DEF LeftBehind
    <3>2. CASE ~Alone(r, {"syncAll", "syncJob"})
      BY <1>8, <1>9, <3>2 DEF LeftBehind
    <3> QED
      BY <3>1, <3>2
  <2> QED
    BY <1>10, <2>1 DEF Kept0
<1>13. Framed(r, {"syncAll"})
  BY <1>8, <1>9, SyncFramed
<1>14. SyncOK(r, y)' /\ ConvertOK(y)' /\ SendOK(y)'
  BY <1>6, AtRest
<1> QED
  BY <1>6, <1>10, <1>11, <1>12, <1>13, <1>14, StepKeeps

\* A restart loses what the requests were about to mark, and their cursor.
LEMMA RestartKeeps == ASSUME IInv, NEW r \in Requests, Restart(r) PROVE IInv'
<1>1. /\ req' = [q \in Requests |-> Idle]
      /\ lost' = lost \union {m \in Late : \E q \in Requests : At(q, "syncAll", "stamp")}
      /\ twice' = twice \union Unmarked
                        \union {c \in Comments : letters[c].sent > 0 /\ ~letters[c].marked}
      /\ day' = day /\ mail' = mail /\ message' = message /\ made' = made /\ note' = note
      /\ account' = account /\ letters' = letters /\ threaded' = threaded
  BY DEF Restart
<1>2. Tables /\ Order /\ Marks /\ MailUsedOnce
  BY DEF IInv, Typed
<1>3. req' \in [Requests -> RequestType] /\ \A q \in Requests : req'[q] = Idle
  BY <1>1, DataFacts
<1>4. ASSUME NEW q \in Requests
      PROVE  SyncOK(q, req[q])' /\ ConvertOK(req[q])' /\ SendOK(req[q])'
  BY <1>3, DataFacts DEF SyncOK, ConvertOK, SendOK
<1>5. Kept' = Kept /\ Late' = Late /\ LiveTasks' = LiveTasks
  BY <1>1 DEF Kept, Late, Arrived, LiveTasks
<1>6. Tables' /\ Order' /\ MailUsedOnce'
  BY <1>1, <1>2, <1>5 DEF Tables, Order, MailUsedOnce
<1>7. Marks'
  BY <1>1, <1>2 DEF Marks, Unmarked, Order
<1>8. LeftBehind(account.last)' = {}
  <2>1. CASE Stamping = {}
    BY <1>1, <1>5, <2>1 DEF IInv, Kept0, LeftBehind
  <2>2. CASE Stamping # {}
    BY <1>1, <1>5, <2>2 DEF Stamping, AtMail, LeftBehind
  <2> QED
    BY <2>1, <2>2
<1> QED
  BY <1>3, <1>4, <1>6, <1>7, <1>8 DEF IInv, Typed, Kept0

-----------------------------------------------------------------------------
\* The steps of a conversion that write.

\* Others that overtake with an operation that has to be apart.
LEMMA TakerFramed ==
  ASSUME IInv, NEW r \in Requests, NEW w \in {{"convert"}, {"send"}}, day' = day, threaded => threaded',
         Kept \subseteq Kept', Arrived \subseteq Arrived', Stamping \subseteq Stamping',
         \A b \in Int : LeftBehind(b)' \subseteq LeftBehind(b)
  PROVE  Framed(r, w)
<1>1. day \in Nat
  BY DEF IInv, Typed, Tables
<1>2. w \intersect Takers # {}
  BY DEF Takers
<1> HIDE DEF LeftBehind, Takers
<1> QED
  BY <1>1, <1>2 DEF Framed

\* A conversion that gives up changes nothing.
LEMMA GivesUpKeeps ==
  ASSUME IInv, NEW r \in Requests, req[r].step # "mark", req[r].op = "convert", Answer(r), UNCHANGED inboxVars
  PROVE  IInv'
<1>1. req \in [Requests -> RequestType] /\ ConvertOK(req[r])
  BY DEF IInv, Typed
<1>2. PICK y \in RequestType : y = Idle /\ y.op = "idle" /\ Moved(r, y, {})
  BY <1>1, AnswerMoves, DataFacts
<1>3. SyncOK(r, y)' /\ ConvertOK(y)' /\ SendOK(y)'
  BY <1>2, AtRest
<1>4. req[r].step \notin {"mark", "link", "stamp"}
  BY <1>1 DEF ConvertOK
<1> QED
  BY <1>2, <1>3, <1>4, LookingKeeps

\* What a conversion that is apart knows of its message.
LEMMA ApartConversion ==
  ASSUME IInv, NEW r \in Requests, req[r].op = "convert", req[r].step \in {"comment", "create"}, Apart(r)
  PROVE  /\ Unused(req[r].with.m) \/ req[r].with.m \in twice
         /\ req[r].step = "create" => ThreadTasks(req[r].with.m) = {}
<1>1. PICK x : x = req[r]
  OBVIOUS
<1>2. x.over \intersect Takers = {} /\ ConvertOK(x)
  BY <1>1 DEF Apart, Alone, IInv
<1>3. Marking = {}
  BY DEF Marking, Apart, Takers
<1> QED
  BY <1>1, <1>2, <1>3 DEF ConvertOK

LEMMA CommentMessageKeeps == ASSUME IInv, NEW r \in Requests, CommentMessage(r) PROVE IInv'
<1>1. PICK x : x = req[r]
  OBVIOUS
<1>2. PICK h : h = x.with
  OBVIOUS
<1>3. PICK m : m = h.m
  OBVIOUS
<1>4. /\ x.op = "convert" /\ x.step = "comment" /\ req \in [Requests -> RequestType]
      /\ h \in ConvertData /\ h \in Data /\ m \in Kept /\ m \in Mails
  BY <1>1, <1>2, <1>3, DataFacts DEF CommentMessage, At, IInv, Typed, ConvertOK, Kept
<1>5. Tables /\ Order /\ Marks /\ MailUsedOnce
  BY DEF IInv, Typed
<1>6. /\ day' = day /\ mail' = mail /\ made' = made /\ message' = message /\ lost' = lost
      /\ account' = account /\ letters' = letters /\ threaded' = threaded
  BY DEF CommentMessage
<1>7. CASE Answer(r) /\ note' = note /\ twice' = twice
  <2>1. UNCHANGED inboxVars
    BY <1>6, <1>7 DEF inboxVars
  <2> QED
    BY <1>1, <1>4, <1>7, <2>1, GivesUpKeeps
<1>8. ASSUME h.task \in LiveTasks, Noted(r, m, h.task), CommitAnd(r, "mark", h)
      PROVE  IInv'
  <2>1. "mark" \in Steps /\ x.op \in InboxOps
    BY <1>4 DEF Steps, InboxOps
  <2>2. PICK y \in RequestType : /\ Moved(r, y, {"convert"}) /\ y.op = "convert" /\ y.step = "mark"
                                 /\ y.with = h /\ y.over = x.over
    BY <1>1, <1>4, <1>8, <2>1, CommitAndMoves
  <2>3. Apart(r) => Unused(m) \/ m \in twice
    BY <1>1, <1>2, <1>3, <1>4, ApartConversion
  <2>4. /\ Tables' /\ Order' /\ MailUsedOnce' /\ twice \subseteq twice'
        /\ \A k \in Mails \ {m} : note'[k] = note[k]
    BY <1>4, <1>5, <1>6, <1>8, <2>3, NotedKeeps
  <2>5. /\ Marking \subseteq Marking' /\ Sending \subseteq Sending' /\ m \in Marking' /\ Stamping' = Stamping
    <3>1. /\ y.op = "convert" /\ y.step = "mark" /\ y.with.m = m /\ m \in Mails
          /\ req[r].op = "convert" /\ req[r].step # "mark"
      BY <1>1, <1>2, <1>3, <1>4, <2>2
    <3>2. m \in Marking'
      BY <2>2, <3>1, AfterMove
    <3>3. Marking \subseteq Marking'
      BY <2>2, <3>1, AfterMove
    <3>4. Sending \subseteq Sending' /\ Stamping' = Stamping
      BY <2>2, <3>1, AfterMove
    <3> QED
      BY <3>2, <3>3, <3>4
  <2>6. Kept' = Kept /\ Arrived' = Arrived /\ \A b \in Int : LeftBehind(b)' = LeftBehind(b)
    BY <1>6 DEF Kept, Arrived, Late, LeftBehind
  <2>7. Marks'
    BY <1>5, <1>6, <2>4, <2>5 DEF Marks
  <2>8. Kept0'
    BY <1>5, <1>6, <2>5, <2>6 DEF IInv, Kept0, Tables
  <2>9. Framed(r, {"convert"})
    BY <1>6, <2>5, <2>6, TakerFramed
  <2>10. ConvertOK(y)'
    BY <1>3, <1>4, <2>2, <2>6 DEF ConvertOK
  <2>11. SyncOK(r, y)' /\ SendOK(y)'
    BY <2>2 DEF SyncOK, SendOK
  <2> QED
    BY <2>2, <2>4, <2>7, <2>8, <2>9, <2>10, <2>11, StepKeeps
<1> QED
  BY <1>1, <1>2, <1>3, <1>7, <1>8 DEF CommentMessage

LEMMA CreateFromMessageKeeps == ASSUME IInv, NEW r \in Requests, CreateFromMessage(r) PROVE IInv'
<1>1. PICK x : x = req[r]
  OBVIOUS
<1>2. PICK h : h = x.with
  OBVIOUS
<1>3. PICK m : m = h.m
  OBVIOUS
<1>4. /\ x.op = "convert" /\ x.step = "create" /\ req \in [Requests -> RequestType]
      /\ h \in ConvertData /\ h \in Data /\ m \in Kept /\ m \in Mails
  BY <1>1, <1>2, <1>3, DataFacts DEF CreateFromMessage, At, IInv, Typed, ConvertOK, Kept
<1>5. Tables /\ Order /\ Marks /\ MailUsedOnce
  BY DEF IInv, Typed
<1>6. /\ day' = day /\ mail' = mail /\ note' = note /\ message' = message /\ lost' = lost
      /\ account' = account /\ letters' = letters /\ threaded' = threaded
  BY DEF CreateFromMessage
<1>7. CASE Answer(r) /\ made' = made /\ twice' = twice
  <2>1. UNCHANGED inboxVars
    BY <1>6, <1>7 DEF inboxVars
  <2> QED
    BY <1>1, <1>4, <1>7, <2>1, GivesUpKeeps
<1>8. ASSUME made' = [made EXCEPT ![m] = "live"], CommitAnd(r, "mark", h),
             twice' = IF Apart(r) THEN twice ELSE twice \union {m}
      PROVE  IInv'
  <2>1. "mark" \in Steps /\ x.op \in InboxOps
    BY <1>4 DEF Steps, InboxOps
  <2>2. PICK y \in RequestType : /\ Moved(r, y, {"convert"}) /\ y.op = "convert" /\ y.step = "mark"
                                 /\ y.with = h /\ y.over = x.over
    BY <1>1, <1>4, <1>8, <2>1, CommitAndMoves
  <2>3. m \in twice' \/ (Unused(m) /\ ThreadTasks(m) = {}) \/ (m \in twice /\ ThreadTasks(m) = {})
    BY <1>1, <1>2, <1>3, <1>4, <1>8, ApartConversion
  <2>4. /\ made' \in [Mails -> {"none", "live", "gone"}] /\ made'[m] = "live" /\ twice \subseteq twice'
        /\ \A k \in Mails \ {m} : made'[k] = made[k]
    BY <1>4, <1>5, <1>8 DEF Tables
  <2>5. Kept' = Kept /\ Arrived' = Arrived /\ \A b \in Int : LeftBehind(b)' = LeftBehind(b)
    BY <1>6 DEF Kept, Arrived, Late, LeftBehind
  <2>6. LiveTasks' = LiveTasks \union {m}
    BY <1>4, <2>4 DEF LiveTasks
  <2>7. /\ Marking \subseteq Marking' /\ Sending \subseteq Sending' /\ m \in Marking' /\ Stamping' = Stamping
    <3>1. /\ y.op = "convert" /\ y.step = "mark" /\ y.with.m = m /\ m \in Mails
          /\ req[r].op = "convert" /\ req[r].step # "mark"
      BY <1>1, <1>2, <1>3, <1>4, <2>2
    <3>2. m \in Marking'
      BY <2>2, <3>1, AfterMove
    <3>3. Marking \subseteq Marking'
      BY <2>2, <3>1, AfterMove
    <3>4. Sending \subseteq Sending' /\ Stamping' = Stamping
      BY <2>2, <3>1, AfterMove
    <3> QED
      BY <3>2, <3>3, <3>4
  <2>8. Tables' /\ Order'
    BY <1>4, <1>5, <1>6, <2>4, <2>5 DEF Tables, Order
  <2>9. Marks'
    BY <1>5, <1>6, <2>4, <2>7 DEF Marks
  <2>10. Kept0'
    BY <1>5, <1>6, <2>5, <2>7 DEF IInv, Kept0, Tables
  <2>11. MailUsedOnce'
    <3>1. \A k \in Mails : note'[k] # 0 /\ made'[k] # "none" => k \in twice'
      BY <1>5, <1>6, <2>3, <2>4 DEF MailUsedOnce, Unused
    <3>2. ASSUME NEW t \in LiveTasks', NEW u \in LiveTasks', t # u, mail[t].thread = mail[u].thread
          PROVE  {t, u} \intersect twice' # {}
      <4>1. CASE m \in twice' /\ m \in {t, u}
        BY <4>1
      <4>2. CASE ThreadTasks(m) = {} /\ m \in {t, u}
        BY <2>6, <3>2, <4>2 DEF ThreadTasks
      <4>3. CASE m \notin {t, u}
        BY <1>5, <2>4, <2>6, <3>2, <4>3 DEF MailUsedOnce
      <4> QED
        BY <2>3, <4>1, <4>2, <4>3
    <3> QED
      BY <1>5, <1>6, <2>4, <3>1, <3>2 DEF MailUsedOnce
  <2>12. Framed(r, {"convert"})
    BY <1>6, <2>5, <2>7, TakerFramed
  <2>13. ConvertOK(y)'
    BY <1>3, <1>4, <2>2, <2>5 DEF ConvertOK
  <2>14. SyncOK(r, y)' /\ SendOK(y)'
    BY <2>2 DEF SyncOK, SendOK
  <2> QED
    BY <2>2, <2>8, <2>9, <2>10, <2>11, <2>12, <2>13, <2>14, StepKeeps
<1> QED
  BY <1>1, <1>2, <1>3, <1>7, <1>8 DEF CreateFromMessage

LEMMA MarkMessageKeeps == ASSUME IInv, NEW r \in Requests, MarkMessage(r) PROVE IInv'
<1>1. PICK x : x = req[r]
  OBVIOUS
<1>2. PICK m : m = x.with.m
  OBVIOUS
<1>3. /\ x.op = "convert" /\ x.step = "mark" /\ req \in [Requests -> RequestType] /\ m \in Kept
  BY <1>1, <1>2 DEF MarkMessage, At, IInv, Typed, ConvertOK
<1>4. Tables /\ Order /\ Marks /\ MailUsedOnce
  BY DEF IInv, Typed
<1>5. /\ day' = day /\ mail' = mail /\ made' = made /\ note' = note /\ lost' = lost
      /\ account' = account /\ letters' = letters /\ threaded' = threaded /\ twice' = twice
      /\ Converted(m) /\ Commit(r)
  BY <1>1, <1>2 DEF MarkMessage
<1>6. x.op \in InboxOps
  BY <1>3 DEF InboxOps
<1>7. PICK y \in RequestType : y = Idle /\ y.op = "idle" /\ Moved(r, y, {"convert"})
  BY <1>1, <1>3, <1>5, <1>6, CommitMoves, DataFacts
<1>8. /\ Tables' /\ Order' /\ MailUsedOnce' /\ Kept' = Kept /\ Arrived' = Arrived
      /\ message'[m].converted /\ \A k \in Mails \ {m} : message'[k] = message[k]
      /\ \A b \in Int : LeftBehind(b)' = LeftBehind(b)
  BY <1>3, <1>4, <1>5, ConvertedKeeps
<1>9. \A k \in Marking : k \in Marking' \/ k = m
  BY <1>1, <1>2, <1>7, AfterMove
<1>10. Sending \subseteq Sending' /\ Stamping' = Stamping
  BY <1>1, <1>3, <1>7, AfterMove
<1>11. Marks'
  BY <1>4, <1>5, <1>8, <1>9, <1>10 DEF Marks
<1>12. Kept0'
  BY <1>4, <1>5, <1>8, <1>10 DEF IInv, Kept0, Tables
<1>13. Framed(r, {"convert"})
  BY <1>5, <1>8, <1>10, TakerFramed
<1>14. SyncOK(r, y)' /\ ConvertOK(y)' /\ SendOK(y)'
  BY <1>7, AtRest
<1> QED
  BY <1>7, <1>8, <1>11, <1>12, <1>13, <1>14, StepKeeps

-----------------------------------------------------------------------------
\* The steps of a sending.

LEMMA SendMailKeeps == ASSUME IInv, NEW r \in Requests, SendMail(r) PROVE IInv'
<1>1. PICK x : x = req[r]
  OBVIOUS
<1>2. PICK c : c = x.with
  OBVIOUS
<1>3. /\ x.op = "send" /\ x.step \in {"reply", "first"} /\ SendOK(x) /\ req \in [Requests -> RequestType]
      /\ Tables /\ Order /\ Marks /\ MailUsedOnce
  BY <1>1 DEF SendMail, At, IInv, Typed
<1>4. c \in Comments /\ c \in Data /\ (x.step = "reply" => threaded)
  BY <1>2, <1>3, DataFacts DEF SendOK
<1>5. /\ day' = day /\ mail' = mail /\ made' = made /\ note' = note /\ message' = message /\ lost' = lost
      /\ account' = account /\ threaded' = threaded
      /\ letters' = [letters EXCEPT ![c].sent = @ + 1]
      /\ twice' = IF Apart(r) THEN twice ELSE twice \union {c}
  BY <1>1, <1>2 DEF SendMail
<1>6. PICK step \in {"link", "mark"} : step = IF x.step = "first" THEN "link" ELSE "mark"
  OBVIOUS
<1>7. CommitAnd(r, step, c) /\ step \in Steps /\ x.op \in InboxOps
  BY <1>1, <1>2, <1>3, <1>6 DEF SendMail, Steps, InboxOps
<1>8. PICK y \in RequestType : /\ Moved(r, y, {"send"}) /\ y.op = "send" /\ y.step = step
                               /\ y.with = c /\ y.over = x.over
  <2>1. CommitAnd(r, step, c) /\ req[r].op = "send" /\ req[r].op \in InboxOps /\ c \in Data /\ step \in Steps
    BY <1>1, <1>3, <1>4, <1>7
  <2>2. \E y \in RequestType : /\ Moved(r, y, {req[r].op}) /\ y.op = req[r].op /\ y.step = step
                               /\ y.with = c /\ y.over = req[r].over
    BY <1>3, <2>1, CommitAndMoves
  <2>3. {req[r].op} = {"send"}
    BY <2>1
  <2> QED
    BY <1>1, <2>1, <2>2, <2>3
<1>9. /\ Marking \subseteq Marking' /\ Sending \subseteq Sending' /\ c \in Sending' /\ Stamping' = Stamping
  <2>1. /\ y.op = "send" /\ y.step \in {"link", "mark"} /\ y.with \in Comments /\ y.with = c
        /\ req[r].op = "send" /\ req[r].step \in {"reply", "first"}
    BY <1>1, <1>3, <1>4, <1>6, <1>8
  <2>2. c \in Sending'
    BY <1>8, <2>1, AfterMove
  <2>3. Marking \subseteq Marking'
    BY <1>8, <2>1, AfterMove
  <2>4. Sending \subseteq Sending' /\ Stamping' = Stamping
    BY <1>8, <2>1, AfterMove
  <2> QED
    BY <2>2, <2>3, <2>4
<1>10. PICK z : z = [letters[c] EXCEPT !.sent = @ + 1]
  OBVIOUS
<1>11. /\ z \in [marked : BOOLEAN, sent : Nat] /\ z.sent = letters[c].sent + 1 /\ z.marked = letters[c].marked
       /\ letters[c].sent \in Nat
  BY <1>3, <1>4, <1>10 DEF Tables
<1>12. letters' = [letters EXCEPT ![c] = z]
  BY <1>3, <1>4, <1>5, <1>10 DEF Tables
<1>13. /\ letters' \in [Comments -> [marked : BOOLEAN, sent : Nat]] /\ letters'[c] = z
       /\ \A d \in Comments \ {c} : letters'[d] = letters[d]
  BY <1>3, <1>4, <1>11, <1>12 DEF Tables
<1>14. c \in twice' \/ letters[c].sent = 0
  <2>1. ASSUME Apart(r)
        PROVE  letters[c].sent = 0 \/ c \in twice
    <3>1. x.over \intersect Takers = {}
      BY <1>1, <2>1 DEF Apart, Alone
    <3>2. \A q \in Requests : req[q].op = "send" => q = r
      BY <2>1 DEF Apart, Takers
    <3>3. Sending = {}
      BY <1>1, <1>3, <3>2 DEF Sending
    <3> QED
      BY <1>2, <1>3, <3>1, <3>3 DEF SendOK
  <2> QED
    BY <1>5, <2>1
<1>15. Kept' = Kept /\ LiveTasks' = LiveTasks /\ Arrived' = Arrived /\ \A b \in Int : LeftBehind(b)' = LeftBehind(b)
  BY <1>5 DEF Kept, Late, Arrived, LeftBehind, LiveTasks
<1>16. Tables' /\ Order' /\ twice \subseteq twice'
  BY <1>3, <1>5, <1>13, <1>15 DEF Tables, Order
<1>17. Marks'
  BY <1>3, <1>5, <1>9, <1>11, <1>13, <1>16 DEF Marks
<1>18. Kept0'
  BY <1>3, <1>5, <1>9, <1>15 DEF IInv, Kept0, Tables
<1>19. MailUsedOnce'
  BY <1>3, <1>5, <1>11, <1>13, <1>14, <1>15, <1>16 DEF MailUsedOnce
<1>20. Framed(r, {"send"})
  BY <1>5, <1>9, <1>15, TakerFramed
<1>21. SendOK(y)'
  BY <1>3, <1>4, <1>5, <1>6, <1>8 DEF SendOK
<1>22. SyncOK(r, y)' /\ ConvertOK(y)'
  BY <1>8 DEF SyncOK, ConvertOK
<1> QED
  BY <1>8, <1>16, <1>17, <1>18, <1>19, <1>20, <1>21, <1>22, StepKeeps

LEMMA LinkThreadKeeps == ASSUME IInv, NEW r \in Requests, LinkThread(r) PROVE IInv'
<1>1. PICK x : x = req[r]
  OBVIOUS
<1>2. PICK c : c = x.with
  OBVIOUS
<1>3. /\ x.op = "send" /\ x.step = "link" /\ SendOK(x) /\ req \in [Requests -> RequestType]
      /\ Tables /\ Order /\ Marks /\ MailUsedOnce
  BY <1>1 DEF LinkThread, At, IInv, Typed
<1>4. c \in Comments /\ c \in Data
  BY <1>2, <1>3, DataFacts DEF SendOK
<1>5. /\ day' = day /\ mail' = mail /\ made' = made /\ note' = note /\ message' = message /\ lost' = lost
      /\ account' = account /\ letters' = letters /\ twice' = twice /\ threaded' = TRUE
  BY DEF LinkThread
<1>0. PICK step : step = "mark"
  OBVIOUS
<1>6. CommitAnd(r, step, c) /\ step \in Steps /\ x.op \in InboxOps
  BY <1>0, <1>1, <1>2, <1>3 DEF LinkThread, Steps, InboxOps
<1>7. PICK y \in RequestType : /\ Moved(r, y, {"send"}) /\ y.op = "send" /\ y.step = "mark"
                               /\ y.with = c /\ y.over = x.over
  <2>1. CommitAnd(r, step, c) /\ req[r].op = "send" /\ req[r].op \in InboxOps /\ c \in Data /\ step \in Steps
    BY <1>1, <1>3, <1>4, <1>6
  <2>2. \E y \in RequestType : /\ Moved(r, y, {req[r].op}) /\ y.op = req[r].op /\ y.step = step
                               /\ y.with = c /\ y.over = req[r].over
    BY <1>3, <2>1, CommitAndMoves
  <2>3. {req[r].op} = {"send"}
    BY <2>1
  <2> QED
    BY <1>0, <1>1, <2>1, <2>2, <2>3
<1>8. Marking \subseteq Marking' /\ Sending \subseteq Sending' /\ Stamping' = Stamping
  <2>1. /\ y.op = "send" /\ y.step \in {"link", "mark"} /\ y.with \in Comments /\ y.with = c
        /\ req[r].op = "send" /\ req[r].step = "link" /\ req[r].with = c
    BY <1>1, <1>2, <1>3, <1>4, <1>7
  <2>2. c \in Sending' /\ \A d \in Sending : d \in Sending' \/ d = c
    BY <1>7, <2>1, AfterMove
  <2>3. Marking \subseteq Marking'
    BY <1>7, <2>1, AfterMove
  <2>4. Stamping' = Stamping
    BY <1>7, <2>1, AfterMove
  <2> QED
    BY <2>2, <2>3, <2>4
<1>9. Kept' = Kept /\ LiveTasks' = LiveTasks /\ Arrived' = Arrived /\ \A b \in Int : LeftBehind(b)' = LeftBehind(b)
  BY <1>5 DEF Kept, Late, Arrived, LeftBehind, LiveTasks
<1>10. Tables' /\ Order' /\ MailUsedOnce'
  BY <1>3, <1>5, <1>9 DEF Tables, Order, MailUsedOnce
<1>11. Marks'
  BY <1>3, <1>5, <1>8 DEF Marks
<1>12. Kept0'
  BY <1>3, <1>5, <1>8, <1>9 DEF IInv, Kept0, Tables
<1>13. Framed(r, {"send"})
  BY <1>5, <1>8, <1>9, TakerFramed
<1>14. SendOK(y)'
  BY <1>4, <1>5, <1>7 DEF SendOK
<1>15. SyncOK(r, y)' /\ ConvertOK(y)'
  BY <1>7 DEF SyncOK, ConvertOK
<1> QED
  BY <1>7, <1>10, <1>11, <1>12, <1>13, <1>14, <1>15, StepKeeps

LEMMA MarkSentKeeps == ASSUME IInv, NEW r \in Requests, MarkSent(r) PROVE IInv'
<1>1. PICK x : x = req[r]
  OBVIOUS
<1>2. PICK c : c = x.with
  OBVIOUS
<1>3. /\ x.op = "send" /\ x.step = "mark" /\ SendOK(x) /\ req \in [Requests -> RequestType]
      /\ Tables /\ Order /\ Marks /\ MailUsedOnce
  BY <1>1 DEF MarkSent, At, IInv, Typed
<1>4. c \in Comments /\ threaded
  BY <1>2, <1>3 DEF SendOK
<1>5. /\ day' = day /\ mail' = mail /\ made' = made /\ note' = note /\ message' = message /\ lost' = lost
      /\ account' = account /\ threaded' = threaded /\ twice' = twice
      /\ letters' = [letters EXCEPT ![c].marked = TRUE] /\ Commit(r)
  BY <1>1, <1>2 DEF MarkSent
<1>6. x.op \in InboxOps
  BY <1>3 DEF InboxOps
<1>7. PICK y \in RequestType : y = Idle /\ y.op = "idle" /\ Moved(r, y, {"send"})
  BY <1>1, <1>3, <1>5, <1>6, CommitMoves, DataFacts
<1>8. \A d \in Sending : d \in Sending' \/ d = c
  BY <1>1, <1>2, <1>7, AfterMove
<1>9. Marking \subseteq Marking' /\ Stamping' = Stamping
  <2>1. \A m \in Marking : m \in Marking' \/ req[r].op = "send"
    BY <1>1, <1>3
  <2>2. Stamping' = Stamping
    BY Z3T(30), <1>1, <1>3, <1>7, AfterMove
  <2>3. \A q \in Requests : req[q].op \in {"syncAll", "convert"} => req'[q].op = req[q].op /\ req'[q].step = req[q].step /\ req'[q].with = req[q].with
    BY <1>1, <1>3, <1>7 DEF Moved
  <2>4. Marking \subseteq Marking'
    BY <2>3 DEF Marking
  <2> QED
    BY <2>2, <2>4
<1>10. PICK z : z = [letters[c] EXCEPT !.marked = TRUE]
  OBVIOUS
<1>11. z \in [marked : BOOLEAN, sent : Nat] /\ z.sent = letters[c].sent /\ z.marked
  BY <1>3, <1>4, <1>10 DEF Tables
<1>12. letters' = [letters EXCEPT ![c] = z]
  BY <1>3, <1>4, <1>5, <1>10 DEF Tables
<1>13. /\ letters' \in [Comments -> [marked : BOOLEAN, sent : Nat]] /\ letters'[c] = z
       /\ \A d \in Comments \ {c} : letters'[d] = letters[d]
  BY <1>3, <1>4, <1>11, <1>12 DEF Tables
<1>14. Kept' = Kept /\ LiveTasks' = LiveTasks /\ Arrived' = Arrived /\ \A b \in Int : LeftBehind(b)' = LeftBehind(b)
  BY <1>5 DEF Kept, Late, Arrived, LeftBehind, LiveTasks
<1>15. Tables' /\ Order' /\ MailUsedOnce'
  BY <1>3, <1>5, <1>11, <1>13, <1>14 DEF Tables, Order, MailUsedOnce
<1>16. Marks'
  BY <1>3, <1>4, <1>5, <1>8, <1>9, <1>11, <1>13 DEF Marks
<1>17. Kept0'
  BY <1>3, <1>5, <1>9, <1>14 DEF IInv, Kept0, Tables
<1>18. Framed(r, {"send"})
  BY <1>5, <1>9, <1>14, TakerFramed
<1>19. SyncOK(r, y)' /\ ConvertOK(y)' /\ SendOK(y)'
  BY <1>7, AtRest
<1> QED
  BY <1>7, <1>15, <1>16, <1>17, <1>18, <1>19, StepKeeps

-----------------------------------------------------------------------------
\* The invariant, and what it is for.

LEMMA NextKeepsIInv == IInv /\ [InboxNext]_<<handlerVars, inboxVars>> => IInv'
<1> SUFFICES ASSUME IInv, [InboxNext]_<<handlerVars, inboxVars>> PROVE IInv'
  OBVIOUS
<1>1. CASE UNCHANGED <<handlerVars, inboxVars>>
  <2>1. /\ req' = req /\ day' = day /\ mail' = mail /\ message' = message /\ made' = made /\ note' = note
        /\ account' = account /\ letters' = letters /\ threaded' = threaded /\ lost' = lost
        /\ twice' = twice
    BY <1>1 DEF handlerVars, inboxVars
  <2>2. /\ Kept' = Kept /\ Late' = Late /\ LiveTasks' = LiveTasks /\ Arrived' = Arrived
        /\ Marking' = Marking /\ Sending' = Sending /\ Stamping' = Stamping
        /\ \A b : LeftBehind(b)' = LeftBehind(b)
        /\ \A m : Unused(m)' = Unused(m) /\ ThreadTasks(m)' = ThreadTasks(m)
    BY <2>1 DEF Kept, Late, Arrived, LeftBehind, Unused, ThreadTasks, LiveTasks, Marking, Sending,
       Stamping, AtMail, At
  <2>3. Typed' /\ Order' /\ Marks' /\ Kept0' /\ MailUsedOnce'
    BY <2>1, <2>2 DEF IInv, Typed, Tables, Order, Marks, Kept0, MailUsedOnce
  <2>4. ASSUME NEW r \in Requests
        PROVE  (SyncOK(r, req[r]) /\ ConvertOK(req[r]) /\ SendOK(req[r]))'
    <3>1. PICK x : x = req[r] /\ x = req'[r]
      BY <2>1
    <3>2. SyncOK(r, x) /\ ConvertOK(x) /\ SendOK(x)
      BY <3>1 DEF IInv
    <3>3. SyncOK(r, x)'
      BY <2>1, <2>2, <3>2 DEF SyncOK
    <3>4. ConvertOK(x)' /\ SendOK(x)'
      BY <2>1, <2>2, <3>2 DEF ConvertOK, SendOK
    <3> QED
      BY <3>1, <3>3, <3>4
  <2> QED
    BY <2>3, <2>4 DEF IInv
<1>2. ASSUME NEW r \in Requests, InboxStep(r)
      PROVE  IInv'
  <2>1. CASE Arrive(r) \/ Midnight(r) \/ Restart(r) \/ SyncJob(r) \/ SetAuto(r) \/ SetStatus(r) \/ DeleteMailTask(r)
    BY <2>1, ArriveKeeps, MidnightKeeps, RestartKeeps, SyncJobKeeps, SetAutoKeeps, SetStatusKeeps,
       DeleteMailTaskKeeps
  <2>2. CASE AskSyncAll(r) \/ Fetch(r) \/ FetchFails(r) \/ StoreMail(r) \/ ApplyRules(r) \/ AutoCreate(r)
             \/ CommentMail(r) \/ MarkMail(r) \/ MailFails(r) \/ EndSync(r) \/ StampSync(r)
    BY <2>2, AskSyncAllKeeps, FetchKeeps, FetchFailsKeeps, StoreMailKeeps, ApplyRulesKeeps, AutoCreateKeeps,
       CommentMailKeeps, MarkMailKeeps, MailFailsKeeps, EndSyncKeeps, StampSyncKeeps
  <2>3. CASE AskConvert(r) \/ FindThread(r) \/ CommentMessage(r) \/ CreateFromMessage(r) \/ MarkMessage(r)
    BY <2>3, AskConvertKeeps, FindThreadKeeps, CommentMessageKeeps, CreateFromMessageKeeps, MarkMessageKeeps
  <2>4. CASE AskSend(r) \/ SendMail(r) \/ LinkThread(r) \/ MarkSent(r)
    BY <2>4, AskSendKeeps, SendMailKeeps, LinkThreadKeeps, MarkSentKeeps
  <2> QED
    BY <1>2, <2>1, <2>2, <2>3, <2>4 DEF InboxStep
<1> QED
  BY <1>1, <1>2 DEF InboxNext

\* The mailbox, the tables of the inbox and the requests keep their types.
THEOREM TypeCorrect == InboxSpec => []Typed
<1>1. IInv => Typed
  BY DEF IInv
<1> QED
  BY <1>1, InitIInv, NextKeepsIInv, PTL DEF InboxSpec

\* A mail older than the day the next sync asks from is in the inbox, a message
\* becomes one task or one comment, a thread one task, a comment one mail: but
\* for the mails and messages whose request failed, broke off or was overtaken
\* (syncAllInboxes, createAndProcessMessage, convertToTask, sendCommentAsEmail).
THEOREM HandledOnce == InboxSpec => []MailHandledOnce
<1>1. IInv => MailHandledOnce
  BY DEF IInv, MailHandledOnce, MailKept, Kept0, Stamping, LeftBehind
<1> QED
  BY <1>1, InitIInv, NextKeepsIInv, PTL DEF InboxSpec

(***************************************************************************)
(* The session of a browser                                                *)
(***************************************************************************)
Kinds == {"handler", "proactive"}
CallSteps == RefreshSteps \union {"prepare", "sent", "join", "denied", "queued"}
CallData == [token : Nat, retry : BOOLEAN, tries : Nat, kind : Kinds \union {"none"}, ticket : Nat]
CallType == {Idle} \union [op : Calls, step : CallSteps, with : CallData, over : {{}}]

SessionTyped ==
  /\ req \in [Requests -> CallType]
  /\ tab \in [Requests -> Tabs]
  /\ issued \in Nat /\ store \in Nat /\ cookie \in Nat /\ held \in Nat
  /\ age \in [Pairs -> {"fresh", "soon", "old"}]
  /\ flags \in [Tabs -> [refreshing : BOOLEAN, proactive : BOOLEAN]]
  /\ wish \in {"in", "leaving", "out"}
  /\ spoilt \subseteq {"overlap", "lost", "late", "elsewhere"}

\* A call in a record x makes a refresh of a kind, or waits for one.
Makes(x, k) == x.op \in Calls /\ x.step \in RefreshSteps /\ x.with.kind = k
Awaits(x, k) ==
  /\ x.op \in Calls
  /\ \/ x.step = "queued" /\ k = "handler"
     \/ x.step = "join" /\ x.with.kind = k
Up(f, k) == IF k = "handler" THEN f.refreshing ELSE f.proactive

\* A tab's flags are up while one of its calls makes the refresh, and only then.
TabsOK ==
  /\ \A r \in Requests : req[r].op \in Calls /\ req[r].step \in RefreshSteps \union {"join"}
                         => req[r].with.kind \in Kinds
  /\ \A t \in Tabs, k \in Kinds :
       Up(flags[t], k) => \E q \in Requests : tab[q] = t /\ Makes(req[q], k)
  /\ \A q \in Requests, k \in Kinds : Makes(req[q], k) => Up(flags[tab[q]], k)
  /\ \A p, q \in Requests, k \in Kinds :
       tab[p] = tab[q] /\ Makes(req[p], k) /\ Makes(req[q], k) => p = q
  /\ \A q \in Requests, k \in Kinds : Awaits(req[q], k) => Up(flags[tab[q]], k)

\* One refresh at a time, with the token that the server holds.
SignedInOK ==
  wish = "in" /\ spoilt = {} =>
    /\ store # None /\ held # None
    /\ \A p, q \in Refreshing : p = q
    /\ \A q \in Refreshing :
         /\ req[q].step \in {"refresh", "accepted"} => req[q].with.ticket = held
         /\ req[q].step = "renewed" => req[q].with.ticket = held
         /\ req[q].step # "refused"
    /\ (\A q \in Refreshing : req[q].step # "renewed") => cookie = held

\* No token to refresh with.
SignedOutOK ==
  wish = "out" /\ "late" \notin spoilt =>
    /\ store = None /\ cookie = None
    /\ \A q \in Refreshing : req[q].step \in {"refresh", "refused"} /\ req[q].with.ticket = None

SessionIInv == SessionTyped /\ TabsOK /\ SignedInOK /\ SignedOutOK

-----------------------------------------------------------------------------
LEMMA CallFacts ==
  /\ Idle \in CallType /\ Idle.op = "idle" /\ "idle" \notin Calls
  /\ \A x \in CallType :
       /\ x.op \in Calls => x.step \in CallSteps /\ x.with \in CallData
       /\ x.op \notin Calls => x = Idle
  /\ \A k : ~Makes(Idle, k) /\ ~Awaits(Idle, k)
<1>1. PICK n : n = NoData
  OBVIOUS
<1>2. Idle = [op |-> "idle", step |-> "", with |-> n, over |-> {}]
  BY <1>1 DEF Idle
<1>3. Idle.op = "idle" /\ "idle" \notin Calls
  BY <1>2 DEF Calls
<1>4. Idle \in CallType
  BY DEF CallType
<1>5. ASSUME NEW x \in CallType
      PROVE  /\ x.op \in Calls => x.step \in CallSteps /\ x.with \in CallData
             /\ x.op \notin Calls => x = Idle
  BY <1>3 DEF CallType
<1> QED
  BY <1>3, <1>4, <1>5 DEF Makes, Awaits

Goes(x, s, h, y) == y = [x EXCEPT !.step = s, !.with = h]

LEMMA OnwardType ==
  ASSUME NEW x \in CallType, NEW s \in CallSteps, NEW h \in CallData, x.op \in Calls,
         NEW y, Goes(x, s, h, y)
  PROVE  y \in CallType /\ y.op = x.op /\ y.step = s /\ y.with = h
<1>1. x \in [op : Calls, step : CallSteps, with : CallData, over : {{}}]
  BY CallFacts DEF CallType
<1> QED
  BY <1>1 DEF CallType, Goes

LEMMA InitSessionIInv == HandlersInit /\ SessionInit => SessionIInv
<1> SUFFICES ASSUME HandlersInit, SessionInit PROVE SessionIInv
  OBVIOUS
<1>1. /\ req \in [Requests -> CallType] /\ Refreshing = {}
      /\ \A r \in Requests : req[r].op \notin Calls
  BY CallFacts DEF HandlersInit, Refreshing
<1>2. \A r \in Requests : \A k : ~Makes(req[r], k) /\ ~Awaits(req[r], k)
  BY <1>1 DEF Makes, Awaits
<1>3. \A t \in Tabs : \A k : ~Up(flags[t], k)
  BY DEF SessionInit, Quiet, Up
<1>4. SessionTyped
  BY <1>1 DEF SessionTyped, SessionInit, Quiet
<1>5. TabsOK
  BY <1>1, <1>2, <1>3 DEF TabsOK
<1>6. SignedInOK /\ SignedOutOK
  BY <1>1 DEF SignedInOK, SignedOutOK, SessionInit, None
<1> QED
  BY <1>4, <1>5, <1>6 DEF SessionIInv

-----------------------------------------------------------------------------
\* A step of one call that makes, or goes on with, no other refresh.
Turns(r, y) ==
  /\ y \in CallType /\ req' = [req EXCEPT ![r] = y] /\ UNCHANGED <<tab, flags>>
  /\ \A k \in Kinds : /\ Makes(y, k) <=> Makes(req[r], k)
                      /\ Awaits(y, k) => Up(flags[tab[r]], k)
  /\ y.op \in Calls /\ y.step \in RefreshSteps \union {"join"} => y.with.kind \in Kinds

LEMMA TurnsKeepsTabs ==
  ASSUME SessionTyped, TabsOK, NEW r \in Requests, NEW y, Turns(r, y)
  PROVE  TabsOK' /\ req' \in [Requests -> CallType]
<1>1. /\ req' \in [Requests -> CallType] /\ req'[r] = y /\ \A q \in Requests \ {r} : req'[q] = req[q]
      /\ tab' = tab /\ flags' = flags
  BY DEF Turns, SessionTyped, Up
<1>2. \A q \in Requests, k \in Kinds : Makes(req'[q], k) <=> Makes(req[q], k)
  BY <1>1 DEF Turns
<1>3. \A q \in Requests, k \in Kinds : Awaits(req'[q], k) => Up(flags[tab[q]], k)
  BY <1>1 DEF Turns, TabsOK
<1>4. \A q \in Requests : req'[q].op \in Calls /\ req'[q].step \in RefreshSteps \union {"join"}
                          => req'[q].with.kind \in Kinds
  BY <1>1 DEF Turns, TabsOK
<1>5. \A q \in Requests, k \in Kinds : Makes(req'[q], k) => Up(flags'[tab'[q]], k)
  BY <1>1, <1>2 DEF TabsOK
<1>6. \A t \in Tabs, k \in Kinds :
        Up(flags'[t], k) => \E q \in Requests : tab'[q] = t /\ Makes(req'[q], k)
  BY <1>1, <1>2 DEF TabsOK
<1>7. \A p, q \in Requests, k \in Kinds :
        tab'[p] = tab'[q] /\ Makes(req'[p], k) /\ Makes(req'[q], k) => p = q
  BY <1>1, <1>2 DEF TabsOK
<1>8. \A q \in Requests, k \in Kinds : Awaits(req'[q], k) => Up(flags'[tab'[q]], k)
  BY <1>1, <1>3
<1> QED
  BY <1>1, <1>4, <1>5, <1>6, <1>7, <1>8 DEF TabsOK, Makes, Awaits

\* It is no refresh of its own, and leaves those of others and the tokens alone.
Rests(x) == x.op \notin Calls \/ x.step \notin RefreshSteps
Calm(r, y) ==
  /\ Turns(r, y) /\ Rests(req[r]) /\ Rests(y)
  /\ UNCHANGED <<issued, age, store, cookie, held>>
  /\ wish' = wish \/ wish' = "leaving"
  /\ spoilt' = spoilt

LEMMA CalmKeepsIInv ==
  ASSUME SessionIInv, NEW r \in Requests, NEW y, Calm(r, y)
  PROVE  SessionIInv'
<1> USE DEF SessionIInv
<1>1. TabsOK' /\ req' \in [Requests -> CallType]
  BY TurnsKeepsTabs DEF Calm
<1>2. SessionTyped'
  BY <1>1 DEF SessionTyped, Calm, Turns
<1>3. req'[r] = y /\ \A q \in Requests \ {r} : req'[q] = req[q]
  BY DEF Calm, Turns, SessionTyped
<1>4. Refreshing' = Refreshing /\ \A q \in Refreshing : req'[q] = req[q]
  BY <1>3 DEF Calm, Rests, Refreshing
<1>5. SignedInOK'
  BY <1>4 DEF SignedInOK, Calm
<1>6. SignedOutOK'
  BY <1>4 DEF SignedOutOK, Calm
<1> QED
  BY <1>1, <1>2, <1>5, <1>6

\* After a sign-out that came amid other calls nothing is promised.
LEMMA LateKeepsIInv ==
  ASSUME SessionTyped', TabsOK', wish' = "out", "late" \in spoilt'
  PROVE  SessionIInv'
BY DEF SessionIInv, SignedInOK, SignedOutOK

LEMMA RestingTurns ==
  ASSUME SessionIInv, NEW r \in Requests, NEW y \in CallType, req' = [req EXCEPT ![r] = y],
         UNCHANGED <<tab, flags>>, Rests(req[r]),
         y = Idle \/ y.step \in {"prepare", "sent", "denied"}
  PROVE  Turns(r, y) /\ Rests(y)
<1>1. \A k : ~Makes(req[r], k)
  BY DEF Makes, Rests
<1>2. Rests(y) /\ ~(y.op \in Calls /\ y.step \in RefreshSteps \union {"join"})
      /\ \A k : ~Makes(y, k) /\ ~Awaits(y, k)
  BY CallFacts DEF Makes, Awaits, Rests, RefreshSteps
<1> QED
  BY <1>1, <1>2 DEF Turns

LEMMA Resting ==
  ASSUME SessionIInv, NEW r \in Requests
  PROVE  /\ req[r] \in CallType
         /\ ~Active(r) => Rests(req[r])
         /\ \A step \in {"prepare", "sent", "denied", "join", "queued"} : CallAt(r, step) => Rests(req[r])
         /\ \A step : CallAt(r, step) => req[r].op \in Calls /\ req[r].step = step /\ req[r].with \in CallData
BY CallFacts DEF SessionIInv, SessionTyped, Rests, Active, CallAt, RefreshSteps

LEMMA AskKeepsIInv == ASSUME SessionIInv, NEW r \in Requests, AskCall(r) \/ AskLogout(r) PROVE SessionIInv'
<1>1. PICK op, y : op \in Calls /\ y = [op |-> op, step |-> "prepare", with |-> NewCall, over |-> {}]
                   /\ req' = [req EXCEPT ![r] = y]
  BY DEF AskCall, AskLogout, Ask, Calls
<1>2. NewCall \in CallData
  BY DEF NewCall, CallData, None
<1>3. y \in CallType /\ y.step = "prepare"
  BY <1>1, <1>2 DEF CallType, CallSteps
<1>4. Rests(req[r]) /\ UNCHANGED <<tab, flags>>
  BY Resting DEF AskCall, AskLogout, Ask, sessionVars
<1>5. Turns(r, y) /\ Rests(y)
  BY <1>1, <1>3, <1>4, RestingTurns
<1>6. Calm(r, y)
  BY <1>4, <1>5 DEF Calm, AskCall, AskLogout, sessionVars
<1> QED
  BY <1>6, CalmKeepsIInv

\* A call goes on, with data h, to a step that is no refresh.
LEMMA SendKeepsIInv ==
  ASSUME SessionIInv, NEW r \in Requests, NEW step, NEW h, h \in CallData, GoOn(r, step, h),
         step \in {"prepare", "sent", "denied"},
         CallAt(r, "prepare") \/ CallAt(r, "sent") \/ CallAt(r, "denied"),
         UNCHANGED <<tab, issued, age, store, cookie, held, flags, wish, spoilt>>
  PROVE  SessionIInv'
<1>1. PICK x, y : x = req[r] /\ Goes(x, step, h, y)
  BY DEF Goes
<1>2. x \in CallType /\ x.op \in Calls /\ step \in CallSteps /\ Rests(req[r])
  BY <1>1, Resting DEF CallSteps
<1>3. y \in CallType /\ y.step = step
  BY <1>1, <1>2, OnwardType
<1>4. req' = [req EXCEPT ![r] = y]
  BY <1>1 DEF Goes, GoOn, SessionIInv, SessionTyped
<1>5. Turns(r, y) /\ Rests(y)
  BY <1>2, <1>3, <1>4, RestingTurns
<1> QED
  BY <1>2, <1>5, CalmKeepsIInv DEF Calm

LEMMA DenyKeepsIInv == ASSUME SessionIInv, NEW r \in Requests, Deny(r) PROVE SessionIInv'
BY Resting, SendKeepsIInv DEF Deny, sessionVars

\* A call waits for a refresh of its tab.
LEMMA WaitKeepsIInv ==
  ASSUME SessionIInv, NEW r \in Requests, NEW step, NEW h, h \in CallData, GoOn(r, step, h),
         \/ step = "queued" /\ flags[tab[r]].refreshing
         \/ step = "join" /\ h.kind \in Kinds /\ Up(flags[tab[r]], h.kind),
         CallAt(r, "prepare") \/ CallAt(r, "denied"),
         UNCHANGED <<tab, issued, age, store, cookie, held, flags, wish, spoilt>>
  PROVE  SessionIInv'
<1>1. PICK x, y : x = req[r] /\ Goes(x, step, h, y)
  BY DEF Goes
<1>2. x \in CallType /\ x.op \in Calls /\ step \in CallSteps /\ Rests(req[r])
  BY <1>1, Resting DEF CallSteps
<1>3. y \in CallType /\ y.step = step /\ y.with = h
  BY <1>1, <1>2, OnwardType
<1>4. req' = [req EXCEPT ![r] = y]
  BY <1>1 DEF Goes, GoOn, SessionIInv, SessionTyped
<1>5. step \notin RefreshSteps
  BY DEF RefreshSteps
<1>6. Rests(y) /\ (\A k : ~Makes(req[r], k) /\ ~Makes(y, k))
  BY <1>2, <1>3, <1>5 DEF Rests, Makes
<1>7. \A k \in Kinds : Awaits(y, k) => Up(flags[tab[r]], k)
  BY <1>3 DEF Awaits, Up
<1>8. Turns(r, y)
  BY <1>3, <1>4, <1>5, <1>6, <1>7 DEF Turns
<1> QED
  BY <1>2, <1>6, <1>8, CalmKeepsIInv DEF Calm

LEMMA OverKeepsIInv ==
  ASSUME SessionIInv, NEW r \in Requests, CallAt(r, "sent") \/ CallAt(r, "denied"), Over(r),
         UNCHANGED <<tab, issued, age, flags>>
  PROVE  SessionIInv'
<1>1. Rests(req[r]) /\ req' = [req EXCEPT ![r] = Idle] /\ Idle \in CallType
  BY Resting, CallFacts DEF Over, Answer
<1>2. Turns(r, Idle) /\ Rests(Idle)
  BY <1>1, RestingTurns
<1>3. CASE req[r].op = "logout"
  <2>1. TabsOK' /\ req' \in [Requests -> CallType]
    BY <1>2, TurnsKeepsTabs DEF SessionIInv
  <2>2. /\ UNCHANGED <<tab, issued, age, cookie, held, flags>> /\ store' = 0 /\ wish' = "out"
        /\ spoilt' = spoilt \/ spoilt' = spoilt \union {"late"}
    BY <1>3 DEF Over, SignedOut, None
  <2>3. SessionTyped'
    BY <2>1, <2>2 DEF SessionIInv, SessionTyped
  <2> QED
    BY <1>3, <2>1, <2>3, LateKeepsIInv DEF Over, SignedOut
<1>4. CASE req[r].op # "logout"
  BY <1>1, <1>2, <1>4, CalmKeepsIInv DEF Calm, Over
<1> QED
  BY <1>3, <1>4

LEMMA AnswerCallKeepsIInv == ASSUME SessionIInv, NEW r \in Requests, AnswerCall(r) PROVE SessionIInv'
<1>1. CASE req[r].op # "logout"
  BY <1>1, OverKeepsIInv DEF AnswerCall
<1>2. CASE req[r].op = "logout"
  <2>1. Rests(req[r]) /\ req' = [req EXCEPT ![r] = Idle] /\ Idle \in CallType /\ UNCHANGED <<tab, flags>>
    BY <1>2, Resting, CallFacts DEF AnswerCall, Answer
  <2>2. Turns(r, Idle) /\ Rests(Idle)
    BY <2>1, RestingTurns
  <2>3. TabsOK' /\ req' \in [Requests -> CallType]
    BY <2>2, TurnsKeepsTabs DEF SessionIInv
  <2>4. /\ UNCHANGED <<tab, issued, age, flags>> /\ store' = 0 /\ cookie' = 0 /\ held' = 0 /\ wish' = "out"
        /\ spoilt' = IF Refreshing = {} THEN spoilt ELSE spoilt \union {"late"}
    BY <1>2 DEF AnswerCall, SignedOut, None
  <2>5. SessionTyped'
    BY <2>3, <2>4 DEF SessionIInv, SessionTyped
  <2>6. Refreshing' \subseteq Refreshing
    BY <2>1, CallFacts DEF SessionIInv, SessionTyped, Refreshing
  <2> QED
    BY <2>3, <2>4, <2>5, <2>6 DEF SessionIInv, SignedInOK, SignedOutOK, None
<1> QED
  BY <1>1, <1>2

LEMMA CallFailsKeepsIInv == ASSUME SessionIInv, NEW r \in Requests, CallFails(r) PROVE SessionIInv'
<1>1. CASE req[r].with.tries < MaxAttempts
  <2>1. PICK h : h = [req[r].with EXCEPT !.tries = @ + 1]
    OBVIOUS
  <2>2. CallAt(r, "sent") /\ h \in CallData
    BY <2>1, Resting DEF CallFails, CallData
  <2> QED
    BY <1>1, <2>1, <2>2, SendKeepsIInv DEF CallFails
<1> QED
  BY <1>1, OverKeepsIInv DEF CallFails

-----------------------------------------------------------------------------
\* A call starts a refresh.
Raises(f, g, kind) ==
  /\ g \in [refreshing : BOOLEAN, proactive : BOOLEAN]
  /\ ~Up(f, kind) /\ Up(g, kind)
  /\ \A k \in Kinds : k # kind => (Up(g, k) <=> Up(f, k))

LEMMA RaisedTabs ==
  ASSUME SessionTyped, TabsOK, NEW r \in Requests, NEW kind \in Kinds, NEW y \in CallType, NEW g,
         Raises(flags[tab[r]], g, kind), Rests(req[r]),
         y.op \in Calls, y.step = "refresh", y.with.kind = kind,
         req' = [req EXCEPT ![r] = y], flags' = [flags EXCEPT ![tab[r]] = g], tab' = tab
  PROVE  TabsOK'
<1>1. /\ req'[r] = y /\ \A q \in Requests \ {r} : req'[q] = req[q]
      /\ flags'[tab[r]] = g /\ \A t \in Tabs : t # tab[r] => flags'[t] = flags[t]
      /\ tab \in [Requests -> Tabs]
  BY DEF SessionTyped
<1>2. \A k \in Kinds : /\ Makes(y, k) <=> k = kind
                       /\ ~Awaits(y, k) /\ ~Makes(req[r], k)
  BY DEF Makes, Awaits, Rests, RefreshSteps
<1>3. \A q \in Requests, k \in Kinds :
        Makes(req'[q], k) <=> Makes(req[q], k) \/ (q = r /\ k = kind)
  BY <1>1, <1>2
<1>4. \A t \in Tabs, k \in Kinds :
        Up(flags'[t], k) <=> Up(flags[t], k) \/ (t = tab[r] /\ k = kind)
  BY <1>1 DEF Raises
<1>5. \A q \in Requests : req'[q].op \in Calls /\ req'[q].step \in RefreshSteps \union {"join"}
                          => req'[q].with.kind \in Kinds
  BY <1>1 DEF TabsOK
<1>6. \A q \in Requests, k \in Kinds : Makes(req'[q], k) => Up(flags'[tab'[q]], k)
  BY <1>1, <1>3, <1>4 DEF TabsOK
<1>7. \A t \in Tabs, k \in Kinds :
        Up(flags'[t], k) => \E q \in Requests : tab'[q] = t /\ Makes(req'[q], k)
  BY <1>1, <1>3, <1>4 DEF TabsOK
<1>8. \A p, q \in Requests, k \in Kinds :
        tab'[p] = tab'[q] /\ Makes(req'[p], k) /\ Makes(req'[q], k) => p = q
  <2>1. \A q \in Requests : tab[q] = tab[r] => ~Makes(req[q], kind)
    BY DEF TabsOK, Raises
  <2> QED
    BY <1>3, <2>1 DEF TabsOK
<1>9. \A q \in Requests, k \in Kinds : Awaits(req'[q], k) => Up(flags'[tab'[q]], k)
  BY <1>1, <1>2, <1>4 DEF TabsOK
<1> QED
  BY <1>5, <1>6, <1>7, <1>8, <1>9 DEF TabsOK

LEMMA StartKeepsIInv ==
  ASSUME SessionIInv, NEW r \in Requests, NEW kind \in Kinds, NEW h, h \in CallData, NEW g,
         StartRefresh(r, kind, h), CallAt(r, "prepare") \/ CallAt(r, "denied"),
         Raises(flags[tab[r]], g, kind), flags' = [flags EXCEPT ![tab[r]] = g],
         kind = "proactive" => ~flags[tab[r]].refreshing,
         UNCHANGED <<tab, issued, age, store, cookie, held, wish>>
  PROVE  SessionIInv'
<1>1. PICK x, d, y : x = req[r] /\ d = [h EXCEPT !.kind = kind, !.ticket = cookie] /\ Goes(x, "refresh", d, y)
  BY DEF Goes
<1>2. x \in CallType /\ x.op \in Calls /\ "refresh" \in CallSteps /\ "refresh" \in RefreshSteps /\ Rests(req[r])
  BY <1>1, Resting DEF CallSteps, RefreshSteps
<1>3. d \in CallData /\ d.kind = kind /\ d.ticket = cookie
  BY <1>1 DEF CallData, SessionIInv, SessionTyped
<1>4. y \in CallType /\ y.op \in Calls /\ y.step = "refresh" /\ y.with = d
  BY <1>1, <1>2, <1>3, OnwardType
<1>5. req' = [req EXCEPT ![r] = y]
  BY <1>1 DEF Goes, StartRefresh, GoOn, SessionIInv, SessionTyped
<1>6. TabsOK'
  BY <1>2, <1>3, <1>4, <1>5, RaisedTabs DEF SessionIInv
<1>7. spoilt' = IF Overlapping(r, kind) THEN spoilt \union {"overlap"} ELSE spoilt
  BY DEF StartRefresh
<1>8. SessionTyped'
  BY <1>4, <1>5, <1>7 DEF SessionIInv, SessionTyped, Raises
<1>9. /\ Refreshing' = Refreshing \union {r} /\ req'[r] = y
      /\ \A q \in Refreshing : q # r /\ req'[q] = req[q]
  BY <1>2, <1>4, <1>5 DEF SessionIInv, SessionTyped, Refreshing, Rests
<1>10. ~Overlapping(r, kind) => Refreshing = {}
  <2>1. SUFFICES ASSUME NEW q \in Refreshing, ~Overlapping(r, kind) PROVE FALSE
    OBVIOUS
  <2>2. tab[q] = tab[r] /\ ~(kind = "handler" /\ req[q].with.kind = "proactive") /\ q \in Requests
    BY <2>1 DEF Overlapping, Refreshing
  <2>3. req[q].with.kind \in Kinds /\ Makes(req[q], req[q].with.kind)
    BY <2>1 DEF SessionIInv, TabsOK, Makes, Refreshing
  <2>4. Up(flags[tab[r]], req[q].with.kind)
    BY <2>2, <2>3 DEF SessionIInv, TabsOK
  <2> QED
    BY <2>2, <2>3, <2>4 DEF Raises, Up, Kinds
<1>11. SignedInOK'
  BY <1>3, <1>4, <1>7, <1>9, <1>10 DEF SessionIInv, SignedInOK
<1>12. SignedOutOK'
  BY <1>3, <1>4, <1>7, <1>9 DEF SessionIInv, SignedOutOK
<1> QED
  BY <1>6, <1>8, <1>11, <1>12 DEF SessionIInv

LEMMA PrepareKeepsIInv == ASSUME SessionIInv, NEW r \in Requests, Prepare(r) PROVE SessionIInv'
<1>1. PICK h, f : h = [req[r].with EXCEPT !.token = store] /\ f = flags[tab[r]]
  OBVIOUS
<1>2. CallAt(r, "prepare") /\ h \in CallData /\ f \in [refreshing : BOOLEAN, proactive : BOOLEAN]
  <2>1. CallAt(r, "prepare") /\ req[r].with \in CallData
    BY Resting DEF Prepare
  <2>2. store \in Nat /\ flags[tab[r]] \in [refreshing : BOOLEAN, proactive : BOOLEAN]
    BY DEF SessionIInv, SessionTyped
  <2> QED
    BY <1>1, <2>1, <2>2 DEF CallData
<1>3. CASE ~ExpiringSoon
  BY <1>1, <1>2, <1>3, SendKeepsIInv DEF Prepare
<1>4. CASE ExpiringSoon /\ Waits(r)
  <2>1. PICK d : d = [h EXCEPT !.kind = IF f.proactive THEN "proactive" ELSE "handler"]
    OBVIOUS
  <2>2. d \in CallData /\ d.kind \in Kinds /\ Up(f, d.kind)
    BY <1>1, <1>2, <1>4, <2>1 DEF CallData, Kinds, Up, Waits, Flags
  <2>3. GoOn(r, "join", d)
    BY <1>1, <1>4, <2>1 DEF Prepare, Flags
  <2> QED
    BY <1>1, <1>2, <1>4, <2>2, <2>3, WaitKeepsIInv DEF Prepare
<1>5. CASE ExpiringSoon /\ ~Waits(r)
  <2>1. PICK g : g = [f EXCEPT !.proactive = TRUE]
    OBVIOUS
  <2>2. Raises(f, g, "proactive") /\ ~f.refreshing /\ "proactive" \in Kinds
    BY <1>1, <1>2, <1>5, <2>1 DEF Raises, Up, Kinds, Waits, Flags
  <2>3. StartRefresh(r, "proactive", h) /\ flags' = [flags EXCEPT ![tab[r]] = g]
    BY <1>1, <1>5, <2>1 DEF Prepare
  <2> QED
    BY <1>1, <1>2, <2>2, <2>3, StartKeepsIInv DEF Prepare
<1> QED
  BY <1>3, <1>4, <1>5

LEMMA HandleDenialKeepsIInv == ASSUME SessionIInv, NEW r \in Requests, HandleDenial(r) PROVE SessionIInv'
<1>1. PICK h, f : h = [req[r].with EXCEPT !.retry = TRUE] /\ f = flags[tab[r]]
  OBVIOUS
<1>2. CallAt(r, "denied") /\ h \in CallData /\ f \in [refreshing : BOOLEAN, proactive : BOOLEAN]
  <2>1. CallAt(r, "denied") /\ req[r].with \in CallData
    BY Resting DEF HandleDenial
  <2>2. store \in Nat /\ flags[tab[r]] \in [refreshing : BOOLEAN, proactive : BOOLEAN]
    BY DEF SessionIInv, SessionTyped
  <2> QED
    BY <1>1, <2>1, <2>2 DEF CallData
<1>3. CASE req[r].with.retry
  BY <1>2, <1>3, OverKeepsIInv DEF HandleDenial
<1>4. CASE ~req[r].with.retry /\ f.refreshing
  BY <1>1, <1>2, <1>4, WaitKeepsIInv DEF HandleDenial, Flags
<1>5. CASE ~req[r].with.retry /\ ~f.refreshing
  <2>1. PICK g : g = [f EXCEPT !.refreshing = TRUE]
    OBVIOUS
  <2>2. Raises(f, g, "handler") /\ "handler" \in Kinds
    BY <1>2, <1>5, <2>1 DEF Raises, Up, Kinds
  <2>3. StartRefresh(r, "handler", h) /\ flags' = [flags EXCEPT ![tab[r]] = g]
    BY <1>1, <1>5, <2>1 DEF HandleDenial, Flags
  <2> QED
    BY <1>1, <1>2, <1>5, <2>2, <2>3, StartKeepsIInv DEF HandleDenial, Flags
<1> QED
  BY <1>3, <1>4, <1>5

-----------------------------------------------------------------------------
\* A refresh goes on.
LEMMA RefreshingTurns ==
  ASSUME SessionIInv, NEW r \in Refreshing, NEW step \in RefreshSteps, NEW h \in CallData,
         h.kind = req[r].with.kind, GoOn(r, step, h), UNCHANGED <<tab, flags>>
  PROVE  /\ TabsOK' /\ req' \in [Requests -> CallType]
         /\ Refreshing' = Refreshing /\ \A q \in Refreshing : q # r => req'[q] = req[q]
         /\ req'[r].step = step /\ req'[r].with = h
<1>1. PICK x, y : x = req[r] /\ Goes(x, step, h, y)
  BY DEF Goes
<1>2. r \in Requests /\ x \in CallType /\ x.op \in Calls /\ x.step \in RefreshSteps /\ step \in CallSteps
  BY <1>1 DEF Refreshing, SessionIInv, SessionTyped, CallSteps
<1>3. y \in CallType /\ y.op \in Calls /\ y.step = step /\ y.with = h
  BY <1>1, <1>2, OnwardType
<1>4. req' = [req EXCEPT ![r] = y]
  BY <1>1 DEF Goes, GoOn, SessionIInv, SessionTyped
<1>5. \A k \in Kinds : (Makes(y, k) <=> Makes(req[r], k)) /\ ~Awaits(y, k)
  BY <1>1, <1>2, <1>3 DEF Makes, Awaits, RefreshSteps
<1>6. h.kind \in Kinds
  BY <1>1, <1>2 DEF SessionIInv, TabsOK
<1>7. Turns(r, y)
  BY <1>3, <1>4, <1>5, <1>6 DEF Turns
<1>8. TabsOK' /\ req' \in [Requests -> CallType]
  BY <1>2, <1>7, TurnsKeepsTabs DEF SessionIInv
<1>9. req'[r] = y /\ \A q \in Requests \ {r} : req'[q] = req[q]
  BY <1>2, <1>4 DEF SessionIInv, SessionTyped
<1> QED
  BY <1>1, <1>2, <1>3, <1>8, <1>9 DEF Refreshing

LEMMA RefreshAt ==
  ASSUME SessionIInv, NEW r \in Requests, NEW step \in RefreshSteps, CallAt(r, step)
  PROVE  r \in Refreshing /\ req[r].step = step /\ req[r].with \in CallData
BY Resting DEF CallAt, Refreshing

LEMMA CheckTicketKeepsIInv == ASSUME SessionIInv, NEW r \in Requests, CheckTicket(r) PROVE SessionIInv'
<1>1. PICK h, step : h = req[r].with /\ step = IF h.ticket # None /\ h.ticket = held THEN "accepted" ELSE "refused"
  OBVIOUS
<1>2. r \in Refreshing /\ req[r].step = "refresh" /\ h \in CallData /\ step \in RefreshSteps
  BY <1>1, RefreshAt DEF CheckTicket, RefreshSteps
<1>3. GoOn(r, step, h) /\ UNCHANGED sessionVars
  BY <1>1 DEF CheckTicket
<1>4. /\ TabsOK' /\ req' \in [Requests -> CallType]
      /\ Refreshing' = Refreshing /\ \A q \in Refreshing : q # r => req'[q] = req[q]
      /\ req'[r].step = step /\ req'[r].with = h
  BY <1>1, <1>2, <1>3, RefreshingTurns DEF sessionVars
<1>5. SessionTyped'
  BY <1>3, <1>4 DEF SessionIInv, SessionTyped, sessionVars
<1>6. SignedInOK'
  BY <1>1, <1>2, <1>3, <1>4 DEF SessionIInv, SignedInOK, sessionVars
<1>7. SignedOutOK'
  BY <1>1, <1>2, <1>3, <1>4 DEF SessionIInv, SignedOutOK, sessionVars
<1> QED
  BY <1>4, <1>5, <1>6, <1>7 DEF SessionIInv

LEMMA RenewKeepsIInv == ASSUME SessionIInv, NEW r \in Requests, Renew(r) PROVE SessionIInv'
<1>1. PICK h : h = [req[r].with EXCEPT !.ticket = issued + 1]
  OBVIOUS
<1>2. /\ r \in Refreshing /\ req[r].step = "accepted" /\ req[r].with \in CallData
      /\ "renewed" \in RefreshSteps /\ issued \in Nat
  BY RefreshAt DEF Renew, RefreshSteps, SessionIInv, SessionTyped
<1>3. h \in CallData /\ h.ticket = issued + 1 /\ h.kind = req[r].with.kind
  BY <1>1, <1>2 DEF CallData
<1>4. /\ GoOn(r, "renewed", h) /\ issued' = issued + 1 /\ held' = issued + 1
      /\ UNCHANGED <<tab, age, store, cookie, flags, wish, spoilt>>
  BY <1>1 DEF Renew
<1>5. /\ TabsOK' /\ req' \in [Requests -> CallType]
      /\ Refreshing' = Refreshing /\ \A q \in Refreshing : q # r => req'[q] = req[q]
      /\ req'[r].step = "renewed" /\ req'[r].with = h
  BY <1>2, <1>3, <1>4, RefreshingTurns
<1>6. SessionTyped'
  BY <1>2, <1>4, <1>5 DEF SessionIInv, SessionTyped
<1>7. SignedInOK'
  BY <1>2, <1>3, <1>4, <1>5 DEF SessionIInv, SignedInOK, None
<1>8. SignedOutOK'
  BY <1>2, <1>4 DEF SessionIInv, SignedOutOK
<1> QED
  BY <1>5, <1>6, <1>7, <1>8 DEF SessionIInv

-----------------------------------------------------------------------------
\* A refresh is over, and those that wait for it go on.
SettledOne(x) ==
  /\ x \in CallType /\ Rests(x) /\ (x.op \in Calls => x.step # "join")
  /\ \A k \in Kinds : ~Makes(x, k) /\ ~Awaits(x, k)

LEMMA SettledOneOK ==
  ASSUME SessionIInv, NEW r \in Refreshing, NEW token \in Nat, Settled(r, token),
         NEW q \in Joined(r) \union Denied(r)
  PROVE  q \in Requests /\ SettledOne(req'[q])
<1>1. q \in Requests /\ req[q].op \in Calls
  BY DEF Joined, Denied, OfTab, Refreshing
<1>2. PICK x, d : x = req[q] /\ d = x.with
  OBVIOUS
<1>3. x \in [op : Calls, step : CallSteps, with : CallData, over : {{}}] /\ d \in CallData
  BY <1>1, <1>2, CallFacts DEF SessionIInv, SessionTyped, CallType
<1>4. CASE q \in Joined(r)
  <2> DEFINE y == [req[q] EXCEPT !.step = "sent", !.with.kind = "none", !.with.ticket = None]
             z == [y EXCEPT !.with.token = IF token = None THEN @ ELSE token]
  <2>0. req'[q] = z
    BY Zenon, <1>1, <1>4 DEF Settled
  <2>1. req'[q] = [[x EXCEPT !.step = "sent", !.with.kind = "none", !.with.ticket = None]
                     EXCEPT !.with.token = IF token = None THEN @ ELSE token]
    BY <1>2, <2>0
  <2>2. PICK e : e = [d EXCEPT !.kind = "none", !.ticket = None, !.token = IF token = None THEN @ ELSE token]
    OBVIOUS
  <2>3. e \in CallData
    BY <1>3, <2>2 DEF CallData, None
  <2>4. req'[q] = [x EXCEPT !.step = "sent", !.with = e]
    BY <1>2, <1>3, <2>1, <2>2 DEF CallData
  <2>5. "sent" \in CallSteps /\ "sent" \notin RefreshSteps
    BY DEF CallSteps, RefreshSteps
  <2>6. req'[q] \in CallType /\ req'[q].step = "sent"
    BY <1>3, <2>3, <2>4, <2>5 DEF CallType
  <2> QED
    BY <1>1, <2>5, <2>6 DEF SettledOne, Rests, Makes, Awaits
<1>5. CASE q \notin Joined(r) /\ token = None
  <2>1. req'[q] = Idle
    BY <1>1, <1>5 DEF Settled
  <2> QED
    BY <1>1, <2>1, CallFacts DEF SettledOne, Rests
<1>6. CASE q \notin Joined(r) /\ token # None
  <2>1. req'[q] = [x EXCEPT !.step = "prepare", !.with.kind = "none", !.with.ticket = None]
    BY <1>1, <1>2, <1>6 DEF Settled
  <2>2. PICK e : e = [d EXCEPT !.kind = "none", !.ticket = None]
    OBVIOUS
  <2>3. e \in CallData
    BY <1>3, <2>2 DEF CallData, None
  <2>4. req'[q] = [x EXCEPT !.step = "prepare", !.with = e]
    BY <1>2, <1>3, <2>1, <2>2 DEF CallData
  <2>5. "prepare" \in CallSteps /\ "prepare" \notin RefreshSteps
    BY DEF CallSteps, RefreshSteps
  <2>6. req'[q] \in CallType /\ req'[q].step = "prepare"
    BY <1>3, <2>3, <2>4, <2>5 DEF CallType
  <2> QED
    BY <1>1, <2>5, <2>6 DEF SettledOne, Rests, Makes, Awaits
<1> QED
  BY <1>4, <1>5, <1>6

LEMMA SettledTabs ==
  ASSUME SessionIInv, NEW r \in Refreshing, NEW token \in Nat, Settled(r, token), tab' = tab
  PROVE  /\ TabsOK' /\ req' \in [Requests -> CallType]
         /\ flags' \in [Tabs -> [refreshing : BOOLEAN, proactive : BOOLEAN]]
         /\ Refreshing' = Refreshing \ {r} /\ \A q \in Refreshing \ {r} : req'[q] = req[q]
<1>1. PICK going, kind, f, g :
        /\ going = Joined(r) \union Denied(r) /\ kind = req[r].with.kind /\ f = flags[tab[r]]
        /\ g = IF kind = "proactive" THEN [f EXCEPT !.proactive = FALSE] ELSE [f EXCEPT !.refreshing = FALSE]
  OBVIOUS
<1>2. r \in Requests /\ r \in going /\ Makes(req[r], kind) /\ kind \in Kinds
  BY <1>1 DEF Refreshing, Joined, Denied, Makes, SessionIInv, TabsOK
<1>3. req' \in [Requests -> CallType]
  <2>1. \A q \in Requests : req'[q] \in CallType
    <3>1. \A q \in going : req'[q] \in CallType
      BY <1>1, SettledOneOK DEF SettledOne
    <3>2. \A q \in Requests \ going : req'[q] = req[q] /\ req[q] \in CallType
      BY <1>1 DEF Settled, SessionIInv, SessionTyped
    <3> QED
      BY <3>1, <3>2
  <2> QED
    BY <2>1 DEF Settled
<1>4. \A q \in Requests \ going : req'[q] = req[q]
  BY <1>1 DEF Settled
<1>5. \A q \in going : q \in Requests /\ Rests(req'[q]) /\ \A k \in Kinds : ~Makes(req'[q], k) /\ ~Awaits(req'[q], k)
  BY <1>1, SettledOneOK DEF SettledOne
<1>6. /\ f \in [refreshing : BOOLEAN, proactive : BOOLEAN] /\ tab[r] \in Tabs
      /\ flags' = [flags EXCEPT ![tab[r]] = g]
  BY <1>1, <1>2 DEF SessionIInv, SessionTyped, Settled
<1>7. g \in [refreshing : BOOLEAN, proactive : BOOLEAN]
  BY <1>1, <1>6
<1>8. ~Up(g, kind) /\ \A k \in Kinds : k # kind => (Up(g, k) <=> Up(f, k))
  BY <1>1, <1>2, <1>6 DEF Up, Kinds
<1>9. flags' \in [Tabs -> [refreshing : BOOLEAN, proactive : BOOLEAN]]
  BY <1>6, <1>7 DEF SessionIInv, SessionTyped
<1>10. \A t \in Tabs, k \in Kinds :
         Up(flags'[t], k) <=> Up(flags[t], k) /\ ~(t = tab[r] /\ k = kind)
  BY <1>1, <1>6, <1>8 DEF SessionIInv, SessionTyped
<1>11. \A q \in Requests, k \in Kinds : Makes(req[q], k) /\ q \in going => q = r
  <2>1. SUFFICES ASSUME NEW q \in going, NEW k \in Kinds, Makes(req[q], k), q # r PROVE FALSE
    OBVIOUS
  <2> QED
    BY <1>1, <2>1 DEF Joined, Denied, CallAt, Makes, RefreshSteps
<1>12. \A q \in Requests, k \in Kinds : Makes(req'[q], k) <=> Makes(req[q], k) /\ q # r
  BY <1>2, <1>4, <1>5, <1>11
<1>13. \A q \in Requests : tab[q] = tab[r] /\ Awaits(req[q], kind) => q \in going
  BY <1>1, <1>2 DEF Awaits, Joined, Denied, OfTab, CallAt, Kinds
<1>14. \A q \in Requests, k \in Kinds : tab[q] = tab[r] /\ Makes(req[q], k) /\ q # r => k # kind
  BY <1>2 DEF SessionIInv, TabsOK
<1>15. TabsOK'
  <2>1. \A q \in Requests : req'[q].op \in Calls /\ req'[q].step \in RefreshSteps \union {"join"}
                            => req'[q].with.kind \in Kinds
    <3>1. \A q \in Requests \ going : req'[q].op \in Calls /\ req'[q].step \in RefreshSteps \union {"join"}
                                      => req'[q].with.kind \in Kinds
      BY <1>4 DEF SessionIInv, TabsOK
    <3>2. \A q \in going : ~(req'[q].op \in Calls /\ req'[q].step \in RefreshSteps \union {"join"})
      BY <1>1, SettledOneOK DEF SettledOne, Rests
    <3> QED
      BY <3>1, <3>2
  <2>2. \A t \in Tabs, k \in Kinds :
          Up(flags'[t], k) => \E q \in Requests : tab'[q] = t /\ Makes(req'[q], k)
    BY <1>1, <1>2, <1>10, <1>12 DEF SessionIInv, TabsOK, Makes
  <2>3. \A q \in Requests, k \in Kinds : Makes(req'[q], k) => Up(flags'[tab'[q]], k)
    BY <1>10, <1>12, <1>14 DEF SessionIInv, TabsOK, SessionTyped
  <2>4. \A p, q \in Requests, k \in Kinds :
          tab'[p] = tab'[q] /\ Makes(req'[p], k) /\ Makes(req'[q], k) => p = q
    BY <1>12 DEF SessionIInv, TabsOK
  <2>5. \A q \in Requests, k \in Kinds : Awaits(req'[q], k) => Up(flags'[tab'[q]], k)
    BY <1>4, <1>5, <1>10, <1>13 DEF SessionIInv, TabsOK, SessionTyped
  <2> QED
    BY <2>1, <2>2, <2>3, <2>4, <2>5 DEF TabsOK
<1>16. Refreshing' = Refreshing \ {r} /\ \A q \in Refreshing \ {r} : req'[q] = req[q]
  <2>1. \A q \in Refreshing : q \in going => q = r
    BY <1>11 DEF Refreshing, Makes, SessionIInv, TabsOK
  <2> QED
    BY <1>2, <1>4, <1>5, <2>1 DEF Refreshing, Rests
<1> QED
  BY <1>3, <1>9, <1>15, <1>16

LEMMA FinishRefreshKeepsIInv == ASSUME SessionIInv, NEW r \in Requests, FinishRefresh(r) PROVE SessionIInv'
<1>1. PICK n : n = req[r].with.ticket
  OBVIOUS
<1>2. r \in Refreshing /\ req[r].step = "renewed" /\ n \in Nat
  BY <1>1, RefreshAt DEF FinishRefresh, RefreshSteps, CallData
<1>3. /\ store' = n /\ cookie' = n /\ Settled(r, n)
      /\ UNCHANGED <<tab, issued, age, held, wish, spoilt>>
  BY <1>1 DEF FinishRefresh
<1>4. /\ TabsOK' /\ req' \in [Requests -> CallType]
      /\ flags' \in [Tabs -> [refreshing : BOOLEAN, proactive : BOOLEAN]]
      /\ Refreshing' = Refreshing \ {r} /\ \A q \in Refreshing \ {r} : req'[q] = req[q]
  BY <1>2, <1>3, SettledTabs
<1>5. SessionTyped'
  BY <1>2, <1>3, <1>4 DEF SessionIInv, SessionTyped
<1>6. SignedInOK'
  BY <1>1, <1>2, <1>3, <1>4 DEF SessionIInv, SignedInOK
<1>7. SignedOutOK'
  BY <1>2, <1>3 DEF SessionIInv, SignedOutOK
<1> QED
  BY <1>4, <1>5, <1>6, <1>7 DEF SessionIInv

LEMMA FailRefreshKeepsIInv == ASSUME SessionIInv, NEW r \in Requests, FailRefresh(r) PROVE SessionIInv'
<1>1. /\ r \in Refreshing /\ store' = 0 /\ Settled(r, 0) /\ 0 \in Nat
      /\ UNCHANGED <<tab, issued, age, cookie, held>>
  BY DEF FailRefresh, None
<1>2. /\ TabsOK' /\ req' \in [Requests -> CallType]
      /\ flags' \in [Tabs -> [refreshing : BOOLEAN, proactive : BOOLEAN]]
      /\ Refreshing' = Refreshing \ {r} /\ \A q \in Refreshing \ {r} : req'[q] = req[q]
  BY <1>1, SettledTabs
<1>3. CASE \E q \in Denied(r) : req[q].op = "logout"
  <2>1. wish' = "out" /\ spoilt' = spoilt \union {"late"}
    BY <1>3 DEF FailRefresh, SignedOut
  <2>2. SessionTyped'
    BY <1>1, <1>2, <2>1 DEF SessionIInv, SessionTyped
  <2> QED
    BY <1>2, <2>1, <2>2, LateKeepsIInv
<1>4. CASE ~\E q \in Denied(r) : req[q].op = "logout"
  <2>1. wish' = wish /\ spoilt' = IF CallAt(r, "refused") THEN spoilt ELSE spoilt \union {"lost"}
    BY <1>4 DEF FailRefresh
  <2>2. SessionTyped'
    BY <1>1, <1>2, <2>1 DEF SessionIInv, SessionTyped
  <2>3. SignedInOK'
    BY <1>1, <2>1 DEF SessionIInv, SignedInOK, CallAt, Refreshing
  <2>4. SignedOutOK'
    BY <1>1, <1>2, <2>1 DEF SessionIInv, SignedOutOK, None
  <2> QED
    BY <1>2, <2>2, <2>3, <2>4 DEF SessionIInv
<1> QED
  BY <1>3, <1>4

-----------------------------------------------------------------------------
\* Around the calls.
LEMMA LoginKeepsIInv == ASSUME SessionIInv, NEW r \in Requests, Login(r) PROVE SessionIInv'
<1>1. PICK n : n = issued + 1
  OBVIOUS
<1>2. /\ issued' = n /\ held' = n /\ cookie' = n /\ store' = n /\ n \in Nat /\ n # 0 /\ wish' = "in"
      /\ spoilt' = IF \E q \in Requests : req[q].op \in Calls THEN {"late"} ELSE {}
      /\ UNCHANGED <<req, tab, age, flags>>
  BY <1>1 DEF Login, SessionIInv, SessionTyped
<1>3. SessionTyped'
  BY <1>2 DEF SessionIInv, SessionTyped
<1>4. TabsOK'
  BY <1>2 DEF SessionIInv, TabsOK
<1>5. Refreshing' = Refreshing /\ (spoilt' = {} => Refreshing = {})
  BY <1>2 DEF Refreshing
<1>6. SignedInOK' /\ SignedOutOK'
  BY <1>2, <1>5 DEF SignedInOK, SignedOutOK, None
<1> QED
  BY <1>3, <1>4, <1>6 DEF SessionIInv

LEMMA ElsewhereKeepsIInv == ASSUME SessionIInv, NEW r \in Requests, Elsewhere(r) PROVE SessionIInv'
<1>1. /\ issued' = issued + 1 /\ held' = issued + 1 /\ spoilt' = spoilt \union {"elsewhere"}
      /\ UNCHANGED <<req, tab, age, store, cookie, flags, wish>>
  BY DEF Elsewhere
<1>2. SessionTyped'
  BY <1>1 DEF SessionIInv, SessionTyped
<1>3. TabsOK'
  BY <1>1 DEF SessionIInv, TabsOK
<1>4. SignedInOK' /\ SignedOutOK'
  BY <1>1 DEF SessionIInv, SignedInOK, SignedOutOK, Refreshing
<1> QED
  BY <1>2, <1>3, <1>4 DEF SessionIInv

LEMMA GrowOldKeepsIInv == ASSUME SessionIInv, NEW r \in Requests, GrowOld(r) PROVE SessionIInv'
<1>1. /\ age' \in [Pairs -> {"fresh", "soon", "old"}]
      /\ UNCHANGED <<req, tab, issued, store, cookie, held, flags, wish, spoilt>>
  BY DEF GrowOld, SessionIInv, SessionTyped
<1>2. SessionTyped'
  BY <1>1 DEF SessionIInv, SessionTyped
<1>3. TabsOK'
  BY <1>1 DEF SessionIInv, TabsOK
<1>4. SignedInOK' /\ SignedOutOK'
  BY <1>1 DEF SessionIInv, SignedInOK, SignedOutOK, Refreshing
<1> QED
  BY <1>2, <1>3, <1>4 DEF SessionIInv

LEMMA ReloadKeepsIInv == ASSUME SessionIInv, NEW r \in Requests, Reload(r) PROVE SessionIInv'
<1>1. PICK t \in Tabs :
        /\ req' = [q \in Requests |-> IF tab[q] = t /\ req[q].op \in Calls THEN Idle ELSE req[q]]
        /\ flags' = [flags EXCEPT ![t] = Quiet]
        /\ spoilt' = IF \E q \in Refreshing : tab[q] = t THEN spoilt \union {"lost"} ELSE spoilt
        /\ UNCHANGED <<tab, issued, age, store, cookie, held, wish>>
  BY DEF Reload
<1>2. \A q \in Requests : /\ tab[q] = t => req'[q] = Idle
                          /\ tab[q] # t => req'[q] = req[q]
  BY <1>1, CallFacts DEF SessionIInv, SessionTyped
<1>3. Quiet \in [refreshing : BOOLEAN, proactive : BOOLEAN] /\ \A k : ~Up(Quiet, k)
  BY DEF Quiet, Up
<1>4. SessionTyped'
  BY <1>1, <1>3, CallFacts DEF SessionIInv, SessionTyped
<1>5. \A u \in Tabs : flags'[u] = IF u = t THEN Quiet ELSE flags[u]
  BY <1>1 DEF SessionIInv, SessionTyped
<1>6. TabsOK'
  <2>1. \A q \in Requests : req'[q].op \in Calls /\ req'[q].step \in RefreshSteps \union {"join"}
                            => req'[q].with.kind \in Kinds
    BY <1>2, CallFacts DEF SessionIInv, TabsOK
  <2>2. \A u \in Tabs, k \in Kinds :
          Up(flags'[u], k) => \E q \in Requests : tab'[q] = u /\ Makes(req'[q], k)
    BY <1>1, <1>2, <1>3, <1>5 DEF SessionIInv, TabsOK
  <2>3. \A q \in Requests, k \in Kinds : Makes(req'[q], k) \/ Awaits(req'[q], k) => Up(flags'[tab'[q]], k)
    BY <1>1, <1>2, <1>5, CallFacts DEF SessionIInv, TabsOK, SessionTyped
  <2>4. \A p, q \in Requests, k \in Kinds :
          tab'[p] = tab'[q] /\ Makes(req'[p], k) /\ Makes(req'[q], k) => p = q
    BY <1>1, <1>2, CallFacts DEF SessionIInv, TabsOK
  <2> QED
    BY <2>1, <2>2, <2>3, <2>4 DEF TabsOK
<1>7. /\ Refreshing' \subseteq Refreshing /\ \A q \in Refreshing' : req'[q] = req[q]
      /\ spoilt' = {} => Refreshing' = Refreshing
  BY <1>1, <1>2, CallFacts DEF Refreshing
<1>8. SignedInOK'
  BY <1>1, <1>7 DEF SessionIInv, SignedInOK
<1>9. SignedOutOK'
  BY <1>1, <1>7 DEF SessionIInv, SignedOutOK
<1> QED
  BY <1>4, <1>6, <1>8, <1>9 DEF SessionIInv

LEMMA NextSessionIInv == SessionIInv /\ [SessionNext]_<<handlerVars, sessionVars>> => SessionIInv'
<1>1. ASSUME SessionIInv, NEW r \in Requests, SessionStep(r) PROVE SessionIInv'
  BY <1>1, AskKeepsIInv, PrepareKeepsIInv, CheckTicketKeepsIInv, RenewKeepsIInv, FinishRefreshKeepsIInv,
     FailRefreshKeepsIInv, AnswerCallKeepsIInv, DenyKeepsIInv, HandleDenialKeepsIInv, CallFailsKeepsIInv,
     LoginKeepsIInv, ElsewhereKeepsIInv, GrowOldKeepsIInv, ReloadKeepsIInv DEF SessionStep
<1>2. ASSUME SessionIInv, UNCHANGED <<handlerVars, sessionVars>> PROVE SessionIInv'
  BY <1>2 DEF handlerVars, sessionVars, SessionIInv, SessionTyped, TabsOK, SignedInOK, SignedOutOK, Refreshing
<1> QED
  BY <1>1, <1>2 DEF SessionNext

LEMMA AlwaysSessionIInv == SessionSpec => []SessionIInv
BY InitSessionIInv, NextSessionIInv, PTL DEF SessionSpec

\* The calls of a browser's tabs, its two tokens and the one the server holds keep
\* their types, and no call is at a step the interceptors do not have.
THEOREM SessionTypes == SessionSpec => []SessionTyped
<1>1. SessionIInv => SessionTyped
  BY DEF SessionIInv
<1> QED
  BY <1>1, AlwaysSessionIInv, PTL

\* Who is signed in stays so, with the token the server holds, who signed out
\* stays so, and no call waits for a refresh that nobody makes: with any number
\* of tabs and of calls, unless refreshes overlap, are lost, or come too late.
THEOREM Session == SessionSpec => []SessionHeld
<1>1. SessionIInv => SessionHeld
  <2> SUFFICES ASSUME SessionIInv PROVE SessionHeld
    OBVIOUS
  <2>1. StaysSignedIn
    BY DEF SessionIInv, SignedInOK, StaysSignedIn, CallAt, Refreshing
  <2>2. StaysSignedOut
    BY DEF SessionIInv, SignedOutOK, StaysSignedOut
  <2>3. ASSUME NEW r \in Requests, NEW k \in Kinds, Awaits(req[r], k)
        PROVE  \E q \in Refreshing \intersect OfTab(r) : req[q].with.kind = k
    <3>1. PICK q \in Requests : tab[q] = tab[r] /\ Makes(req[q], k)
      BY <2>3 DEF SessionIInv, TabsOK, SessionTyped
    <3> QED
      BY <3>1 DEF Makes, Refreshing, OfTab
  <2>4. RefreshAwaited
    BY <2>3 DEF RefreshAwaited, Awaits, CallAt, Kinds, SessionIInv, TabsOK
  <2> QED
    BY <2>1, <2>2, <2>4 DEF SessionHeld
<1> QED
  BY <1>1, AlwaysSessionIInv, PTL

-----------------------------------------------------------------------------
(***************************************************************************)
(* The workspaces and the projects                                         *)
(***************************************************************************)
\* Prefixes of sequences: the paths are compared by them.
LEMMA PrefixPointwise ==
  ASSUME NEW S, NEW s \in Seq(S), NEW t \in Seq(S)
  PROVE  IsPrefix(s, t) <=> Len(s) <= Len(t) /\ \A i \in 1 .. Len(s) : s[i] = t[i]
<1>1. SubSeq(s, 1, Len(s)) = s
  OBVIOUS
<1>2. ASSUME Len(s) <= Len(t)
      PROVE  SubSeq(t, 1, Len(s)) = s <=> \A i \in 1 .. Len(s) : s[i] = t[i]
  <2>1. /\ SubSeq(t, 1, Len(s)) \in Seq(S) /\ Len(SubSeq(t, 1, Len(s))) = Len(s)
        /\ \A i \in 1 .. Len(s) : SubSeq(t, 1, Len(s))[i] = t[i]
    BY <1>2
  <2>2. PICK u \in Seq(S) : u = SubSeq(t, 1, Len(s))
    BY <2>1
  <2>3. Len(u) = Len(s) /\ \A i \in 1 .. Len(s) : u[i] = t[i]
    BY <2>1, <2>2
  <2>4. (\A i \in 1 .. Len(s) : s[i] = u[i]) => s = u
    BY <2>3, SeqEqual
  <2> QED
    BY <2>2, <2>3, <2>4
<1> QED
  BY <1>1, <1>2 DEF IsPrefix

LEMMA AppendFacts ==
  ASSUME NEW S, NEW s \in Seq(S), NEW x \in S
  PROVE  /\ Append(s, x) \in Seq(S) /\ Append(s, x) # <<>> /\ Len(Append(s, x)) = Len(s) + 1
         /\ Len(s) \in Nat /\ \A i \in 1 .. Len(s) : Append(s, x)[i] = s[i]
         /\ Append(s, x)[Len(s) + 1] = x /\ Last(Append(s, x)) = x
<1>1. /\ Append(s, x) \in Seq(S) /\ Len(Append(s, x)) = Len(s) + 1
      /\ Len(s) \in Nat /\ \A i \in 1 .. Len(s) : Append(s, x)[i] = s[i]
      /\ Append(s, x)[Len(s) + 1] = x
  OBVIOUS
<1>2. Append(s, x) # <<>>
  BY <1>1, EmptySeq
<1> QED
  BY <1>1, <1>2 DEF Last

\* What begins a path one longer, and is not all of it, begins the path.
LEMMA PrefixOfAppend ==
  ASSUME NEW S, NEW s \in Seq(S), NEW t \in Seq(S), NEW x \in S
  PROVE  IsStrictPrefix(s, Append(t, x)) <=> IsPrefix(s, t)
<1> DEFINE a == Append(t, x)
<1>1. /\ a \in Seq(S) /\ Len(a) = Len(t) + 1 /\ Len(t) \in Nat /\ Len(s) \in Nat
      /\ \A i \in 1 .. Len(t) : a[i] = t[i]
  BY AppendFacts
<1> HIDE DEF a
<1>2. ASSUME IsPrefix(s, t) PROVE IsStrictPrefix(s, a)
  <2>1. Len(s) <= Len(t) /\ \A i \in 1 .. Len(s) : s[i] = t[i]
    BY <1>2, PrefixPointwise
  <2>2. Len(s) <= Len(a) /\ \A i \in 1 .. Len(s) : s[i] = a[i]
    BY <1>1, <2>1
  <2>3. s # a
    BY <1>1, <2>1
  <2> QED
    BY <1>1, <2>2, <2>3, PrefixPointwise DEF IsStrictPrefix
<1>3. ASSUME IsStrictPrefix(s, a) PROVE IsPrefix(s, t)
  <2>1. Len(s) <= Len(a) /\ (\A i \in 1 .. Len(s) : s[i] = a[i]) /\ s # a
    BY <1>1, <1>3, PrefixPointwise DEF IsStrictPrefix
  <2>2. Len(s) # Len(a)
    BY <1>1, <2>1, SeqEqual
  <2>3. Len(s) <= Len(t) /\ \A i \in 1 .. Len(s) : s[i] = t[i]
    BY <1>1, <2>1, <2>2
  <2> QED
    BY <2>3, PrefixPointwise
<1> QED
  BY <1>2, <1>3 DEF a

\* A path that begins with that of w leads through w.
LEMMA PrefixLeadsThrough ==
  ASSUME NEW S, NEW s \in Seq(S), NEW t \in Seq(S), s # <<>>, IsPrefix(s, t)
  PROVE  Last(s) \in ToSet(t)
<1>1. Len(s) <= Len(t) /\ (\A i \in 1 .. Len(s) : s[i] = t[i]) /\ Len(s) \in Nat \ {0} /\ Len(t) \in Nat
  BY PrefixPointwise, EmptySeq
<1>2. DOMAIN t = 1 .. Len(t)
  OBVIOUS
<1>3. Len(s) \in DOMAIN t /\ t[Len(s)] = s[Len(s)]
  BY <1>1, <1>2
<1> QED
  BY <1>3 DEF Last, ToSet

\* The new path of what lies below a workspace that moves from s to n.
Onto(n, s, t) == n \o SubSeq(t, Len(s) + 1, Len(t))

LEMMA OntoType ==
  ASSUME NEW S, NEW n \in Seq(S), NEW s \in Seq(S), NEW t \in Seq(S)
  PROVE  Onto(n, s, t) \in Seq(S)
<1>1. Len(s) \in Nat /\ Len(t) \in Nat
  OBVIOUS
<1>2. SubSeq(t, Len(s) + 1, Len(t)) \in Seq(S)
  BY <1>1
<1> QED
  BY <1>2 DEF Onto

LEMMA OntoSame ==
  ASSUME NEW S, NEW n \in Seq(S), NEW s \in Seq(S)
  PROVE  Onto(n, s, s) = n
<1>1. SubSeq(s, Len(s) + 1, Len(s)) = <<>>
  OBVIOUS
<1> QED
  BY <1>1 DEF Onto

LEMMA OntoAppend ==
  ASSUME NEW S, NEW n \in Seq(S), NEW s \in Seq(S), NEW t \in Seq(S), NEW x \in S, Len(s) <= Len(t)
  PROVE  Onto(n, s, Append(t, x)) = Append(Onto(n, s, t), x)
<1> DEFINE a == Append(t, x)
           u == SubSeq(t, Len(s) + 1, Len(t))
           v == SubSeq(a, Len(s) + 1, Len(a))
<1>1. /\ a \in Seq(S) /\ Len(a) = Len(t) + 1 /\ Len(t) \in Nat /\ Len(s) \in Nat
      /\ \A i \in 1 .. Len(t) : a[i] = t[i]
      /\ a[Len(t) + 1] = x
  BY AppendFacts
<1> HIDE DEF a
<1>2. /\ u \in Seq(S) /\ Len(u) = Len(t) - Len(s)
      /\ \A i \in 1 .. Len(t) - Len(s) : u[i] = t[Len(s) + i]
  BY <1>1
<1>3. /\ v \in Seq(S) /\ Len(v) = Len(t) + 1 - Len(s)
      /\ \A i \in 1 .. Len(t) + 1 - Len(s) : v[i] = a[Len(s) + i]
  BY <1>1
<1> HIDE DEF u, v
<1>4. v = Append(u, x)
  <2>1. /\ Append(u, x) \in Seq(S) /\ Len(Append(u, x)) = Len(u) + 1
        /\ \A i \in 1 .. Len(u) : Append(u, x)[i] = u[i]
        /\ Append(u, x)[Len(u) + 1] = x
    BY <1>2, AppendFacts
  <2>2. ASSUME NEW i \in 1 .. Len(v) PROVE v[i] = Append(u, x)[i]
    <3> DEFINE k == Len(t) - Len(s)
    <3>1. k \in Nat /\ i \in 1 .. k + 1 /\ Len(u) = k /\ v[i] = a[Len(s) + i]
      BY <1>1, <1>2, <1>3
    <3>2. CASE i = k + 1
      <4>1. Len(s) + i = Len(t) + 1
        BY <1>1, <3>2
      <4> QED
        BY <1>1, <2>1, <3>1, <3>2, <4>1
    <3>3. CASE i # k + 1
      <4>1. i \in 1 .. k /\ Len(s) + i \in 1 .. Len(t)
        <5>1. PICK m, l \in Nat : m = Len(s) /\ l = Len(t)
          BY <1>1
        <5>2. m <= l /\ l - m \in Nat /\ i \in 1 .. l - m + 1 /\ i # l - m + 1
          BY <3>1, <3>3, <5>1
        <5>3. i \in 1 .. l - m /\ m + i \in 1 .. l
          BY <5>2
        <5> QED
          BY <5>1, <5>3
      <4>2. v[i] = t[Len(s) + i]
        BY <1>1, <3>1, <4>1
      <4>3. u[i] = t[Len(s) + i]
        BY <1>2, <4>1
      <4>4. Append(u, x)[i] = u[i]
        BY <2>1, <3>1, <4>1
      <4> QED
        BY <4>2, <4>3, <4>4
    <3> QED
      BY <3>2, <3>3
  <2>3. Len(v) = Len(Append(u, x))
    BY <1>1, <1>2, <1>3, <2>1
  <2> QED
    BY <1>3, <2>1, <2>2, <2>3, SeqEqual
<1>5. n \o Append(u, x) = Append(n \o u, x)
  BY <1>2
<1> QED
  BY <1>4, <1>5 DEF Onto, a, u, v

-----------------------------------------------------------------------------
(* What the tables hold.  A slug begins with a word, and goes on with      *)
(* numbers.  There may be any number of ids; what is stored is finite.     *)
Words == Nat \union {b[1] : b \in Bases}
SlugSet == {s \in Seq(Words) : \A i \in 2 .. Len(s) : s[i] \in Nat}
RowStates == {"none", "live", "archived", "gone"}
OrgRow == [state : RowStates, slug : SlugSet]
SpaceRow == [state : RowStates, org : Orgs, parent : Spaces \union {NoSpace},
             path : Seq(Spaces), slug : SlugSet]
ProjectRow == [state : RowStates, ws : Spaces, slug : SlugSet]

SpacesTyped ==
  /\ org \in [Orgs -> OrgRow] /\ space \in [Spaces -> SpaceRow] /\ proj \in [Projects -> ProjectRow]
  /\ IsFiniteSet(OrgRows) /\ IsFiniteSet(SpaceRows) /\ IsFiniteSet(ProjectRows)

LEMMA BaseSlug == Bases \subseteq SlugSet \ {<<>>}
<1> SUFFICES ASSUME NEW b \in Bases PROVE b \in SlugSet /\ b # <<>>
  OBVIOUS
<1>1. b # <<>> /\ b \in Seq({b[1]} \union Nat) /\ \A i \in 2 .. Len(b) : b[i] \in Nat
  BY SpacesAssumption
<1>2. {b[1]} \union Nat \subseteq Words
  BY DEF Words
<1>3. b \in Seq(Words)
  BY <1>1, <1>2, SeqMonotonic
<1> QED
  BY <1>1, <1>3 DEF SlugSet

LEMMA NumberedSlug ==
  ASSUME NEW b \in SlugSet, b # <<>>, NEW n \in Nat
  PROVE  /\ Append(b, n) \in SlugSet /\ Append(b, n) # <<>>
         /\ Len(Append(b, n)) = Len(b) + 1 /\ Append(b, n)[Len(Append(b, n))] = n
         /\ IsPrefix(b, Append(b, n))
<1>1. b \in Seq(Words) /\ n \in Words /\ \A i \in 2 .. Len(b) : b[i] \in Nat
  BY DEF SlugSet, Words
<1>2. /\ Append(b, n) \in Seq(Words) /\ Append(b, n) # <<>> /\ Len(Append(b, n)) = Len(b) + 1
      /\ Len(b) \in Nat /\ \A i \in 1 .. Len(b) : Append(b, n)[i] = b[i]
      /\ Append(b, n)[Len(b) + 1] = n
  BY <1>1, AppendFacts
<1>3. ASSUME NEW i \in 2 .. Len(b) + 1 PROVE Append(b, n)[i] \in Nat
  <2>1. CASE i = Len(b) + 1
    BY <1>2, <2>1
  <2>2. CASE i # Len(b) + 1
    <3>1. i \in 1 .. Len(b) /\ i \in 2 .. Len(b)
      BY <1>2, <2>2
    <3> QED
      BY <1>1, <1>2, <3>1
  <2> QED
    BY <2>1, <2>2
<1>4. IsPrefix(b, Append(b, n))
  <2>1. PICK a \in Seq(Words) : a = Append(b, n)
    BY <1>2
  <2>2. Len(b) <= Len(a) /\ \A i \in 1 .. Len(b) : b[i] = a[i]
    BY <1>2, <2>1
  <2>3. IsPrefix(b, a)
    BY <1>1, <2>2, PrefixPointwise
  <2> QED
    BY <2>1, <2>3
<1> QED
  BY <1>2, <1>3, <1>4 DEF SlugSet

\* A finite set of slugs leaves one of the numbered ones free, and FirstFree is it.
LEMMA FirstFreeIsFree ==
  ASSUME NEW b \in SlugSet, b # <<>>, NEW taken, IsFiniteSet(taken)
  PROVE  FirstFree(b, taken) \in SlugSet /\ FirstFree(b, taken) \notin taken
<1> DEFINE C == Cardinality(taken)
           F == {n \in 1 .. C + 1 : Append(b, n) \notin taken}
<1>1. C \in Nat
  BY FS_CardinalityType
<1>2. F # {}
  <2> SUFFICES ASSUME \A n \in 1 .. C + 1 : Append(b, n) \in taken PROVE FALSE
    OBVIOUS
  <2>1. PICK f : f = [n \in 1 .. C + 1 |-> Append(b, n)]
    OBVIOUS
  <2>2. PICK S : S = 1 .. C + 1
    OBVIOUS
  <2>3. IsFiniteSet(1 .. C + 1) /\ Cardinality(1 .. C + 1) = C + 1
    BY <1>1, FS_Interval
  <2>4. \E m, n \in S : m # n /\ f[m] = f[n]
    <3>1. f \in [S -> taken] /\ IsFiniteSet(S) /\ Cardinality(taken) < Cardinality(S)
      BY <1>1, <2>1, <2>2, <2>3
    <3> QED
      BY <3>1, FS_PigeonHole
  <2>5. PICK m, n \in S : m # n /\ Append(b, m) = Append(b, n)
    BY <2>1, <2>2, <2>4
  <2>6. m \in Nat /\ n \in Nat
    BY <1>1, <2>2
  <2> QED
    BY <2>5, <2>6, NumberedSlug
<1>3. PICK n \in F : \A m \in F : n <= m
  <2>1. F \in SUBSET Nat
    BY <1>1
  <2> HIDE DEF F
  <2> QED
    BY <1>2, <2>1, LeastNatural
<1>4. /\ n \in 1 .. C + 1 /\ Append(b, n) \notin taken
      /\ \A m \in 1 .. (n - 1) : Append(b, m) \in taken
  <2>1. ASSUME NEW m \in 1 .. (n - 1), Append(b, m) \notin taken PROVE FALSE
    <3>1. m \in F
      BY <1>1, <2>1
    <3>2. n <= m
      BY <1>3, <3>1
    <3> QED
      BY <1>1, <2>1, <3>2
  <2> QED
    BY <2>1
<1>5. CASE b \in taken
  <2>1. PICK k : k = CHOOSE n_1 \in 1 .. C + 1 : /\ Append(b, n_1) \notin taken
                                                /\ \A m \in 1 .. (n_1 - 1) : Append(b, m) \in taken
    OBVIOUS
  <2>2. k \in 1 .. C + 1 /\ Append(b, k) \notin taken
    BY <1>4, <2>1
  <2>3. FirstFree(b, taken) = Append(b, k)
    BY <1>5, <2>1 DEF FirstFree
  <2> QED
    BY <1>1, <2>2, <2>3, NumberedSlug
<1>6. CASE b \notin taken
  BY <1>6 DEF FirstFree
<1> QED
  BY <1>5, <1>6

\* A finite set of numbers has a greatest one.
LEMMA LargerOf ==
  ASSUME NEW m \in Nat, NEW l \in Nat
  PROVE  \E h \in Nat : m <= h /\ l <= h
<1>1. CASE m <= l
  BY <1>1
<1>2. CASE l <= m
  BY <1>2
<1> QED
  BY <1>1, <1>2

LEMMA BoundedNaturals ==
  ASSUME NEW S \in SUBSET Nat, IsFiniteSet(S)
  PROVE  \E m \in Nat : \A x \in S : x <= m
<1>0. PICK n \in Nat : ExistsBijection(1 .. n, S)
  BY FS_NatBijection
<1>1. PICK f : f \in [1 .. n -> S] /\ \A x \in S : \E i \in 1 .. n : f[i] = x
  BY <1>0 DEF ExistsBijection, Bijection, Surjection
<1> DEFINE Bounded(k) == \E m \in Nat : \A i \in 1 .. n : i <= k => f[i] <= m
           F == {k \in Nat : ~Bounded(k)}
<1>2. F = {}
  <2> SUFFICES ASSUME F # {} PROVE FALSE
    OBVIOUS
  <2>1. F \in SUBSET Nat
    OBVIOUS
  <2>2. PICK k \in F : \A j \in F : k <= j
    <3> HIDE DEF F
    <3> QED
      BY <2>1, LeastNatural
  <2>3. k \in Nat /\ ~Bounded(k)
    OBVIOUS
  <2>4. k # 0
    <3>1. \A i \in 1 .. n : i <= 0 => f[i] <= 0
      OBVIOUS
    <3> QED
      BY <2>3, <3>1
  <2>5. k - 1 \in Nat /\ Bounded(k - 1)
    <3>1. PICK j \in Nat : j = k - 1
      BY <2>3, <2>4
    <3>2. ~(k <= j)
      BY <2>3, <3>1
    <3>3. j \notin F
      BY <2>2, <3>2
    <3>4. Bounded(j)
      BY <3>3
    <3> QED
      BY <3>1, <3>4
  <2>6. PICK m \in Nat : \A i \in 1 .. n : i <= k - 1 => f[i] <= m
    BY <2>5
  <2>7. CASE k \in 1 .. n
    <3>1. PICK l \in Nat : l = f[k]
      BY <1>1, <2>7
    <3>2. PICK h \in Nat : m <= h /\ l <= h
      BY LargerOf
    <3>3. ASSUME NEW i \in 1 .. n, i <= k PROVE f[i] <= h
      <4>1. CASE i = k
        BY <3>1, <3>2, <4>1
      <4>2. CASE i # k
        <5>1. i \in Nat
          OBVIOUS
        <5>2. i <= k - 1
          BY <2>3, <3>3, <4>2, <5>1
        <5>3. f[i] \in Nat
          BY <1>1
        <5> QED
          BY <2>6, <3>2, <5>2, <5>3
      <4> QED
        BY <4>1, <4>2
    <3> QED
      BY <2>3, <3>2, <3>3
  <2>8. CASE k \notin 1 .. n
    <3>1. \A i \in 1 .. n : i <= k => i <= k - 1
      BY <2>3, <2>8
    <3> QED
      BY <2>3, <2>6, <3>1
  <2> QED
    BY <2>7, <2>8
<1>3. Bounded(n)
  BY <1>2
<1>4. PICK m \in Nat : \A i \in 1 .. n : f[i] <= m
  BY <1>3
<1> QED
  BY <1>1, <1>4

LEMMA GreatestNatural ==
  ASSUME NEW S \in SUBSET Nat, IsFiniteSet(S), S # {}
  PROVE  \E n \in S : \A m \in S : m <= n
<1> DEFINE B == {m \in Nat : \A x \in S : x <= m}
<1>1. B \in SUBSET Nat /\ B # {}
  BY BoundedNaturals
<1>2. PICK n \in B : \A m \in B : n <= m
  <2> HIDE DEF B
  <2> QED
    BY <1>1, LeastNatural
<1>3. n \in Nat /\ \A x \in S : x <= n
  OBVIOUS
<1>4. n \in S
  <2> SUFFICES ASSUME n \notin S PROVE FALSE
    OBVIOUS
  <2>1. PICK x \in S : TRUE
    OBVIOUS
  <2>2. x \in Nat /\ x <= n /\ x # n
    BY <1>3
  <2>3. n - 1 \in Nat
    BY <1>3, <2>2
  <2>4. ASSUME NEW y \in S PROVE y <= n - 1
    <3>1. y \in Nat /\ y <= n /\ y # n
      BY <1>3
    <3> QED
      BY <1>3, <3>1
  <2>5. n - 1 \in B
    BY <2>3, <2>4
  <2>6. n <= n - 1
    BY <1>2, <2>5
  <2> QED
    BY <1>3, <2>6
<1> QED
  BY <1>3, <1>4

LEMMA ImageFinite ==
  ASSUME NEW S, IsFiniteSet(S), NEW f
  PROVE  IsFiniteSet({f[x] : x \in S})
<1> DEFINE T == {f[x] : x \in S}
           g == [x \in S |-> f[x]]
<1>1. g \in [S -> T] /\ \A t \in T : \E x \in S : g[x] = t
  OBVIOUS
<1>2. g \in Surjection(S, T)
  BY <1>1 DEF Surjection
<1> HIDE DEF g, T
<1>3. IsFiniteSet(T)
  BY <1>2, FS_Surjection
<1> QED
  BY <1>3 DEF T

LEMMA SlugsFinite ==
  ASSUME SpacesTyped
  PROVE  /\ IsFiniteSet(OrgSlugs) /\ IsFiniteSet(ProjectSlugs) /\ ProjectSlugs \subseteq SlugSet
         /\ \A o \in Orgs : IsFiniteSet(SpaceSlugs(o))
<1>1. ProjectSlugs \subseteq SlugSet
  BY DEF SpacesTyped, ProjectSlugs, ProjectRows, ProjectRow
<1>2. IsFiniteSet(OrgSlugs)
  <2>1. PICK f : f = [o \in OrgRows |-> org[o].slug]
    OBVIOUS
  <2>2. OrgSlugs = {f[o] : o \in OrgRows}
    BY <2>1 DEF OrgSlugs
  <2>3. IsFiniteSet(OrgRows)
    BY DEF SpacesTyped
  <2> QED
    BY <2>2, <2>3, ImageFinite
<1>3. IsFiniteSet(ProjectSlugs)
  <2>1. PICK f : f = [p \in ProjectRows |-> proj[p].slug]
    OBVIOUS
  <2>2. ProjectSlugs = {f[p] : p \in ProjectRows}
    BY <2>1 DEF ProjectSlugs
  <2>3. IsFiniteSet(ProjectRows)
    BY DEF SpacesTyped
  <2> QED
    BY <2>2, <2>3, ImageFinite
<1>4. ASSUME NEW o \in Orgs PROVE IsFiniteSet(SpaceSlugs(o))
  <2>1. IsFiniteSet(Inside(o))
    BY FS_Subset DEF SpacesTyped, Inside
  <2>2. PICK f : f = [w \in Inside(o) |-> space[w].slug]
    OBVIOUS
  <2>3. SpaceSlugs(o) = {f[w] : w \in Inside(o)}
    BY <2>2 DEF SpaceSlugs
  <2> QED
    BY <2>1, <2>3, ImageFinite
<1> QED
  BY <1>1, <1>2, <1>3, <1>4

LEMMA NumberAfterIsFree ==
  ASSUME SpacesTyped, NEW b \in Bases
  PROVE  NumberAfter(b) \in SlugSet /\ NumberAfter(b) \notin ProjectSlugs
<1>1. b \in SlugSet /\ b # <<>> /\ b \in Seq(Words) /\ Len(b) \in Nat \ {0}
  <2>1. b \in SlugSet /\ b # <<>>
    BY BaseSlug
  <2> QED
    BY <2>1, EmptySeq DEF SlugSet
<1>2. IsPrefix(b, b)
  BY <1>1 DEF IsPrefix
<1>3. CASE ~\E s \in ProjectSlugs : IsPrefix(b, s)
  BY <1>1, <1>2, <1>3 DEF NumberAfter
<1>4. CASE \E s \in ProjectSlugs : IsPrefix(b, s)
  <2>1. NumbersAfter(b) \in SUBSET Nat
    <3> SUFFICES ASSUME NEW s \in ProjectSlugs, Len(s) = Len(b) + 1
                 PROVE  s[Len(s)] \in Nat
      BY DEF NumbersAfter
    <3>1. \A i \in 2 .. Len(s) : s[i] \in Nat
      BY SlugsFinite DEF SlugSet
    <3> QED
      BY <1>1, <3>1
  <2>2. IsFiniteSet(NumbersAfter(b) \union {0})
    <3> DEFINE T == {s \in ProjectSlugs : Len(s) = Len(b) + 1 /\ IsPrefix(b, s)}
    <3>1. IsFiniteSet(T)
      BY SlugsFinite, FS_Subset
    <3>2. IsFiniteSet({s[Len(s)] : s \in T})
      <4> HIDE DEF T
      <4>1. PICK f : f = [s \in T |-> s[Len(s)]]
        OBVIOUS
      <4>2. {s[Len(s)] : s \in T} = {f[s] : s \in T}
        BY <4>1
      <4> QED
        BY <3>1, <4>2, ImageFinite
    <3>3. IsFiniteSet(NumbersAfter(b))
      BY <3>2 DEF NumbersAfter
    <3> QED
      BY <3>3, FS_AddElement
  <2>3. PICK N : N = NumbersAfter(b)
    OBVIOUS
  <2>4. \E n \in N \union {0} : \A m \in N \union {0} : m <= n
    <3>1. N \union {0} \in SUBSET Nat /\ N \union {0} # {} /\ IsFiniteSet(N \union {0})
      BY <2>1, <2>2, <2>3
    <3> QED
      BY <3>1, GreatestNatural
  <2>5. PICK k : k = CHOOSE n \in N \union {0} : \A m \in N : m <= n
    OBVIOUS
  <2>6. k \in Nat /\ \A m \in N : m <= k
    BY <2>1, <2>3, <2>4, <2>5
  <2>7. NumberAfter(b) = Append(b, 1 + k)
    BY <1>4, <2>3, <2>5 DEF NumberAfter
  <2>8. PICK a : a = Append(b, 1 + k)
    OBVIOUS
  <2>9. 1 + k \in Nat /\ a \in SlugSet /\ Len(a) = Len(b) + 1 /\ a[Len(a)] = 1 + k /\ IsPrefix(b, a)
    BY <1>1, <2>6, <2>8, NumberedSlug
  <2>10. ASSUME a \in ProjectSlugs PROVE FALSE
    <3>1. a[Len(a)] \in N
      BY <2>3, <2>9, <2>10 DEF NumbersAfter
    <3> QED
      BY <2>6, <2>9, <3>1
  <2> QED
    BY <2>7, <2>8, <2>9, <2>10
<1> QED
  BY <1>3, <1>4

-----------------------------------------------------------------------------
\* The requests, and what a step of r does to them: it goes on as y, and what
\* it wrote (w) overtakes the others.
OnboardData == [name : Bases, slug : SlugSet]
MoveData == [w : Spaces, parent : Spaces \union {NoSpace}, old : Seq(Spaces), new : Seq(Spaces)]
DraftData == [row : ProjectRow, base : Bases, tries : Nat]
SpaceData == OnboardData \union SpaceRow \union MoveData \union Spaces \union DraftData
             \union Projects \union {NoData}
SpaceSteps == {"", "insert", "write"}
SpaceCall(D) == [op : SpaceOps \union {"idle"}, step : SpaceSteps, with : D, over : SUBSET SpaceOps]

Turned(D, r, y, w) ==
  /\ req' \in [Requests -> SpaceCall(D)] /\ req'[r] = y
  /\ \A q \in Requests \ {r} :
       /\ req'[q].op = req[q].op /\ req'[q].step = req[q].step /\ req'[q].with = req[q].with
       /\ req'[q].over = IF req[q].op = "idle" THEN req[q].over ELSE req[q].over \union w

LEMMA IdleCall ==
  ASSUME NEW D, NoData \in D
  PROVE  Idle \in SpaceCall(D) /\ Idle.op = "idle" /\ Idle.step = "" /\ Idle.over = {}
<1>1. PICK x : x = NoData
  OBVIOUS
<1>2. Idle = [op |-> "idle", step |-> "", with |-> x, over |-> {}] /\ x \in D
  BY <1>1 DEF Idle
<1>3. Idle \in SpaceCall(D)
  BY <1>2 DEF SpaceCall, SpaceSteps
<1> QED
  BY <1>2, <1>3

LEMMA GoOnTurns ==
  ASSUME NEW D, req \in [Requests -> SpaceCall(D)], NEW r \in Requests, NEW step \in SpaceSteps,
         NEW with \in D, GoOn(r, step, with)
  PROVE  \E y \in SpaceCall(D) : /\ Turned(D, r, y, {}) /\ y.op = req[r].op /\ y.step = step
                                 /\ y.with = with /\ y.over = req[r].over
<1>1. PICK y : y = [req[r] EXCEPT !.step = step, !.with = with]
  OBVIOUS
<1>2. y \in SpaceCall(D) /\ y.op = req[r].op /\ y.step = step /\ y.with = with /\ y.over = req[r].over
  BY <1>1 DEF SpaceCall
<1>3. req' = [req EXCEPT ![r] = y]
  BY <1>1 DEF GoOn
<1>4. Turned(D, r, y, {})
  BY <1>2, <1>3 DEF Turned
<1> QED
  BY <1>2, <1>4

SpacesOvertaken(D, r, op, o) ==
  /\ o \in [Requests -> SpaceCall(D)] /\ o[r] = req[r]
  /\ \A q \in Requests \ {r} :
       /\ o[q].op = req[q].op /\ o[q].step = req[q].step /\ o[q].with = req[q].with
       /\ o[q].over = IF req[q].op = "idle" THEN req[q].over ELSE req[q].over \union {op}

LEMMA SpacesOvertakenType ==
  ASSUME NEW D, req \in [Requests -> SpaceCall(D)], NEW r \in Requests, NEW op \in SpaceOps
  PROVE  SpacesOvertaken(D, r, op, Overtaken(r, op))
<1>1. \A q \in Requests : [req[q] EXCEPT !.over = @ \union {op}] \in SpaceCall(D)
  BY DEF SpaceCall
<1>2. ASSUME NEW q \in Requests \ {r}
      PROVE  /\ Overtaken(r, op)[q] \in SpaceCall(D)
             /\ Overtaken(r, op)[q].op = req[q].op /\ Overtaken(r, op)[q].step = req[q].step
             /\ Overtaken(r, op)[q].with = req[q].with
             /\ Overtaken(r, op)[q].over = IF req[q].op = "idle" THEN req[q].over
                                           ELSE req[q].over \union {op}
  <2>1. Overtaken(r, op)[q] = IF req[q].op # "idle" THEN [req[q] EXCEPT !.over = @ \union {op}] ELSE req[q]
    BY DEF Overtaken, Active
  <2> QED
    BY <1>1, <2>1 DEF SpaceCall
<1>3. Overtaken(r, op)[r] = req[r]
  BY DEF Overtaken
<1>4. Overtaken(r, op) \in [Requests -> SpaceCall(D)]
  BY <1>2, <1>3 DEF Overtaken
<1> QED
  BY <1>2, <1>3, <1>4 DEF SpacesOvertaken

LEMMA CommitTurns ==
  ASSUME NEW D, NoData \in D, req \in [Requests -> SpaceCall(D)], NEW r \in Requests,
         NEW op \in SpaceOps, req[r].op = op, Commit(r)
  PROVE  Turned(D, r, Idle, {op})
<1>1. PICK o : o = Overtaken(r, op)
  OBVIOUS
<1>2. SpacesOvertaken(D, r, op, o) /\ req' = [o EXCEPT ![r] = Idle]
  BY <1>1, SpacesOvertakenType DEF Commit
<1> QED
  BY <1>2, IdleCall DEF Turned, SpacesOvertaken

LEMMA AnswerTurns ==
  ASSUME NEW D, NoData \in D, req \in [Requests -> SpaceCall(D)], NEW r \in Requests, Answer(r)
  PROVE  Turned(D, r, Idle, {})
BY IdleCall DEF Turned, Answer

LEMMA OnceTurns ==
  ASSUME NEW D, req \in [Requests -> SpaceCall(D)], NEW r \in Requests, NEW op \in SpaceOps, Once(r, op)
  PROVE  Turned(D, r, req[r], {op}) /\ req[r].op = "idle" /\ req[r] \in SpaceCall(D)
<1>1. PICK o : o = Overtaken(r, op)
  OBVIOUS
<1>2. SpacesOvertaken(D, r, op, o) /\ req' = o /\ req[r].op = "idle"
  BY <1>1, SpacesOvertakenType DEF Once, Active
<1> QED
  BY <1>2 DEF Turned, SpacesOvertaken

LEMMA AskTurns ==
  ASSUME NEW D, req \in [Requests -> SpaceCall(D)], NEW r \in Requests, NEW op \in SpaceOps,
         NEW step \in SpaceSteps, NEW with \in D, Ask(r, op, step, with)
  PROVE  \E y \in SpaceCall(D) : /\ Turned(D, r, y, {}) /\ y.op = op /\ y.step = step
                                 /\ y.with = with /\ y.over = {} /\ req[r].op = "idle"
<1>1. PICK y : y = [op |-> op, step |-> step, with |-> with, over |-> {}]
  OBVIOUS
<1>2. y \in SpaceCall(D) /\ y.op = op /\ y.step = step /\ y.with = with /\ y.over = {}
  BY <1>1 DEF SpaceCall
<1>3. req' = [req EXCEPT ![r] = y] /\ req[r].op = "idle"
  BY <1>1 DEF Ask, Active
<1>4. Turned(D, r, y, {})
  BY <1>2, <1>3 DEF Turned
<1> QED
  BY <1>2, <1>3, <1>4

-----------------------------------------------------------------------------
(* What a request read of the tables still holds when it writes, unless an *)
(* operation that could change it has overtaken the request.               *)
TreeChanges == TreeOps \union {"updateSpace"}
ShelfChanges == {"archiveSpace", "updateProject"}

OnboardOK(x) == x.op = "createOrg" => x.step = "insert" /\ x.with \in OnboardData

Growing(h) ==
  /\ h.parent = NoSpace \/ h.parent \in Inside(h.org)
  /\ h.path = PathTo(h.parent)

GrowOK(x) ==
  x.op = "createSpace" =>
    /\ x.step = "insert" /\ x.with \in SpaceRow /\ x.with.state = "live"
    /\ x.over \intersect TreeChanges = {} => Growing(x.with)
    /\ x.over = {} => Row(org, x.with.org) /\ x.with.slug \notin SpaceSlugs(x.with.org)

Movable(h) ==
  /\ h.w \in SpaceRows /\ h.old = PathOf(h.w) /\ h.new = Append(PathTo(h.parent), h.w)
  /\ h.parent # NoSpace => h.parent \in Inside(space[h.w].org) /\ ~Below(h.w, h.parent)

MoveOK(x) ==
  x.op = "moveSpace" =>
    /\ x.step = "write" /\ x.with \in MoveData /\ x.with.parent # x.with.w
    /\ x.over \intersect TreeChanges = {} => Movable(x.with)

ShelveOK(x) == x.op \in {"archiveSpace", "unarchiveSpace"} => x.step = "write" /\ x.with \in Spaces

DraftOK(x) ==
  x.op = "createProject" =>
    /\ x.step = "insert" /\ x.with \in DraftData /\ x.with.row.state = "live"
    /\ x.over = {} => x.with.row.ws \in SpaceRows /\ x.with.row.slug \notin ProjectSlugs

ReturnOK(x) ==
  x.op \in {"archiveProject", "unarchiveProject"} =>
    /\ x.step = "write" /\ x.with \in Projects /\ proj[x.with].state # "none"
    /\ x.op = "unarchiveProject" /\ x.over \intersect ShelfChanges = {} /\ x.with \in ProjectRows =>
         space[proj[x.with].ws].state = "live"

AskedOps == {"createOrg", "createSpace", "moveSpace", "archiveSpace", "unarchiveSpace",
             "createProject", "archiveProject", "unarchiveProject"}

SpaceReqOK(x) ==
  /\ x.op \in AskedOps \union {"idle"} /\ (x.op = "idle" => x.step = "")
  /\ OnboardOK(x) /\ GrowOK(x) /\ MoveOK(x) /\ ShelveOK(x) /\ DraftOK(x) /\ ReturnOK(x)

SpaceIInv ==
  /\ SpacesTyped /\ req \in [Requests -> SpaceCall(SpaceData)]
  /\ \A r \in Requests : SpaceReqOK(req[r])

\* What a step that overtakes the others with w has to leave to them.
TreeKept ==
  \A v \in SpaceRows :
    /\ v \in SpaceRows' /\ space'[v].org = space[v].org
    /\ space'[v].parent = space[v].parent /\ space'[v].path = space[v].path

SpacesFramed(w) ==
  /\ w = {} => UNCHANGED spaceVars
  /\ w \intersect TreeChanges = {} => TreeKept
  /\ \A p \in Projects : proj[p].state # "none" => proj'[p].state # "none"
  /\ w \intersect ShelfChanges = {} =>
       \A p \in ProjectRows' : proj[p].state # "none" =>
         /\ p \in ProjectRows /\ proj'[p].ws = proj[p].ws
         /\ space[proj[p].ws].state = "live" => space'[proj[p].ws].state = "live"

LEMMA SpaceDataFacts ==
  /\ OnboardData \subseteq SpaceData /\ SpaceRow \subseteq SpaceData /\ MoveData \subseteq SpaceData
  /\ Spaces \subseteq SpaceData /\ DraftData \subseteq SpaceData /\ Projects \subseteq SpaceData
  /\ NoData \in SpaceData
BY DEF SpaceData

LEMMA RowsAre ==
  /\ OrgRows \subseteq Orgs /\ SpaceRows \subseteq Spaces /\ ProjectRows \subseteq Projects
  /\ NoSpace \notin Spaces
BY SpacesAssumption DEF OrgRows, SpaceRows, ProjectRows

LEMMA KeptPaths ==
  ASSUME TreeKept, NEW v \in SpaceRows
  PROVE  /\ PathOf(v)' = PathOf(v)
         /\ \A o : v \in Inside(o) => v \in Inside(o)'
         /\ \A u : Below(u, v)' <=> Below(u, v)
<1>1. v \in SpaceRows' /\ space'[v].org = space[v].org /\ space'[v].path = space[v].path
  BY DEF TreeKept
<1>2. PathOf(v)' = PathOf(v)
  BY <1>1 DEF PathOf
<1>3. ASSUME NEW o, v \in Inside(o) PROVE v \in Inside(o)'
  BY <1>1, <1>3 DEF Inside
<1>4. ASSUME NEW u PROVE Below(u, v)' <=> Below(u, v)
  BY <1>1 DEF Below
<1> QED
  BY <1>2, <1>3, <1>4

LEMMA GrowingKept ==
  ASSUME TreeKept, NEW h \in SpaceRow, Growing(h)
  PROVE  Growing(h)'
<1>1. CASE h.parent = NoSpace
  BY <1>1 DEF Growing, PathTo
<1>2. CASE h.parent # NoSpace
  <2>1. h.parent \in Inside(h.org) /\ h.parent \in SpaceRows
    BY <1>2 DEF Growing, Inside
  <2>2. PathOf(h.parent)' = PathOf(h.parent) /\ h.parent \in Inside(h.org)'
    BY <2>1, KeptPaths
  <2> QED
    BY <1>2, <2>2 DEF Growing, PathTo
<1> QED
  BY <1>1, <1>2

LEMMA MovableKept ==
  ASSUME TreeKept, NEW h \in MoveData, Movable(h)
  PROVE  Movable(h)'
<1>1. h.w \in SpaceRows /\ h.w \in SpaceRows' /\ space'[h.w].org = space[h.w].org
  BY DEF Movable, TreeKept
<1>2. PathOf(h.w)' = PathOf(h.w)
  BY <1>1, KeptPaths
<1>3. CASE h.parent = NoSpace
  BY <1>1, <1>2, <1>3 DEF Movable, PathTo
<1>4. CASE h.parent # NoSpace
  <2>1. h.parent \in Inside(space[h.w].org) /\ h.parent \in SpaceRows /\ ~Below(h.w, h.parent)
    BY <1>4 DEF Movable, Inside
  <2>2. PICK o : o = space[h.w].org
    OBVIOUS
  <2>3. /\ PathOf(h.parent)' = PathOf(h.parent) /\ h.parent \in Inside(o)'
        /\ ~Below(h.w, h.parent)'
    BY <2>1, <2>2, KeptPaths
  <2>4. h.parent \in Inside(space[h.w].org)'
    BY <1>1, <2>2, <2>3 DEF Inside
  <2>5. PathTo(h.parent)' = PathTo(h.parent)
    BY <1>4, <2>3 DEF PathTo
  <2> QED
    BY <1>1, <1>2, <2>3, <2>4, <2>5 DEF Movable
<1> QED
  BY <1>3, <1>4

\* With nothing written, what was read is as it was.
LEMMA UnwrittenKeeps ==
  ASSUME NEW x, SpaceReqOK(x), UNCHANGED spaceVars
  PROVE  SpaceReqOK(x)'
<1>1. UNCHANGED <<org, space, proj>>
  BY DEF spaceVars
<1>2. OnboardOK(x)' /\ ShelveOK(x)'
  BY DEF SpaceReqOK, OnboardOK, ShelveOK
<1>3. GrowOK(x)'
  BY <1>1 DEF SpaceReqOK, GrowOK, Growing, PathTo, PathOf, Inside, SpaceRows, Row, SpaceSlugs
<1>4. MoveOK(x)'
  BY <1>1 DEF SpaceReqOK, MoveOK, Movable, PathTo, PathOf, Inside, SpaceRows, Row, Below
<1>5. DraftOK(x)'
  BY <1>1 DEF SpaceReqOK, DraftOK, SpaceRows, Row, ProjectSlugs, ProjectRows
<1>6. ReturnOK(x)'
  BY <1>1 DEF SpaceReqOK, ReturnOK, ProjectRows, Row
<1> QED
  BY <1>2, <1>3, <1>4, <1>5, <1>6 DEF SpaceReqOK

LEMMA OvertakenKeeps ==
  ASSUME NEW D, NEW a \in SpaceCall(D), SpaceReqOK(a), NEW b \in SpaceCall(D), NEW w, w # {}, SpacesFramed(w),
         b.op = a.op, b.step = a.step, b.with = a.with,
         b.over = IF a.op = "idle" THEN a.over ELSE a.over \union w
  PROVE  SpaceReqOK(b)'
<1>1. CASE a.op = "idle"
  BY <1>1 DEF SpaceReqOK, OnboardOK, GrowOK, MoveOK, ShelveOK, DraftOK, ReturnOK, AskedOps
<1>2. CASE a.op # "idle"
  <2>1. b.over = a.over \union w /\ b.over # {}
    BY <1>2
  <2>2. OnboardOK(b)' /\ ShelveOK(b)' /\ DraftOK(b)'
    BY <2>1 DEF SpaceReqOK, OnboardOK, ShelveOK, DraftOK
  <2>3. GrowOK(b)'
    <3> SUFFICES ASSUME b.op = "createSpace" PROVE GrowOK(b)'
      BY DEF GrowOK
    <3>1. b.step = "insert" /\ b.with \in SpaceRow /\ b.with.state = "live"
      BY DEF SpaceReqOK, GrowOK
    <3>2. ASSUME b.over \intersect TreeChanges = {} PROVE Growing(b.with)'
      <4>1. a.over \intersect TreeChanges = {} /\ w \intersect TreeChanges = {}
        BY <2>1, <3>2
      <4>2. TreeKept /\ Growing(b.with)
        BY <4>1 DEF SpacesFramed, SpaceReqOK, GrowOK
      <4>3. PICK h : h = b.with
        OBVIOUS
      <4> QED
        BY <3>1, <4>2, <4>3, GrowingKept
    <3> QED
      BY <2>1, <3>1, <3>2 DEF GrowOK
  <2>4. MoveOK(b)'
    <3> SUFFICES ASSUME b.op = "moveSpace" PROVE MoveOK(b)'
      BY DEF MoveOK
    <3>1. b.step = "write" /\ b.with \in MoveData /\ b.with.parent # b.with.w
      BY DEF SpaceReqOK, MoveOK
    <3>2. ASSUME b.over \intersect TreeChanges = {} PROVE Movable(b.with)'
      <4>1. a.over \intersect TreeChanges = {} /\ w \intersect TreeChanges = {}
        BY <2>1, <3>2
      <4>2. TreeKept /\ Movable(b.with)
        BY <4>1 DEF SpacesFramed, SpaceReqOK, MoveOK
      <4>3. PICK h : h = b.with
        OBVIOUS
      <4> QED
        BY <3>1, <4>2, <4>3, MovableKept
    <3> QED
      BY <2>1, <3>1, <3>2 DEF MoveOK
  <2>5. ReturnOK(b)'
    <3> SUFFICES ASSUME b.op \in {"archiveProject", "unarchiveProject"} PROVE ReturnOK(b)'
      BY DEF ReturnOK
    <3>1. PICK p : p = b.with
      OBVIOUS
    <3>2. b.step = "write" /\ p \in Projects /\ proj[p].state # "none" /\ proj'[p].state # "none"
      BY <3>1 DEF SpaceReqOK, ReturnOK, SpacesFramed
    <3>3. ASSUME b.op = "unarchiveProject", b.over \intersect ShelfChanges = {}, p \in ProjectRows'
          PROVE  space'[proj'[p].ws].state = "live"
      <4>1. a.over \intersect ShelfChanges = {} /\ w \intersect ShelfChanges = {}
        BY <2>1, <3>3
      <4>2. /\ p \in ProjectRows /\ proj'[p].ws = proj[p].ws
            /\ space[proj[p].ws].state = "live" => space'[proj[p].ws].state = "live"
        BY <3>2, <3>3, <4>1 DEF SpacesFramed
      <4>3. space[proj[p].ws].state = "live"
        BY <3>1, <3>3, <4>1, <4>2 DEF SpaceReqOK, ReturnOK
      <4> QED
        BY <4>2, <4>3
    <3> QED
      BY <3>1, <3>2, <3>3 DEF ReturnOK
  <2> QED
    BY <2>2, <2>3, <2>4, <2>5 DEF SpaceReqOK
<1> QED
  BY <1>1, <1>2

LEMMA SpaceStepKeeps ==
  ASSUME SpaceIInv, NEW r \in Requests, NEW y, NEW w, Turned(SpaceData, r, y, w), SpacesFramed(w),
         SpacesTyped', SpaceReqOK(y)'
  PROVE  SpaceIInv'
<1>1. req' \in [Requests -> SpaceCall(SpaceData)] /\ req'[r] = y
  BY DEF Turned
<1>2. ASSUME NEW q \in Requests \ {r} PROVE SpaceReqOK(req[q])'
  <2>1. PICK a, b, D : a = req[q] /\ b = req'[q] /\ D = SpaceData
    OBVIOUS
  <2>2. /\ a \in SpaceCall(D) /\ b \in SpaceCall(D) /\ SpaceReqOK(a)
        /\ b.op = a.op /\ b.step = a.step /\ b.with = a.with
        /\ b.over = IF a.op = "idle" THEN a.over ELSE a.over \union w
    BY <2>1 DEF SpaceIInv, Turned
  <2>3. SpaceReqOK(req[q])' <=> SpaceReqOK(b)'
    BY <2>1
  <2>4. CASE w = {}
    <3>1. b = a
      BY <2>2, <2>4 DEF SpaceCall
    <3>2. SpaceReqOK(a)'
      BY <2>2, <2>4, UnwrittenKeeps DEF SpacesFramed
    <3> QED
      BY <2>3, <3>1, <3>2
  <2>5. CASE w # {}
    BY <2>2, <2>3, <2>5, OvertakenKeeps
  <2> QED
    BY <2>4, <2>5
<1>3. SpaceReqOK(req[r])'
  <2>1. SpaceReqOK(req[r])' <=> SpaceReqOK(y)'
    BY <1>1
  <2> QED
    BY <2>1
<1> QED
  BY <1>1, <1>2, <1>3 DEF SpaceIInv

\* A step that writes nothing, and one that only begins.
LEMMA SpaceLooks ==
  ASSUME SpaceIInv, NEW r \in Requests, NEW y, Turned(SpaceData, r, y, {}), UNCHANGED spaceVars,
         SpaceReqOK(y)
  PROVE  SpaceIInv'
<1>1. SpacesFramed({})
  BY DEF SpacesFramed, spaceVars, TreeKept, SpaceRows, ProjectRows, Row
<1>2. SpacesTyped'
  BY DEF SpaceIInv, SpacesTyped, spaceVars, OrgRows, SpaceRows, ProjectRows, Row
<1>3. SpaceReqOK(y)'
  BY UnwrittenKeeps
<1> QED
  BY <1>1, <1>2, <1>3, SpaceStepKeeps

LEMMA IdleOK == SpaceReqOK(Idle) /\ SpaceReqOK(Idle)' /\ NoData \in SpaceData
<1>1. Idle.op = "idle" /\ Idle.step = ""
  BY DEF Idle
<1> QED
  BY <1>1, SpaceDataFacts DEF SpaceReqOK, OnboardOK, GrowOK, MoveOK, ShelveOK, DraftOK, ReturnOK, AskedOps

LEMMA InitSpaceIInv == HandlersInit /\ SpacesInit => SpaceIInv
<1> SUFFICES ASSUME HandlersInit, SpacesInit PROVE SpaceIInv
  OBVIOUS
<1>1. FirstBase \in SlugSet /\ <<>> \in SlugSet
  <2>1. FirstBase \in Bases
    BY SpacesAssumption DEF FirstBase
  <2>2. <<>> \in Seq(Words) /\ Len(<<>>) = 0
    BY EmptySeq
  <2> QED
    BY <2>1, <2>2, BaseSlug DEF SlugSet
<1>2. Home \in Orgs /\ Root \in Spaces /\ <<>> \in Seq(Spaces)
  BY SpacesAssumption
<1>3. org \in [Orgs -> OrgRow] /\ OrgRows \subseteq {Home}
  BY <1>1, <1>2 DEF SpacesInit, OrgRow, RowStates, NoOrg, OrgRows, Row
<1>4. space \in [Spaces -> SpaceRow] /\ SpaceRows \subseteq {Root}
  BY <1>1, <1>2 DEF SpacesInit, SpaceRow, RowStates, NoRow, NewSpace, SpaceRows, Row
<1>5. proj \in [Projects -> ProjectRow] /\ ProjectRows = {}
  BY <1>1, <1>2 DEF SpacesInit, ProjectRow, RowStates, NewProject, ProjectRows, Row
<1>6. SpacesTyped
  BY <1>3, <1>4, <1>5, FS_Singleton, FS_EmptySet, FS_Subset DEF SpacesTyped
<1>7. PICK D : D = SpaceData
  OBVIOUS
<1>8. req \in [Requests -> SpaceCall(D)] /\ \A r \in Requests : SpaceReqOK(req[r])
  <2>1. NoData \in D
    BY <1>7, SpaceDataFacts
  <2> QED
    BY <2>1, IdleCall, IdleOK DEF HandlersInit
<1> QED
  BY <1>6, <1>7, <1>8 DEF SpaceIInv

-----------------------------------------------------------------------------
\* The shapes of the steps.

LEMMA SpaceAsks ==
  ASSUME SpaceIInv, NEW r \in Requests, NEW op \in AskedOps, NEW step \in SpaceSteps,
         NEW with \in SpaceData, Ask(r, op, step, with), UNCHANGED spaceVars,
         \A y \in SpaceCall(SpaceData) :
           y.op = op /\ y.step = step /\ y.with = with /\ y.over = {} => SpaceReqOK(y)
  PROVE  SpaceIInv'
<1>1. PICK D : D = SpaceData
  OBVIOUS
<1>2. req \in [Requests -> SpaceCall(D)] /\ with \in D /\ op \in SpaceOps
  BY <1>1 DEF SpaceIInv, AskedOps, SpaceOps, TreeOps, ArchiveOps, NameOps
<1>3. PICK y \in SpaceCall(D) : /\ Turned(D, r, y, {}) /\ y.op = op /\ y.step = step
                                /\ y.with = with /\ y.over = {} /\ req[r].op = "idle"
  BY <1>2, AskTurns
<1> QED
  BY <1>1, <1>3, SpaceLooks

LEMMA SpaceAnswers ==
  ASSUME SpaceIInv, NEW r \in Requests, Answer(r), UNCHANGED spaceVars
  PROVE  SpaceIInv'
<1>1. PICK D : D = SpaceData
  OBVIOUS
<1>2. req \in [Requests -> SpaceCall(D)] /\ NoData \in D
  BY <1>1, SpaceDataFacts DEF SpaceIInv
<1>3. Turned(D, r, Idle, {})
  BY <1>2, AnswerTurns
<1> QED
  BY <1>1, <1>3, SpaceLooks, IdleOK

LEMMA SpaceCommits ==
  ASSUME SpaceIInv, NEW r \in Requests, NEW op \in SpaceOps, req[r].op = op, Commit(r),
         SpacesFramed({op}), SpacesTyped'
  PROVE  SpaceIInv'
<1>1. PICK D : D = SpaceData
  OBVIOUS
<1>2. req \in [Requests -> SpaceCall(D)] /\ NoData \in D
  BY <1>1, SpaceDataFacts DEF SpaceIInv
<1>3. Turned(D, r, Idle, {op})
  BY <1>2, CommitTurns
<1> QED
  BY <1>1, <1>3, SpaceStepKeeps, IdleOK

LEMMA SpaceOnce ==
  ASSUME SpaceIInv, NEW r \in Requests, NEW op \in SpaceOps, Once(r, op), SpacesFramed({op}), SpacesTyped'
  PROVE  SpaceIInv'
<1>1. PICK D, x : D = SpaceData /\ x = req[r]
  OBVIOUS
<1>2. req \in [Requests -> SpaceCall(D)] /\ SpaceReqOK(x)
  BY <1>1 DEF SpaceIInv
<1>3. Turned(D, r, x, {op}) /\ x.op = "idle"
  BY <1>1, <1>2, OnceTurns
<1>4. SpaceReqOK(x)'
  BY <1>2, <1>3 DEF SpaceReqOK, OnboardOK, GrowOK, MoveOK, ShelveOK, DraftOK, ReturnOK, AskedOps
<1> QED
  BY <1>1, <1>3, <1>4, SpaceStepKeeps

\* At most one row of each table is new.
LEMMA StillTyped ==
  ASSUME SpacesTyped, org' \in [Orgs -> OrgRow], space' \in [Spaces -> SpaceRow],
         proj' \in [Projects -> ProjectRow],
         NEW o, OrgRows' \subseteq OrgRows \union {o},
         NEW w, SpaceRows' \subseteq SpaceRows \union {w},
         NEW p, ProjectRows' \subseteq ProjectRows \union {p}
  PROVE  SpacesTyped'
<1>1. IsFiniteSet(OrgRows \union {o}) /\ IsFiniteSet(SpaceRows \union {w})
      /\ IsFiniteSet(ProjectRows \union {p})
  BY FS_AddElement DEF SpacesTyped
<1>2. IsFiniteSet(OrgRows') /\ IsFiniteSet(SpaceRows') /\ IsFiniteSet(ProjectRows')
  BY <1>1, FS_Subset
<1> QED
  BY <1>2 DEF SpacesTyped

LEMMA FreshId ==
  ASSUME NEW t, NEW ids, Fresh(t, ids) # {}
  PROVE  AnyOf(Fresh(t, ids)) \in ids /\ t[AnyOf(Fresh(t, ids))].state = "none"
BY DEF Fresh, AnyOf

\* One row is written, a new one or one there is.
LEMMA OrgWritten ==
  ASSUME SpacesTyped, NEW o \in Orgs, NEW row \in OrgRow, org' = [org EXCEPT ![o] = row]
  PROVE  org' \in [Orgs -> OrgRow] /\ OrgRows' \subseteq OrgRows \union {o}
BY DEF SpacesTyped, OrgRows, Row

LEMMA SpaceWritten ==
  ASSUME SpacesTyped, NEW w \in Spaces, NEW row \in SpaceRow, space' = [space EXCEPT ![w] = row]
  PROVE  /\ space' \in [Spaces -> SpaceRow] /\ SpaceRows' \subseteq SpaceRows \union {w}
         /\ \A v \in Spaces \ {w} : space'[v] = space[v] /\ (v \in SpaceRows' <=> v \in SpaceRows)
         /\ space'[w] = row /\ (w \in SpaceRows' <=> row.state \in {"live", "archived"})
BY DEF SpacesTyped, SpaceRows, Row

LEMMA ProjectWritten ==
  ASSUME SpacesTyped, NEW p \in Projects, NEW row \in ProjectRow, proj' = [proj EXCEPT ![p] = row]
  PROVE  /\ proj' \in [Projects -> ProjectRow] /\ ProjectRows' \subseteq ProjectRows \union {p}
         /\ \A q \in Projects \ {p} : proj'[q] = proj[q] /\ (q \in ProjectRows' <=> q \in ProjectRows)
         /\ proj'[p] = row /\ (p \in ProjectRows' <=> row.state \in {"live", "archived"})
BY DEF SpacesTyped, ProjectRows, Row

LEMMA SameRows ==
  /\ UNCHANGED org => OrgRows' = OrgRows
  /\ UNCHANGED space => SpaceRows' = SpaceRows /\ TreeKept
  /\ UNCHANGED proj => ProjectRows' = ProjectRows
BY DEF OrgRows, SpaceRows, ProjectRows, Row, TreeKept

LEMMA SpaceOpNames ==
  /\ AskedOps \subseteq SpaceOps
  /\ {"removeSpace", "removeOrg", "updateSpace", "removeProject", "updateProject", "archiveOrg"} \subseteq SpaceOps
  /\ {"", "insert", "write"} = SpaceSteps
BY DEF AskedOps, SpaceOps, TreeOps, ArchiveOps, NameOps, SpaceSteps

-----------------------------------------------------------------------------
\* OrganizationsService

LEMMA AskCreateOrgKeeps == ASSUME SpaceIInv, NEW r \in Requests, AskCreateOrg(r) PROVE SpaceIInv'
<1>1. PICK b, c \in Bases :
        /\ Ask(r, "createOrg", "insert", [name |-> c, slug |-> FirstFree(b, OrgSlugs)])
        /\ UNCHANGED spaceVars
  BY DEF AskCreateOrg
<1>2. FirstFree(b, OrgSlugs) \in SlugSet
  BY BaseSlug, FirstFreeIsFree, SlugsFinite DEF SpaceIInv
<1>3. PICK h : h = [name |-> c, slug |-> FirstFree(b, OrgSlugs)]
  OBVIOUS
<1>4. h \in OnboardData /\ h \in SpaceData
  BY <1>2, <1>3, SpaceDataFacts DEF OnboardData
<1>5. Ask(r, "createOrg", "insert", h)
  BY <1>1, <1>3
<1>6. "createOrg" \in AskedOps /\ "insert" \in SpaceSteps
  BY DEF AskedOps, SpaceSteps
<1>7. \A y \in SpaceCall(SpaceData) :
        y.op = "createOrg" /\ y.step = "insert" /\ y.with = h /\ y.over = {} => SpaceReqOK(y)
  BY <1>4 DEF SpaceReqOK, OnboardOK, GrowOK, MoveOK, ShelveOK, DraftOK, ReturnOK, AskedOps
<1> QED
  BY <1>1, <1>4, <1>5, <1>6, <1>7, SpaceAsks

LEMMA CreateOrgKeeps == ASSUME SpaceIInv, NEW r \in Requests, CreateOrg(r) PROVE SpaceIInv'
<1>1. CASE Answer(r) /\ UNCHANGED spaceVars
  BY <1>1, SpaceAnswers
<1>2. CASE ~(Answer(r) /\ UNCHANGED spaceVars)
  <2>1. PICK o, w, p, h : /\ o = AnyOf(Fresh(org, Orgs)) /\ w = AnyOf(Fresh(space, Spaces))
                          /\ p = AnyOf(Fresh(proj, Projects)) /\ h = req[r].with
    OBVIOUS
  <2>2. /\ req[r].op = "createOrg" /\ Commit(r)
        /\ Fresh(org, Orgs) # {} /\ Fresh(space, Spaces) # {} /\ Fresh(proj, Projects) # {}
        /\ org' = [org EXCEPT ![o] = [state |-> "live", slug |-> h.slug]]
        /\ space' = [space EXCEPT ![w] = NewSpace(o, NoSpace, <<>>, h.name)]
        /\ proj' = [proj EXCEPT ![p] = NewProject(w, h.name)]
    BY <1>2, <2>1 DEF CreateOrg, At
  <2>3. /\ o \in Orgs /\ w \in Spaces /\ p \in Projects
        /\ org[o].state = "none" /\ space[w].state = "none" /\ proj[p].state = "none"
    BY <2>1, <2>2, FreshId
  <2>4. h.slug \in SlugSet /\ h.name \in SlugSet
    BY <2>1, <2>2, BaseSlug DEF SpaceIInv, SpaceReqOK, OnboardOK, OnboardData
  <2>5. PICK orow, srow, prow : /\ orow = [state |-> "live", slug |-> h.slug]
                                /\ srow = NewSpace(o, NoSpace, <<>>, h.name) /\ prow = NewProject(w, h.name)
    OBVIOUS
  <2>6. orow \in OrgRow /\ srow \in SpaceRow /\ prow \in ProjectRow /\ prow.state = "live"
    BY <2>3, <2>4, <2>5 DEF OrgRow, SpaceRow, ProjectRow, RowStates, NewSpace, NewProject
  <2>7. /\ org' \in [Orgs -> OrgRow] /\ OrgRows' \subseteq OrgRows \union {o}
        /\ space' \in [Spaces -> SpaceRow] /\ SpaceRows' \subseteq SpaceRows \union {w}
        /\ \A v \in Spaces \ {w} : space'[v] = space[v] /\ (v \in SpaceRows' <=> v \in SpaceRows)
        /\ proj' \in [Projects -> ProjectRow] /\ ProjectRows' \subseteq ProjectRows \union {p}
        /\ \A q \in Projects \ {p} : proj'[q] = proj[q] /\ (q \in ProjectRows' <=> q \in ProjectRows)
        /\ proj'[p] = prow
    BY <2>2, <2>3, <2>5, <2>6, OrgWritten, SpaceWritten, ProjectWritten DEF SpaceIInv
  <2>8. SpacesTyped'
    BY <2>7, StillTyped DEF SpaceIInv
  <2>9. w \notin SpaceRows
    BY <2>3 DEF SpaceRows, Row
  <2>10. TreeKept
    BY <2>7, <2>9, RowsAre DEF TreeKept
  <2>11. SpacesFramed({"createOrg"})
    <3>1. ASSUME NEW q \in Projects, proj[q].state # "none" PROVE proj'[q] = proj[q] /\ proj[q].ws \in Spaces
      <4>1. proj[q] \in ProjectRow
        BY DEF SpaceIInv, SpacesTyped
      <4>2. q \in Projects \ {p}
        BY <2>3, <3>1
      <4> QED
        BY <2>7, <4>1, <4>2 DEF ProjectRow
    <3>2. ASSUME NEW v \in Spaces, space[v].state = "live" PROVE space'[v] = space[v]
      BY <2>3, <2>7, <3>2
    <3>3. ASSUME NEW q \in ProjectRows', proj[q].state # "none"
          PROVE  /\ q \in ProjectRows /\ proj'[q].ws = proj[q].ws
                 /\ space[proj[q].ws].state = "live" => space'[proj[q].ws].state = "live"
      BY <2>3, <2>7, <3>1, <3>2, <3>3 DEF ProjectRows
    <3> QED
      BY <2>10, <3>1, <3>3 DEF SpacesFramed
  <2> QED
    BY <2>2, <2>8, <2>11, SpaceCommits, SpaceOpNames DEF AskedOps
<1> QED
  BY <1>1, <1>2

LEMMA ArchiveOrgKeeps == ASSUME SpaceIInv, NEW r \in Requests, ArchiveOrg(r) PROVE SpaceIInv'
<1>1. PICK o \in Orgs : /\ org[o].state = "live" /\ Once(r, "archiveOrg")
                        /\ org' = [org EXCEPT ![o].state = "archived"] /\ UNCHANGED <<space, proj>>
  BY DEF ArchiveOrg
<1>2. org \in [Orgs -> OrgRow]
  BY DEF SpaceIInv, SpacesTyped
<1>3. PICK row : row = [org[o] EXCEPT !.state = "archived"]
  OBVIOUS
<1>4. row \in OrgRow /\ org' = [org EXCEPT ![o] = row]
  BY <1>1, <1>2, <1>3 DEF OrgRow, RowStates
<1>5. org' \in [Orgs -> OrgRow] /\ OrgRows' \subseteq OrgRows \union {o}
  BY <1>4, OrgWritten DEF SpaceIInv
<1>6. SpaceRows' = SpaceRows /\ TreeKept /\ ProjectRows' = ProjectRows
  BY <1>1, SameRows
<1>7. SpacesTyped'
  <2>1. /\ SpaceRows' \subseteq SpaceRows \union {o} /\ ProjectRows' \subseteq ProjectRows \union {o}
        /\ space' \in [Spaces -> SpaceRow] /\ proj' \in [Projects -> ProjectRow]
    BY <1>1, <1>6 DEF SpaceIInv, SpacesTyped
  <2> QED
    BY <1>5, <2>1, StillTyped DEF SpaceIInv
<1>8. SpacesFramed({"archiveOrg"})
  BY <1>1, <1>6 DEF SpacesFramed
<1> QED
  BY <1>1, <1>7, <1>8, SpaceOnce, SpaceOpNames

\* What a removal of workspaces leaves.
LEMMA WithoutLeaves ==
  ASSUME SpaceIInv, NEW W \in SUBSET SpaceRows, Without(W)
  PROVE  /\ space' \in [Spaces -> SpaceRow] /\ proj' \in [Projects -> ProjectRow]
         /\ SpaceRows' \subseteq SpaceRows /\ ProjectRows' \subseteq ProjectRows
         /\ \A p \in Projects : proj[p].state # "none" => proj'[p].state # "none"
         /\ \A p \in ProjectRows' :
              /\ proj'[p].ws = proj[p].ws
              /\ space[proj[p].ws].state = "live" => space'[proj[p].ws].state = "live"
<1>1. /\ space \in [Spaces -> SpaceRow] /\ proj \in [Projects -> ProjectRow]
      /\ SpaceRows \subseteq Spaces /\ ProjectRows \subseteq Projects
  BY RowsAre DEF SpaceIInv, SpacesTyped
<1>2. PICK none : none = [NoRow EXCEPT !.state = "gone"]
  OBVIOUS
<1>3. none \in SpaceRow /\ none.state = "gone"
  <2>1. <<>> \in SlugSet
    <3>1. <<>> \in Seq(Words) /\ Len(<<>>) = 0
      BY EmptySeq
    <3> QED
      BY <3>1 DEF SlugSet
  <2> QED
    BY <1>2, <2>1, EmptySeq, SpacesAssumption DEF NoRow, NewSpace, SpaceRow, RowStates
<1>4. /\ space' = [w \in Spaces |->
                     IF w \in W THEN none
                     ELSE IF space[w].parent \in W THEN [space[w] EXCEPT !.parent = NoSpace]
                     ELSE space[w]]
      /\ proj' = [p \in Projects |-> IF p \in Held(W) THEN [proj[p] EXCEPT !.state = "gone"] ELSE proj[p]]
  BY <1>2 DEF Without
<1>5. ASSUME NEW v \in Spaces
      PROVE  /\ space'[v] \in SpaceRow
             /\ v \in W => space'[v].state = "gone"
             /\ v \notin W => space'[v].state = space[v].state
  <2>1. space[v] \in SpaceRow
    BY <1>1
  <2> QED
    BY <1>3, <1>4, <2>1 DEF SpaceRow
<1>6. space' \in [Spaces -> SpaceRow] /\ SpaceRows' \subseteq SpaceRows
  BY <1>4, <1>5 DEF SpaceRows, Row
<1>7. ASSUME NEW p \in Projects
      PROVE  /\ proj'[p] \in ProjectRow /\ proj'[p].ws = proj[p].ws
             /\ p \in Held(W) => proj'[p].state = "gone"
             /\ p \notin Held(W) => proj'[p] = proj[p]
  <2>1. proj[p] \in ProjectRow
    BY <1>1
  <2> QED
    BY <1>4, <2>1 DEF ProjectRow, RowStates
<1>8. proj' \in [Projects -> ProjectRow] /\ ProjectRows' \subseteq ProjectRows
  BY <1>4, <1>7 DEF ProjectRows, Row
<1>9. ASSUME NEW p \in Projects, proj[p].state # "none" PROVE proj'[p].state # "none"
  BY <1>7, <1>9
<1>10. ASSUME NEW p \in ProjectRows'
       PROVE  /\ proj'[p].ws = proj[p].ws
              /\ space[proj[p].ws].state = "live" => space'[proj[p].ws].state = "live"
  <2>1. p \in Projects /\ p \in ProjectRows /\ p \notin Held(W) /\ proj[p].ws \in Spaces
    BY <1>1, <1>7, <1>8 DEF ProjectRows, Row, ProjectRow
  <2>2. proj[p].ws \notin W
    BY <2>1 DEF Held
  <2> QED
    BY <1>5, <1>7, <2>1, <2>2
<1> QED
  BY <1>6, <1>8, <1>9, <1>10

LEMMA WithoutKeeps ==
  ASSUME SpaceIInv, NEW W \in SUBSET SpaceRows, Without(W), NEW r \in Requests,
         NEW op \in {"removeOrg", "removeSpace"}, Once(r, op),
         org' \in [Orgs -> OrgRow], OrgRows' \subseteq OrgRows
  PROVE  SpaceIInv'
<1>1. /\ space' \in [Spaces -> SpaceRow] /\ proj' \in [Projects -> ProjectRow]
      /\ SpaceRows' \subseteq SpaceRows /\ ProjectRows' \subseteq ProjectRows
      /\ \A p \in Projects : proj[p].state # "none" => proj'[p].state # "none"
      /\ \A p \in ProjectRows' :
           /\ proj'[p].ws = proj[p].ws
           /\ space[proj[p].ws].state = "live" => space'[proj[p].ws].state = "live"
  BY WithoutLeaves
<1>2. SpacesTyped'
  <2>1. IsFiniteSet(OrgRows') /\ IsFiniteSet(SpaceRows') /\ IsFiniteSet(ProjectRows')
    BY <1>1, FS_Subset DEF SpaceIInv, SpacesTyped
  <2> QED
    BY <1>1, <2>1 DEF SpacesTyped
<1>3. op \in TreeChanges
  BY DEF TreeChanges, TreeOps
<1>4. SpacesFramed({op})
  BY <1>1, <1>3 DEF SpacesFramed
<1> QED
  BY <1>2, <1>4, SpaceOnce, SpaceOpNames

LEMMA RemoveOrgKeeps == ASSUME SpaceIInv, NEW r \in Requests, RemoveOrg(r) PROVE SpaceIInv'
<1>1. PICK o \in OrgRows : /\ Once(r, "removeOrg") /\ org' = [org EXCEPT ![o] = [NoOrg EXCEPT !.state = "gone"]]
                           /\ Without(Inside(o))
  BY DEF RemoveOrg
<1>2. PICK row : row = [NoOrg EXCEPT !.state = "gone"]
  OBVIOUS
<1>3. row \in OrgRow
  <2>1. <<>> \in SlugSet
    <3>1. <<>> \in Seq(Words) /\ Len(<<>>) = 0
      BY EmptySeq
    <3> QED
      BY <3>1 DEF SlugSet
  <2> QED
    BY <1>2, <2>1 DEF NoOrg, OrgRow, RowStates
<1>4. o \in Orgs /\ org' = [org EXCEPT ![o] = row]
  BY <1>1, <1>2, RowsAre
<1>5. org' \in [Orgs -> OrgRow] /\ OrgRows' \subseteq OrgRows \union {o}
  BY <1>3, <1>4, OrgWritten DEF SpaceIInv
<1>6. Inside(o) \in SUBSET SpaceRows
  BY DEF Inside
<1>7. OrgRows' \subseteq OrgRows
  BY <1>1, <1>5
<1> QED
  BY <1>1, <1>5, <1>6, <1>7, WithoutKeeps

-----------------------------------------------------------------------------
\* WorkspacesService

LEMMA PathType ==
  ASSUME SpacesTyped
  PROVE  /\ \A v \in Spaces : PathOf(v) \in Seq(Spaces) /\ PathOf(v) # <<>>
         /\ \A v \in Spaces \union {NoSpace} : PathTo(v) \in Seq(Spaces)
<1>1. ASSUME NEW v \in Spaces PROVE PathOf(v) \in Seq(Spaces) /\ PathOf(v) # <<>>
  <2>1. space[v].path \in Seq(Spaces)
    BY DEF SpacesTyped, SpaceRow
  <2>2. <<v>> \in Seq(Spaces) /\ Len(<<v>>) = 1
    OBVIOUS
  <2>3. <<v>> # <<>>
    BY <2>2
  <2> QED
    BY <2>1, <2>2, <2>3 DEF PathOf
<1>2. <<>> \in Seq(Spaces)
  BY EmptySeq
<1> QED
  BY <1>1, <1>2 DEF PathTo

LEMMA AskCreateSpaceKeeps == ASSUME SpaceIInv, NEW r \in Requests, AskCreateSpace(r) PROVE SpaceIInv'
<1>1. PICK o \in Orgs : \E parent \in Spaces \union {NoSpace}, b \in Bases :
        /\ org[o].state = "live" /\ Adopts(o, parent)
        /\ Ask(r, "createSpace", "insert",
               NewSpace(o, parent, PathTo(parent), FirstFree(b, SpaceSlugs(o))))
        /\ UNCHANGED spaceVars
  BY DEF AskCreateSpace
<1>2. PICK parent \in Spaces \union {NoSpace} : \E b \in Bases :
        /\ org[o].state = "live" /\ Adopts(o, parent)
        /\ Ask(r, "createSpace", "insert",
               NewSpace(o, parent, PathTo(parent), FirstFree(b, SpaceSlugs(o))))
        /\ UNCHANGED spaceVars
  BY <1>1
<1>3. PICK b \in Bases :
        /\ org[o].state = "live" /\ Adopts(o, parent)
        /\ Ask(r, "createSpace", "insert",
               NewSpace(o, parent, PathTo(parent), FirstFree(b, SpaceSlugs(o))))
        /\ UNCHANGED spaceVars
  BY <1>2
<1>4. FirstFree(b, SpaceSlugs(o)) \in SlugSet /\ FirstFree(b, SpaceSlugs(o)) \notin SpaceSlugs(o)
  BY BaseSlug, FirstFreeIsFree, SlugsFinite DEF SpaceIInv
<1>5. PICK h : h = NewSpace(o, parent, PathTo(parent), FirstFree(b, SpaceSlugs(o)))
  OBVIOUS
<1>6. /\ h.state = "live" /\ h.org = o /\ h.parent = parent /\ h.path = PathTo(parent)
      /\ h.slug \notin SpaceSlugs(o) /\ h \in SpaceRow /\ h \in SpaceData
  BY <1>4, <1>5, PathType, SpaceDataFacts DEF SpaceIInv, NewSpace, SpaceRow, RowStates
<1>7. Growing(h) /\ Row(org, h.org)
  BY <1>3, <1>6 DEF Growing, Adopts, Row
<1>8. Ask(r, "createSpace", "insert", h) /\ "createSpace" \in AskedOps /\ "insert" \in SpaceSteps
  BY <1>3, <1>5 DEF AskedOps, SpaceSteps
<1>9. \A y \in SpaceCall(SpaceData) :
        y.op = "createSpace" /\ y.step = "insert" /\ y.with = h /\ y.over = {} => SpaceReqOK(y)
  BY <1>6, <1>7 DEF SpaceReqOK, OnboardOK, GrowOK, MoveOK, ShelveOK, DraftOK, ReturnOK, AskedOps
<1> QED
  BY <1>3, <1>6, <1>8, <1>9, SpaceAsks

\* With the states of the workspaces as they are, and the projects: nothing
\* changes for whoever overtakes nothing but the tree.
LEMMA TreeOpFrames ==
  ASSUME SpacesTyped, UNCHANGED proj, NEW op \in TreeChanges,
         \A v \in Spaces : space[v].state = "live" => space'[v].state = "live"
  PROVE  SpacesFramed({op})
<1>1. ASSUME NEW p \in ProjectRows', proj[p].state # "none"
      PROVE  /\ p \in ProjectRows /\ proj'[p].ws = proj[p].ws
             /\ space[proj[p].ws].state = "live" => space'[proj[p].ws].state = "live"
  <2>1. p \in ProjectRows
    BY SameRows
  <2>2. proj[p].ws \in Spaces
    BY <2>1, RowsAre DEF SpacesTyped, ProjectRow
  <2> QED
    BY <2>1, <2>2
<1> QED
  BY <1>1 DEF SpacesFramed

LEMMA CreateSpaceKeeps == ASSUME SpaceIInv, NEW r \in Requests, CreateSpace(r) PROVE SpaceIInv'
<1>1. CASE Answer(r) /\ UNCHANGED spaceVars
  BY <1>1, SpaceAnswers
<1>2. CASE ~(Answer(r) /\ UNCHANGED spaceVars)
  <2>1. PICK w, h : w = AnyOf(Fresh(space, Spaces)) /\ h = req[r].with
    OBVIOUS
  <2>2. /\ req[r].op = "createSpace" /\ Commit(r) /\ Fresh(space, Spaces) # {}
        /\ space' = [space EXCEPT ![w] = [h EXCEPT !.path = Append(@, w)]]
        /\ UNCHANGED <<org, proj>>
    BY <1>2, <2>1 DEF CreateSpace, At, spaceVars
  <2>3. w \in Spaces /\ space[w].state = "none"
    BY <2>1, <2>2, FreshId
  <2>4. h \in SpaceRow
    BY <2>1, <2>2 DEF SpaceIInv, SpaceReqOK, GrowOK
  <2>5. PICK row : row = [h EXCEPT !.path = Append(@, w)]
    OBVIOUS
  <2>6. row \in SpaceRow /\ space' = [space EXCEPT ![w] = row]
    <3>1. Append(h.path, w) \in Seq(Spaces)
      BY <2>3, <2>4, AppendFacts DEF SpaceRow
    <3> QED
      BY <2>2, <2>4, <2>5, <3>1 DEF SpaceRow
  <2>7. /\ space' \in [Spaces -> SpaceRow] /\ SpaceRows' \subseteq SpaceRows \union {w}
        /\ \A v \in Spaces \ {w} : space'[v] = space[v]
    BY <2>3, <2>6, SpaceWritten DEF SpaceIInv
  <2>8. SpacesTyped'
    <3>1. /\ OrgRows' \subseteq OrgRows \union {w} /\ ProjectRows' \subseteq ProjectRows \union {w}
          /\ org' \in [Orgs -> OrgRow] /\ proj' \in [Projects -> ProjectRow]
      BY <2>2, SameRows DEF SpaceIInv, SpacesTyped
    <3> QED
      BY <2>7, <3>1, StillTyped DEF SpaceIInv
  <2>9. \A v \in Spaces : space[v].state = "live" => space'[v].state = "live"
    BY <2>3, <2>7
  <2>10. "createSpace" \in TreeChanges
    BY DEF TreeChanges, TreeOps
  <2>11. SpacesFramed({"createSpace"})
    BY <2>2, <2>9, <2>10, TreeOpFrames DEF SpaceIInv
  <2> QED
    BY <2>2, <2>8, <2>11, SpaceCommits, SpaceOpNames DEF AskedOps
<1> QED
  BY <1>1, <1>2

LEMMA AskMoveSpaceKeeps == ASSUME SpaceIInv, NEW r \in Requests, AskMoveSpace(r) PROVE SpaceIInv'
<1>1. PICK w \in SpaceRows : \E parent \in Spaces \union {NoSpace} :
        /\ parent # w /\ Adopts(space[w].org, parent) /\ (parent # NoSpace => ~Below(w, parent))
        /\ Ask(r, "moveSpace", "write",
               [w |-> w, parent |-> parent, old |-> PathOf(w), new |-> Append(PathTo(parent), w)])
        /\ UNCHANGED spaceVars
  BY DEF AskMoveSpace
<1>2. PICK parent \in Spaces \union {NoSpace} :
        /\ parent # w /\ Adopts(space[w].org, parent) /\ (parent # NoSpace => ~Below(w, parent))
        /\ Ask(r, "moveSpace", "write",
               [w |-> w, parent |-> parent, old |-> PathOf(w), new |-> Append(PathTo(parent), w)])
        /\ UNCHANGED spaceVars
  BY <1>1
<1>3. PICK h : h = [w |-> w, parent |-> parent, old |-> PathOf(w), new |-> Append(PathTo(parent), w)]
  OBVIOUS
<1>4. w \in Spaces /\ PathOf(w) \in Seq(Spaces) /\ Append(PathTo(parent), w) \in Seq(Spaces)
  <2>1. w \in Spaces
    BY RowsAre
  <2>2. PathOf(w) \in Seq(Spaces) /\ PathTo(parent) \in Seq(Spaces)
    BY <2>1, PathType DEF SpaceIInv
  <2> QED
    BY <2>1, <2>2, AppendFacts
<1>5. /\ h \in MoveData /\ h \in SpaceData /\ h.w = w /\ h.parent = parent /\ h.old = PathOf(w)
      /\ h.new = Append(PathTo(parent), w)
  BY <1>3, <1>4, SpaceDataFacts DEF MoveData
<1>6. Movable(h)
  BY <1>2, <1>5 DEF Movable, Adopts
<1>7. Ask(r, "moveSpace", "write", h) /\ "moveSpace" \in AskedOps /\ "write" \in SpaceSteps
  BY <1>2, <1>3 DEF AskedOps, SpaceSteps
<1>8. \A y \in SpaceCall(SpaceData) :
        y.op = "moveSpace" /\ y.step = "write" /\ y.with = h /\ y.over = {} => SpaceReqOK(y)
  BY <1>2, <1>5, <1>6 DEF SpaceReqOK, OnboardOK, GrowOK, MoveOK, ShelveOK, DraftOK, ReturnOK, AskedOps
<1> QED
  BY <1>2, <1>5, <1>7, <1>8, SpaceAsks

\* What a move writes.
LEMMA RebasedRows ==
  ASSUME SpacesTyped, NEW h \in MoveData, h.w \in SpaceRows, space' = Rebased(h)
  PROVE  /\ space' \in [Spaces -> SpaceRow] /\ SpaceRows' = SpaceRows
         /\ \A v \in Spaces : /\ space'[v].state = space[v].state /\ space'[v].org = space[v].org
                              /\ v # h.w => space'[v].parent = space[v].parent
         /\ space'[h.w].parent = h.parent /\ space'[h.w].path = h.new
         /\ \A v \in Spaces \ {h.w} :
              space'[v].path = IF v \in SpaceRows /\ IsStrictPrefix(h.old, space[v].path)
                                 THEN Onto(h.new, h.old, space[v].path) ELSE space[v].path
<1>1. /\ h.w \in Spaces /\ h.parent \in Spaces \union {NoSpace} /\ h.old \in Seq(Spaces) /\ h.new \in Seq(Spaces)
      /\ space \in [Spaces -> SpaceRow]
  BY DEF MoveData, SpacesTyped
<1>2. space' = [v \in Spaces |->
        IF v = h.w THEN [space[v] EXCEPT !.parent = h.parent, !.path = h.new]
        ELSE IF v \in SpaceRows /\ IsStrictPrefix(h.old, space[v].path)
          THEN [space[v] EXCEPT !.path = Onto(h.new, h.old, space[v].path)]
        ELSE space[v]]
  <2>1. ASSUME NEW v \in Spaces
        PROVE  [space[v] EXCEPT !.path = h.new \o SubSeq(@, Len(h.old) + 1, Len(@))]
                 = [space[v] EXCEPT !.path = Onto(h.new, h.old, space[v].path)]
    <3>1. space[v] \in SpaceRow
      BY <1>1
    <3> QED
      BY <3>1 DEF SpaceRow, Onto
  <2> QED
    BY <2>1 DEF Rebased
<1>3. ASSUME NEW v \in Spaces
      PROVE  /\ space'[v] \in SpaceRow
             /\ space'[v].state = space[v].state /\ space'[v].org = space[v].org
             /\ v # h.w => space'[v].parent = space[v].parent
             /\ v = h.w => space'[v].parent = h.parent /\ space'[v].path = h.new
             /\ v # h.w => space'[v].path = IF v \in SpaceRows /\ IsStrictPrefix(h.old, space[v].path)
                                              THEN Onto(h.new, h.old, space[v].path) ELSE space[v].path
  <2>1. PICK s : s = space[v]
    OBVIOUS
  <2>2. s \in SpaceRow
    BY <1>1, <2>1
  <2>3. PICK t : t = Onto(h.new, h.old, s.path)
    OBVIOUS
  <2>4. t \in Seq(Spaces)
    BY <1>1, <2>2, <2>3, OntoType DEF SpaceRow
  <2>5. CASE v = h.w
    <3>1. space'[v] = [s EXCEPT !.parent = h.parent, !.path = h.new]
      BY <1>1, <1>2, <2>1, <2>5
    <3> QED
      BY <1>1, <2>1, <2>2, <2>5, <3>1 DEF SpaceRow
  <2>6. CASE v # h.w /\ v \in SpaceRows /\ IsStrictPrefix(h.old, s.path)
    <3>1. space'[v] = [s EXCEPT !.path = t]
      BY <1>2, <2>1, <2>3, <2>6
    <3> QED
      BY <2>1, <2>2, <2>3, <2>4, <2>6, <3>1 DEF SpaceRow
  <2>7. CASE v # h.w /\ ~(v \in SpaceRows /\ IsStrictPrefix(h.old, s.path))
    <3>1. space'[v] = s
      BY <1>2, <2>1, <2>7
    <3> QED
      BY <2>1, <2>2, <2>7, <3>1
  <2> QED
    BY <2>5, <2>6, <2>7
<1>4. space' \in [Spaces -> SpaceRow] /\ SpaceRows' = SpaceRows
  BY <1>2, <1>3 DEF SpaceRows, Row
<1> QED
  BY <1>1, <1>3, <1>4

LEMMA SameOrgsAndProjects ==
  ASSUME SpacesTyped, UNCHANGED <<org, proj>>, space' \in [Spaces -> SpaceRow], SpaceRows' \subseteq SpaceRows
  PROVE  SpacesTyped'
<1>1. OrgRows' = OrgRows /\ ProjectRows' = ProjectRows
  BY SameRows
<1>2. IsFiniteSet(SpaceRows')
  BY FS_Subset DEF SpacesTyped
<1> QED
  BY <1>1, <1>2 DEF SpacesTyped

LEMMA MoveSpaceKeeps == ASSUME SpaceIInv, NEW r \in Requests, MoveSpace(r) PROVE SpaceIInv'
<1>1. CASE Answer(r) /\ UNCHANGED spaceVars
  BY <1>1, SpaceAnswers
<1>2. CASE ~(Answer(r) /\ UNCHANGED spaceVars)
  <2>1. PICK h : h = req[r].with
    OBVIOUS
  <2>2. /\ req[r].op = "moveSpace" /\ Commit(r) /\ h.w \in SpaceRows
        /\ space' = Rebased(h) /\ UNCHANGED <<org, proj>>
    BY <1>2, <2>1 DEF MoveSpace, At, spaceVars
  <2>3. h \in MoveData
    BY <2>1, <2>2 DEF SpaceIInv, SpaceReqOK, MoveOK
  <2>4. /\ space' \in [Spaces -> SpaceRow] /\ SpaceRows' = SpaceRows
        /\ \A v \in Spaces : space'[v].state = space[v].state
    BY <2>2, <2>3, RebasedRows DEF SpaceIInv
  <2>5. SpacesTyped'
    BY <2>2, <2>4, SameOrgsAndProjects DEF SpaceIInv
  <2>6. "moveSpace" \in TreeChanges
    BY DEF TreeChanges, TreeOps
  <2>7. SpacesFramed({"moveSpace"})
    BY <2>2, <2>4, <2>6, TreeOpFrames DEF SpaceIInv
  <2> QED
    BY <2>2, <2>5, <2>7, SpaceCommits, SpaceOpNames DEF AskedOps
<1> QED
  BY <1>1, <1>2

LEMMA UpdateSpaceKeeps == ASSUME SpaceIInv, NEW r \in Requests, UpdateSpace(r) PROVE SpaceIInv'
<1>1. PICK w \in SpaceRows, o \in OrgRows : \E slug \in Bases \union {space[w].slug} :
        /\ Once(r, "updateSpace")
        /\ space' = [space EXCEPT ![w].slug = slug, ![w].org = o]
        /\ UNCHANGED <<org, proj>>
  BY DEF UpdateSpace
<1>2. PICK slug \in Bases \union {space[w].slug} :
        /\ Once(r, "updateSpace")
        /\ space' = [space EXCEPT ![w].slug = slug, ![w].org = o]
        /\ UNCHANGED <<org, proj>>
  BY <1>1
<1>3. w \in Spaces /\ o \in Orgs /\ space \in [Spaces -> SpaceRow]
  BY RowsAre DEF SpaceIInv, SpacesTyped
<1>4. slug \in SlugSet
  BY <1>3, BaseSlug DEF SpaceRow
<1>5. PICK row : row = [space[w] EXCEPT !.slug = slug, !.org = o]
  OBVIOUS
<1>6. row \in SpaceRow /\ row.state = space[w].state /\ space' = [space EXCEPT ![w] = row]
  BY <1>2, <1>3, <1>4, <1>5 DEF SpaceRow
<1>7. /\ space' \in [Spaces -> SpaceRow] /\ SpaceRows' \subseteq SpaceRows
      /\ \A v \in Spaces : space[v].state = "live" => space'[v].state = "live"
  <2>1. /\ space' \in [Spaces -> SpaceRow] /\ SpaceRows' \subseteq SpaceRows \union {w}
        /\ \A v \in Spaces \ {w} : space'[v] = space[v]
        /\ space'[w] = row
    BY <1>3, <1>6, SpaceWritten DEF SpaceIInv
  <2> QED
    BY <1>1, <1>6, <2>1
<1>8. SpacesTyped'
  BY <1>2, <1>7, SameOrgsAndProjects DEF SpaceIInv
<1>9. "updateSpace" \in TreeChanges
  BY DEF TreeChanges
<1>10. SpacesFramed({"updateSpace"})
  BY <1>2, <1>7, <1>9, TreeOpFrames DEF SpaceIInv
<1> QED
  BY <1>2, <1>8, <1>10, SpaceOnce, SpaceOpNames

LEMMA RemoveSpaceKeeps == ASSUME SpaceIInv, NEW r \in Requests, RemoveSpace(r) PROVE SpaceIInv'
<1>1. PICK w \in SpaceRows : Once(r, "removeSpace") /\ Without({w}) /\ UNCHANGED org
  BY DEF RemoveSpace
<1>2. org' \in [Orgs -> OrgRow] /\ OrgRows' \subseteq OrgRows
  BY <1>1, SameRows DEF SpaceIInv, SpacesTyped
<1>3. {w} \in SUBSET SpaceRows
  OBVIOUS
<1> QED
  BY <1>1, <1>2, <1>3, WithoutKeeps

LEMMA AskArchiveSpaceKeeps == ASSUME SpaceIInv, NEW r \in Requests, AskArchiveSpace(r) PROVE SpaceIInv'
<1>1. PICK w \in SpaceRows :
        /\ Ask(r, IF space[w].state = "live" THEN "archiveSpace" ELSE "unarchiveSpace", "write", w)
        /\ UNCHANGED spaceVars
  BY DEF AskArchiveSpace
<1>2. PICK op : op = IF space[w].state = "live" THEN "archiveSpace" ELSE "unarchiveSpace"
  OBVIOUS
<1>3. op \in {"archiveSpace", "unarchiveSpace"} /\ op \in AskedOps /\ "write" \in SpaceSteps
  BY <1>2 DEF AskedOps, SpaceSteps
<1>4. w \in Spaces /\ w \in SpaceData
  BY RowsAre, SpaceDataFacts
<1>5. \A y \in SpaceCall(SpaceData) :
        y.op = op /\ y.step = "write" /\ y.with = w /\ y.over = {} => SpaceReqOK(y)
  BY <1>3, <1>4 DEF SpaceReqOK, OnboardOK, GrowOK, MoveOK, ShelveOK, DraftOK, ReturnOK, AskedOps
<1> QED
  BY <1>1, <1>2, <1>3, <1>4, <1>5, SpaceAsks

\* What archiving a workspace, or the opposite, writes.
LEMMA ShelvedRows ==
  ASSUME SpacesTyped, NEW w \in SpaceRows, NEW state \in {"live", "archived"},
         proj' = [p \in Projects |-> IF p \in Held({w}) THEN [proj[p] EXCEPT !.state = state]
                                                        ELSE proj[p]],
         space' = [space EXCEPT ![w].state = state]
  PROVE  /\ space' \in [Spaces -> SpaceRow] /\ SpaceRows' = SpaceRows /\ TreeKept
         /\ \A v \in Spaces : space'[v].state = IF v = w THEN state ELSE space[v].state
         /\ proj' \in [Projects -> ProjectRow] /\ ProjectRows' = ProjectRows
         /\ \A p \in Projects :
              /\ proj'[p].ws = proj[p].ws /\ (proj[p].state # "none" => proj'[p].state # "none")
              /\ p \notin Held({w}) => proj'[p] = proj[p]
<1>1. /\ space \in [Spaces -> SpaceRow] /\ proj \in [Projects -> ProjectRow] /\ w \in Spaces
  BY RowsAre DEF SpacesTyped
<1>2. PICK row : row = [space[w] EXCEPT !.state = state]
  OBVIOUS
<1>3. /\ row \in SpaceRow /\ row.state = state /\ row.org = space[w].org /\ row.parent = space[w].parent
      /\ row.path = space[w].path /\ space' = [space EXCEPT ![w] = row]
  BY <1>1, <1>2 DEF SpaceRow, RowStates
<1>4. /\ space' \in [Spaces -> SpaceRow]
      /\ \A v \in Spaces \ {w} : space'[v] = space[v] /\ (v \in SpaceRows' <=> v \in SpaceRows)
      /\ space'[w] = row /\ w \in SpaceRows'
  BY <1>1, <1>3, SpaceWritten
<1>5. SpaceRows' = SpaceRows
  BY <1>1, <1>4 DEF SpaceRows
<1>6. TreeKept
  BY <1>3, <1>4, <1>5, RowsAre DEF TreeKept
<1>7. ASSUME NEW p \in Projects
      PROVE  /\ proj'[p] \in ProjectRow /\ proj'[p].ws = proj[p].ws
             /\ proj[p].state # "none" => proj'[p].state # "none"
             /\ p \notin Held({w}) => proj'[p] = proj[p]
             /\ p \in Held({w}) => proj'[p].state = state
  <2>1. proj[p] \in ProjectRow
    BY <1>1
  <2> QED
    BY <2>1 DEF ProjectRow, RowStates
<1>8. proj' \in [Projects -> ProjectRow]
  BY <1>7
<1>9. ProjectRows' = ProjectRows
  <2>1. \A p \in Held({w}) : p \in ProjectRows /\ proj'[p].state \in {"live", "archived"}
    BY <1>7 DEF Held, ProjectRows
  <2>2. \A p \in Projects : Row(proj, p)' <=> Row(proj, p)
    BY <1>7, <2>1 DEF ProjectRows, Row
  <2> QED
    BY <2>2 DEF ProjectRows
<1> QED
  BY <1>3, <1>4, <1>5, <1>6, <1>7, <1>8, <1>9

LEMMA ArchiveSpaceKeeps == ASSUME SpaceIInv, NEW r \in Requests, ArchiveSpace(r) PROVE SpaceIInv'
<1>1. CASE Answer(r) /\ UNCHANGED spaceVars
  BY <1>1, SpaceAnswers
<1>2. CASE ~(Answer(r) /\ UNCHANGED spaceVars)
  <2>1. PICK w, state, op : /\ w = req[r].with /\ op = req[r].op
                            /\ state = IF op = "archiveSpace" THEN "archived" ELSE "live"
    OBVIOUS
  <2>2. /\ op \in {"archiveSpace", "unarchiveSpace"} /\ w \in SpaceRows /\ Commit(r)
        /\ proj' = [p \in Projects |-> IF p \in Held({w}) THEN [proj[p] EXCEPT !.state = state] ELSE proj[p]]
        /\ space' = [space EXCEPT ![w].state = state]
        /\ UNCHANGED org
    BY <1>2, <2>1, Zenon DEF ArchiveSpace, spaceVars
  <2>3. state \in {"live", "archived"}
    BY <2>1
  <2>4. /\ space' \in [Spaces -> SpaceRow] /\ SpaceRows' = SpaceRows /\ TreeKept
        /\ \A v \in Spaces : space'[v].state = IF v = w THEN state ELSE space[v].state
        /\ proj' \in [Projects -> ProjectRow] /\ ProjectRows' = ProjectRows
        /\ \A p \in Projects :
             /\ proj'[p].ws = proj[p].ws /\ (proj[p].state # "none" => proj'[p].state # "none")
             /\ p \notin Held({w}) => proj'[p] = proj[p]
    BY <2>2, <2>3, ShelvedRows DEF SpaceIInv
  <2>5. SpacesTyped'
    <3>1. OrgRows' = OrgRows /\ org' \in [Orgs -> OrgRow]
      BY <2>2, SameRows DEF SpaceIInv, SpacesTyped
    <3> QED
      BY <2>4, <3>1 DEF SpaceIInv, SpacesTyped
  <2>6. SpacesFramed({op})
    <3>1. ASSUME op \notin ShelfChanges, NEW p \in ProjectRows'
          PROVE  /\ p \in ProjectRows /\ proj'[p].ws = proj[p].ws
                 /\ space[proj[p].ws].state = "live" => space'[proj[p].ws].state = "live"
      <4>1. state = "live"
        BY <2>1, <2>2, <3>1 DEF ShelfChanges
      <4>2. p \in ProjectRows /\ p \in Projects
        BY <2>4, RowsAre
      <4>3. proj[p].ws \in Spaces
        BY <4>2 DEF SpaceIInv, SpacesTyped, ProjectRow
      <4> QED
        BY <2>4, <4>1, <4>2, <4>3
    <3> QED
      BY <2>4, <3>1 DEF SpacesFramed
  <2> QED
    BY <2>1, <2>2, <2>5, <2>6, SpaceCommits, SpaceOpNames DEF AskedOps
<1> QED
  BY <1>1, <1>2

-----------------------------------------------------------------------------
\* ProjectsService

\* With the organizations and the workspaces as they are, and one project written.
LEMMA ProjectOpFrames ==
  ASSUME SpacesTyped, UNCHANGED <<org, space>>, NEW p \in Projects, NEW row \in ProjectRow,
         proj' = [proj EXCEPT ![p] = row], NEW op, op \notin TreeChanges, row.state # "none",
         \/ proj[p].state = "none" \/ op \in ShelfChanges
         \/ row.ws = proj[p].ws /\ (row.state \in {"live", "archived"} => p \in ProjectRows)
  PROVE  SpacesFramed({op}) /\ SpacesTyped'
<1>1. /\ proj' \in [Projects -> ProjectRow] /\ ProjectRows' \subseteq ProjectRows \union {p}
      /\ \A q \in Projects \ {p} : proj'[q] = proj[q] /\ (q \in ProjectRows' <=> q \in ProjectRows)
      /\ proj'[p] = row /\ (p \in ProjectRows' <=> row.state \in {"live", "archived"})
  BY ProjectWritten
<1>2. OrgRows' = OrgRows /\ SpaceRows' = SpaceRows /\ TreeKept
  BY SameRows
<1>3. SpacesTyped'
  <2>1. /\ OrgRows' \subseteq OrgRows \union {p} /\ SpaceRows' \subseteq SpaceRows \union {p}
        /\ org' \in [Orgs -> OrgRow] /\ space' \in [Spaces -> SpaceRow]
    BY <1>2 DEF SpacesTyped
  <2> QED
    BY <1>1, <2>1, StillTyped
<1>4. ASSUME NEW q \in Projects, proj[q].state # "none" PROVE proj'[q].state # "none"
  BY <1>1, <1>4
<1>5. ASSUME op \notin ShelfChanges, NEW q \in ProjectRows', proj[q].state # "none"
      PROVE  /\ q \in ProjectRows /\ proj'[q].ws = proj[q].ws
             /\ space[proj[q].ws].state = "live" => space'[proj[q].ws].state = "live"
  <2>1. q \in Projects
    BY DEF ProjectRows
  <2>2. CASE q = p
    BY <1>1, <1>5, <2>2
  <2>3. CASE q # p
    BY <1>1, <2>1, <2>3
  <2> QED
    BY <2>2, <2>3
<1> QED
  BY <1>2, <1>3, <1>4, <1>5 DEF SpacesFramed

LEMMA AskCreateProjectKeeps == ASSUME SpaceIInv, NEW r \in Requests, AskCreateProject(r) PROVE SpaceIInv'
<1>1. PICK w \in SpaceRows, b \in Bases :
        /\ Ask(r, "createProject", "insert", [row |-> NewProject(w, NumberAfter(b)), base |-> b, tries |-> 0])
        /\ UNCHANGED spaceVars
  BY DEF AskCreateProject
<1>2. NumberAfter(b) \in SlugSet /\ NumberAfter(b) \notin ProjectSlugs /\ w \in Spaces
  BY NumberAfterIsFree, RowsAre DEF SpaceIInv
<1>3. PICK row : row = NewProject(w, NumberAfter(b))
  OBVIOUS
<1>4. row \in ProjectRow /\ row.state = "live" /\ row.ws = w /\ row.slug = NumberAfter(b)
  BY <1>2, <1>3 DEF NewProject, ProjectRow, RowStates
<1>5. PICK h : h = [row |-> row, base |-> b, tries |-> 0]
  OBVIOUS
<1>6. h \in DraftData /\ h \in SpaceData /\ h.row = row
  BY <1>4, <1>5, SpaceDataFacts DEF DraftData
<1>7. Ask(r, "createProject", "insert", h) /\ "createProject" \in AskedOps /\ "insert" \in SpaceSteps
  BY <1>1, <1>3, <1>5 DEF AskedOps, SpaceSteps
<1>8. \A y \in SpaceCall(SpaceData) :
        y.op = "createProject" /\ y.step = "insert" /\ y.with = h /\ y.over = {} => SpaceReqOK(y)
  BY <1>2, <1>4, <1>6 DEF SpaceReqOK, OnboardOK, GrowOK, MoveOK, ShelveOK, DraftOK, ReturnOK, AskedOps
<1> QED
  BY <1>1, <1>6, <1>7, <1>8, SpaceAsks

LEMMA CreateProjectKeeps == ASSUME SpaceIInv, NEW r \in Requests, CreateProject(r) PROVE SpaceIInv'
<1>1. PICK h, p : h = req[r].with /\ p = AnyOf(Fresh(proj, Projects))
  OBVIOUS
<1>2. /\ req[r].op = "createProject" /\ req[r].step = "insert" /\ UNCHANGED <<org, space>>
      /\ Fresh(proj, Projects) # {}
  BY DEF CreateProject, At
<1>3. h \in DraftData /\ h.row.state = "live" /\ SpaceReqOK(req[r])
  BY <1>1, <1>2 DEF SpaceIInv, SpaceReqOK, DraftOK
<1>4. CASE /\ h.row.ws \in SpaceRows /\ proj' = [proj EXCEPT ![p] = h.row] /\ Commit(r)
  <2>1. p \in Projects /\ proj[p].state = "none" /\ h.row \in ProjectRow
    BY <1>1, <1>2, <1>3, FreshId DEF DraftData
  <2>2. PICK row : row = h.row
    OBVIOUS
  <2>3. "createProject" \notin TreeChanges
    BY DEF TreeChanges, TreeOps
  <2>4. SpacesFramed({"createProject"}) /\ SpacesTyped'
    BY <1>2, <1>3, <1>4, <2>1, <2>2, <2>3, ProjectOpFrames DEF SpaceIInv
  <2> QED
    BY <1>2, <1>4, <2>4, SpaceCommits, SpaceOpNames DEF AskedOps
<1>5. CASE /\ h.row.slug \in ProjectSlugs
           /\ GoOn(r, "insert", [h EXCEPT !.tries = @ + 1, !.row.slug = NumberAfter(h.base)])
           /\ UNCHANGED proj
  <2>1. NumberAfter(h.base) \in SlugSet
    BY <1>3, NumberAfterIsFree DEF SpaceIInv, DraftData
  <2>2. PICK k : k = [h EXCEPT !.tries = @ + 1, !.row.slug = NumberAfter(h.base)]
    OBVIOUS
  <2>3. k \in DraftData /\ k.row.state = "live"
    <3>1. PICK n : n = NumberAfter(h.base)
      OBVIOUS
    <3>2. PICK row : row = [h.row EXCEPT !.slug = n]
      OBVIOUS
    <3>3. row \in ProjectRow /\ row.state = "live"
      BY <1>3, <2>1, <3>1, <3>2 DEF DraftData, ProjectRow
    <3>4. k = [h EXCEPT !.tries = @ + 1, !.row = row]
      BY <1>3, <2>2, <3>1, <3>2 DEF DraftData
    <3>5. PICK m : m = h.tries + 1
      OBVIOUS
    <3>6. m \in Nat
      <4>1. h.tries \in Nat
        BY <1>3 DEF DraftData
      <4> QED
        BY <3>5, <4>1
    <3>7. k = [row |-> row, base |-> h.base, tries |-> m] /\ h.base \in Bases
      <4>1. k = [h EXCEPT !.tries = m, !.row = row]
        BY <3>4, <3>5, Zenon
      <4> QED
        BY <1>3, <4>1 DEF DraftData
    <3> QED
      BY <3>3, <3>6, <3>7 DEF DraftData
  <2>4. PICK D : D = SpaceData
    OBVIOUS
  <2>5. /\ req \in [Requests -> SpaceCall(D)] /\ k \in D /\ "insert" \in SpaceSteps
    BY <2>3, <2>4, SpaceDataFacts, SpaceOpNames DEF SpaceIInv
  <2>6. PICK y \in SpaceCall(D) : /\ Turned(D, r, y, {}) /\ y.op = "createProject" /\ y.step = "insert"
                                  /\ y.with = k /\ y.over = req[r].over
    BY <1>2, <1>5, <2>2, <2>5, GoOnTurns
  <2>7. req[r].over # {}
    BY <1>1, <1>2, <1>3, <1>5 DEF SpaceReqOK, DraftOK
  <2>8. SpaceReqOK(y)
    BY <2>3, <2>6, <2>7 DEF SpaceReqOK, OnboardOK, GrowOK, MoveOK, ShelveOK, DraftOK, ReturnOK, AskedOps
  <2>9. UNCHANGED spaceVars
    BY <1>2, <1>5 DEF spaceVars
  <2> QED
    BY <2>4, <2>6, <2>8, <2>9, SpaceLooks
<1>6. CASE Answer(r) /\ UNCHANGED proj
  BY <1>2, <1>6, SpaceAnswers DEF spaceVars
<1> QED
  BY <1>1, <1>4, <1>5, <1>6 DEF CreateProject

LEMMA UpdateProjectKeeps == ASSUME SpaceIInv, NEW r \in Requests, UpdateProject(r) PROVE SpaceIInv'
<1>1. PICK p \in ProjectRows, w \in SpaceRows : \E slug \in Bases \union {proj[p].slug} :
        /\ Once(r, "updateProject")
        /\ proj' = [proj EXCEPT ![p].ws = w, ![p].slug = slug]
        /\ UNCHANGED <<org, space>>
  BY DEF UpdateProject
<1>2. PICK slug \in Bases \union {proj[p].slug} :
        /\ Once(r, "updateProject")
        /\ proj' = [proj EXCEPT ![p].ws = w, ![p].slug = slug]
        /\ UNCHANGED <<org, space>>
  BY <1>1
<1>3. p \in Projects /\ w \in Spaces /\ proj[p] \in ProjectRow /\ proj[p].state # "none"
      /\ proj \in [Projects -> ProjectRow]
  BY RowsAre DEF SpaceIInv, SpacesTyped, ProjectRows, Row
<1>4. slug \in SlugSet
  BY <1>3, BaseSlug DEF ProjectRow
<1>5. PICK row : row = [proj[p] EXCEPT !.ws = w, !.slug = slug]
  OBVIOUS
<1>6. row \in ProjectRow /\ row.state # "none" /\ proj' = [proj EXCEPT ![p] = row]
  BY <1>2, <1>3, <1>4, <1>5 DEF ProjectRow
<1>7. "updateProject" \notin TreeChanges /\ "updateProject" \in ShelfChanges
  BY DEF TreeChanges, TreeOps, ShelfChanges
<1>8. SpacesFramed({"updateProject"}) /\ SpacesTyped'
  BY <1>2, <1>3, <1>6, <1>7, ProjectOpFrames DEF SpaceIInv
<1> QED
  BY <1>2, <1>8, SpaceOnce, SpaceOpNames

\* A project's state is written, by one statement or at the end of a request.
LEMMA StateWritten ==
  ASSUME SpacesTyped, UNCHANGED <<org, space>>, NEW p \in ProjectRows,
         NEW state \in {"live", "archived", "gone"}, NEW op, op \notin TreeChanges,
         proj' = [proj EXCEPT ![p].state = state]
  PROVE  SpacesFramed({op}) /\ SpacesTyped'
<1>1. p \in Projects /\ proj[p] \in ProjectRow /\ proj \in [Projects -> ProjectRow]
  BY RowsAre DEF SpacesTyped
<1>2. PICK row : row = [proj[p] EXCEPT !.state = state]
  OBVIOUS
<1>3. row \in ProjectRow /\ row.ws = proj[p].ws /\ row.state # "none" /\ proj' = [proj EXCEPT ![p] = row]
  BY <1>1, <1>2 DEF ProjectRow, RowStates
<1> QED
  BY <1>1, <1>3, ProjectOpFrames

LEMMA RemoveProjectKeeps == ASSUME SpaceIInv, NEW r \in Requests, RemoveProject(r) PROVE SpaceIInv'
<1>1. PICK p \in ProjectRows : /\ Once(r, "removeProject") /\ proj' = [proj EXCEPT ![p].state = "gone"]
                               /\ UNCHANGED <<org, space>>
  BY DEF RemoveProject
<1>2. "removeProject" \notin TreeChanges
  BY DEF TreeChanges, TreeOps
<1>3. SpacesFramed({"removeProject"}) /\ SpacesTyped'
  BY <1>1, <1>2, StateWritten DEF SpaceIInv
<1> QED
  BY <1>1, <1>3, SpaceOnce, SpaceOpNames

LEMMA AskArchiveProjectKeeps == ASSUME SpaceIInv, NEW r \in Requests, AskArchiveProject(r) PROVE SpaceIInv'
<1>1. PICK p \in ProjectRows : Ask(r, "archiveProject", "write", p) /\ UNCHANGED spaceVars
  BY DEF AskArchiveProject
<1>2. p \in Projects /\ p \in SpaceData /\ proj[p].state # "none"
  BY RowsAre, SpaceDataFacts DEF ProjectRows, Row
<1>3. "archiveProject" \in AskedOps /\ "write" \in SpaceSteps
  BY DEF AskedOps, SpaceSteps
<1>4. \A y \in SpaceCall(SpaceData) :
        y.op = "archiveProject" /\ y.step = "write" /\ y.with = p /\ y.over = {} => SpaceReqOK(y)
  BY <1>2 DEF SpaceReqOK, OnboardOK, GrowOK, MoveOK, ShelveOK, DraftOK, ReturnOK, AskedOps
<1> QED
  BY <1>1, <1>2, <1>3, <1>4, SpaceAsks

LEMMA AskUnarchiveProjectKeeps == ASSUME SpaceIInv, NEW r \in Requests, AskUnarchiveProject(r) PROVE SpaceIInv'
<1>1. PICK p \in ProjectRows : /\ space[proj[p].ws].state = "live"
                               /\ Ask(r, "unarchiveProject", "write", p) /\ UNCHANGED spaceVars
  BY DEF AskUnarchiveProject
<1>2. p \in Projects /\ p \in SpaceData /\ proj[p].state # "none"
  BY RowsAre, SpaceDataFacts DEF ProjectRows, Row
<1>3. "unarchiveProject" \in AskedOps /\ "write" \in SpaceSteps
  BY DEF AskedOps, SpaceSteps
<1>4. \A y \in SpaceCall(SpaceData) :
        y.op = "unarchiveProject" /\ y.step = "write" /\ y.with = p /\ y.over = {} => SpaceReqOK(y)
  BY <1>1, <1>2 DEF SpaceReqOK, OnboardOK, GrowOK, MoveOK, ShelveOK, DraftOK, ReturnOK, AskedOps
<1> QED
  BY <1>1, <1>2, <1>3, <1>4, SpaceAsks

LEMMA ArchiveProjectKeeps == ASSUME SpaceIInv, NEW r \in Requests, ArchiveProject(r) PROVE SpaceIInv'
<1>1. CASE Answer(r) /\ UNCHANGED spaceVars
  BY <1>1, SpaceAnswers
<1>2. CASE ~(Answer(r) /\ UNCHANGED spaceVars)
  <2>1. PICK p, state, op : /\ p = req[r].with /\ op = req[r].op
                            /\ state = IF op = "archiveProject" THEN "archived" ELSE "live"
    OBVIOUS
  <2>2. /\ op \in {"archiveProject", "unarchiveProject"} /\ p \in ProjectRows /\ Commit(r)
        /\ proj' = [proj EXCEPT ![p].state = state]
        /\ UNCHANGED <<org, space>>
    BY <1>2, <2>1, Zenon DEF ArchiveProject, spaceVars
  <2>3. state \in {"live", "archived", "gone"}
    BY <2>1
  <2>4. op \notin TreeChanges
    BY <2>2 DEF TreeChanges, TreeOps
  <2>5. SpacesFramed({op}) /\ SpacesTyped'
    BY <2>2, <2>3, <2>4, StateWritten DEF SpaceIInv
  <2> QED
    BY <2>1, <2>2, <2>5, SpaceCommits, SpaceOpNames DEF AskedOps
<1> QED
  BY <1>1, <1>2

-----------------------------------------------------------------------------
LEMMA NextSpaceIInv == SpaceIInv /\ [SpaceNext]_<<handlerVars, spaceVars>> => SpaceIInv'
<1> SUFFICES ASSUME SpaceIInv, [SpaceNext]_<<handlerVars, spaceVars>> PROVE SpaceIInv'
  OBVIOUS
<1>1. CASE UNCHANGED <<handlerVars, spaceVars>>
  <2>1. UNCHANGED <<req, org, space, proj>> /\ UNCHANGED spaceVars
    BY <1>1 DEF handlerVars, spaceVars
  <2>2. SpacesTyped'
    BY <2>1, SameRows DEF SpaceIInv, SpacesTyped
  <2>3. ASSUME NEW r \in Requests PROVE SpaceReqOK(req[r])'
    <3>1. PICK x : x = req[r]
      OBVIOUS
    <3>2. SpaceReqOK(x) /\ (SpaceReqOK(req[r])' <=> SpaceReqOK(x)')
      BY <2>1, <3>1 DEF SpaceIInv
    <3> QED
      BY <2>1, <3>2, UnwrittenKeeps
  <2> QED
    BY <2>1, <2>2, <2>3 DEF SpaceIInv
<1>2. ASSUME NEW r \in Requests, SpaceStep(r) PROVE SpaceIInv'
  BY <1>2, AskCreateOrgKeeps, CreateOrgKeeps, ArchiveOrgKeeps, RemoveOrgKeeps, AskCreateSpaceKeeps,
     CreateSpaceKeeps, AskMoveSpaceKeeps, MoveSpaceKeeps, UpdateSpaceKeeps, RemoveSpaceKeeps,
     AskArchiveSpaceKeeps, ArchiveSpaceKeeps, AskCreateProjectKeeps, CreateProjectKeeps,
     UpdateProjectKeeps, RemoveProjectKeeps, AskArchiveProjectKeeps, AskUnarchiveProjectKeeps,
     ArchiveProjectKeeps DEF SpaceStep
<1> QED
  BY <1>1, <1>2 DEF SpaceNext

\* The tables hold rows of their kind, finitely many.
THEOREM SpaceTypes == SpacesSpec => []SpacesTyped
<1>1. SpacesSpec => []SpaceIInv
  BY InitSpaceIInv, NextSpaceIInv, PTL DEF SpacesSpec
<1>2. SpaceIInv => SpacesTyped
  BY DEF SpaceIInv
<1> QED
  BY <1>1, <1>2, PTL

-----------------------------------------------------------------------------
(* The tree stays formed.                                                  *)
Formed(v, u, o) ==
  /\ Last(PathOf(v)) = v
  /\ u # NoSpace => u \in Inside(o) /\ PathOf(v) = Append(PathOf(u), v)

LEMMA TreeIsFormed ==
  TreeFormed <=> \A v \in SpaceRows : Formed(v, space[v].parent, space[v].org)
BY DEF TreeFormed, Formed

LEMMA TreeFormedThen ==
  ASSUME \A v \in SpaceRows' : \A u, o : u = space'[v].parent /\ o = space'[v].org => Formed(v, u, o)'
  PROVE  TreeFormed'
<1>1. ASSUME NEW v \in SpaceRows' PROVE Formed(v, space[v].parent, space[v].org)'
  <2>1. PICK u, o : u = space'[v].parent /\ o = space'[v].org
    OBVIOUS
  <2>2. Formed(v, u, o)'
    BY <2>1
  <2> QED
    BY <2>1, <2>2
<1> QED
  BY <1>1 DEF TreeFormed, Formed

LEMMA FormedKept ==
  ASSUME TreeKept, NEW v \in SpaceRows, NEW u, NEW o, Formed(v, u, o)
  PROVE  Formed(v, u, o)'
<1>1. PathOf(v)' = PathOf(v)
  BY KeptPaths
<1>2. u \in Inside(o) => u \in Inside(o)' /\ PathOf(u)' = PathOf(u)
  BY KeptPaths DEF Inside
<1> QED
  BY <1>1, <1>2 DEF Formed

\* The tree is kept, and at most one workspace is new, in its place.
LEMMA TreeGrows ==
  ASSUME TreeFormed, TreeKept, NEW w, SpaceRows' \subseteq SpaceRows \union {w},
         w \notin SpaceRows =>
           \A u, o : u = space'[w].parent /\ o = space'[w].org => Formed(w, u, o)'
  PROVE  TreeFormed'
<1>1. ASSUME NEW v \in SpaceRows', NEW u, NEW o, u = space'[v].parent, o = space'[v].org
      PROVE  Formed(v, u, o)'
  <2>1. CASE v \in SpaceRows
    <3>1. u = space[v].parent /\ o = space[v].org
      BY <1>1, <2>1 DEF TreeKept
    <3>2. Formed(v, u, o)
      BY <2>1, <3>1, TreeIsFormed
    <3> QED
      BY <2>1, <3>2, FormedKept
  <2>2. CASE v \notin SpaceRows
    BY <1>1, <2>2
  <2> QED
    BY <2>1, <2>2
<1> QED
  BY <1>1, TreeFormedThen

LEMMA WithoutFormed ==
  ASSUME SpaceIInv, TreeFormed, NEW W \in SUBSET SpaceRows, Without(W)
  PROVE  TreeFormed'
<1>1. space \in [Spaces -> SpaceRow] /\ SpaceRows \subseteq Spaces
  BY RowsAre DEF SpaceIInv, SpacesTyped
<1>2. SpaceRows' \subseteq SpaceRows
  BY WithoutLeaves
<1>3. ASSUME NEW v \in SpaceRows
      PROVE  /\ v \in W => v \notin SpaceRows'
             /\ v \notin W => /\ v \in SpaceRows' /\ space'[v].org = space[v].org
                              /\ PathOf(v)' = PathOf(v)
                              /\ space'[v].parent = IF space[v].parent \in W THEN NoSpace ELSE space[v].parent
  <2>1. space[v] \in SpaceRow /\ v \in Spaces
    BY <1>1
  <2>2. CASE v \in W
    <3>1. space'[v].state = "gone"
      BY <2>1, <2>2 DEF Without, NoRow, NewSpace
    <3> QED
      BY <2>2, <3>1 DEF SpaceRows, Row
  <2>3. CASE v \notin W
    <3>1. /\ space'[v].state = space[v].state /\ space'[v].org = space[v].org /\ space'[v].path = space[v].path
          /\ space'[v].parent = IF space[v].parent \in W THEN NoSpace ELSE space[v].parent
      BY <2>1, <2>3 DEF Without, SpaceRow
    <3> QED
      BY <2>3, <3>1 DEF SpaceRows, Row, PathOf
  <2> QED
    BY <2>2, <2>3
<1>4. ASSUME NEW v \in SpaceRows', NEW u, NEW o, u = space'[v].parent, o = space'[v].org
      PROVE  Formed(v, u, o)'
  <2>1. v \in SpaceRows /\ v \notin W
    BY <1>2, <1>3
  <2>2. PICK up : up = space[v].parent
    OBVIOUS
  <2>3. Formed(v, up, o)
    BY <1>3, <1>4, <2>1, <2>2, TreeIsFormed
  <2>4. Last(PathOf(v)') = v
    BY <1>3, <2>1, <2>3 DEF Formed
  <2>5. CASE u = NoSpace
    BY <2>4, <2>5 DEF Formed
  <2>6. CASE u # NoSpace
    <3>1. u = up /\ u \notin W /\ u \in SpaceRows
      BY <1>3, <1>4, <2>1, <2>2, <2>3, <2>6 DEF Formed, Inside
    <3>2. u \in Inside(o) /\ PathOf(v) = Append(PathOf(u), v)
      BY <2>3, <2>6, <3>1 DEF Formed
    <3>3. u \in Inside(o)' /\ PathOf(u)' = PathOf(u)
      BY <1>3, <3>1, <3>2 DEF Inside
    <3> QED
      BY <1>3, <2>1, <2>4, <3>2, <3>3 DEF Formed
  <2> QED
    BY <2>5, <2>6
<1> QED
  BY <1>4, TreeFormedThen

LEMMA FrontAndLast ==
  ASSUME NEW S, NEW s \in Seq(S), s # <<>>
  PROVE  \E t \in Seq(S) : s = Append(t, Last(s)) /\ Last(s) \in S
<1>1. Len(s) \in Nat \ {0} /\ Last(s) = s[Len(s)] /\ Last(s) \in S
  <2>1. Len(s) \in Nat /\ Len(s) # 0
    BY EmptySeq
  <2>2. s[Len(s)] \in S
    BY <2>1
  <2> QED
    BY <2>1, <2>2 DEF Last
<1>2. PICK t : t = SubSeq(s, 1, Len(s) - 1)
  OBVIOUS
<1>3. t \in Seq(S) /\ Len(t) = Len(s) - 1 /\ \A i \in 1 .. Len(s) - 1 : t[i] = s[i]
  <2>1. PICK n \in Nat : n = Len(s) - 1
    BY <1>1
  <2>2. /\ SubSeq(s, 1, n) \in Seq(S) /\ Len(SubSeq(s, 1, n)) = n
        /\ \A i \in 1 .. n : SubSeq(s, 1, n)[i] = s[i]
    BY <1>1, <2>1
  <2> QED
    BY <1>2, <2>1, <2>2
<1>4. PICK x : x = Last(s)
  OBVIOUS
<1>5. /\ Append(t, x) \in Seq(S) /\ Len(Append(t, x)) = Len(t) + 1
      /\ \A i \in 1 .. Len(t) : Append(t, x)[i] = t[i]
      /\ Append(t, x)[Len(t) + 1] = x
  BY <1>1, <1>3, <1>4, AppendFacts
<1>6. ASSUME NEW i \in 1 .. Len(s) PROVE s[i] = Append(t, x)[i]
  <2>1. CASE i = Len(s)
    BY <1>1, <1>3, <1>4, <1>5, <2>1
  <2>2. CASE i # Len(s)
    <3>1. i \in 1 .. Len(s) - 1
      BY <1>1, <2>2
    <3> QED
      BY <1>3, <1>5, <3>1
  <2> QED
    BY <2>1, <2>2
<1>7. Len(s) = Len(Append(t, x))
  BY <1>1, <1>3, <1>5
<1>8. s = Append(t, x)
  BY <1>5, <1>6, <1>7, SeqEqual
<1> QED
  BY <1>1, <1>3, <1>4, <1>8

LEMMA PrefixOfSingle ==
  ASSUME NEW S, NEW s \in Seq(S), s # <<>>, NEW x \in S
  PROVE  ~IsStrictPrefix(s, <<x>>)
<1> SUFFICES ASSUME IsStrictPrefix(s, <<x>>) PROVE FALSE
  OBVIOUS
<1>1. <<x>> \in Seq(S) /\ Len(<<x>>) = 1 /\ Len(s) \in Nat \ {0}
  <2>1. <<x>> \in Seq(S) /\ Len(<<x>>) = 1
    OBVIOUS
  <2>2. Len(s) \in Nat /\ Len(s) # 0
    BY EmptySeq
  <2> QED
    BY <2>1, <2>2
<1>2. PICK t \in Seq(S) : t = <<x>>
  BY <1>1
<1>3. IsPrefix(s, t) /\ s # t
  BY <1>2 DEF IsStrictPrefix
<1>4. Len(s) <= Len(t) /\ \A i \in 1 .. Len(s) : s[i] = t[i]
  BY <1>3, PrefixPointwise
<1>5. Len(t) = 1
  BY <1>1, <1>2
<1>6. Len(s) = Len(t)
  BY <1>1, <1>4, <1>5
<1> QED
  BY <1>3, <1>4, <1>6, SeqEqual

\* A workspace below another has its path written, and it is longer than the other's.
LEMMA PathBelow ==
  ASSUME SpacesTyped, NEW v \in Spaces, NEW u \in Spaces, PathOf(v) = Append(PathOf(u), v)
  PROVE  space[v].path = PathOf(v)
<1> SUFFICES ASSUME space[v].path = <<>> PROVE FALSE
  BY DEF PathOf
<1>1. PathOf(u) \in Seq(Spaces) /\ PathOf(u) # <<>>
  BY PathType
<1>2. PICK t \in Seq(Spaces) : t = PathOf(u)
  BY <1>1
<1>3. Len(t) \in Nat /\ Len(t) # 0 /\ Len(Append(t, v)) = Len(t) + 1
  BY <1>1, <1>2, EmptySeq
<1>4. <<v>> = Append(t, v)
  BY <1>2 DEF PathOf
<1>5. Len(<<v>>) = 1
  OBVIOUS
<1> QED
  BY <1>3, <1>4, <1>5

LEMMA MoveFormed ==
  ASSUME SpaceIInv, TreeFormed, NEW h \in MoveData, Movable(h), h.parent # h.w,
         h.parent \in SpaceRows \union {NoSpace}, space' = Rebased(h)
  PROVE  TreeFormed'
<1> DEFINE Carried(v) == v \in SpaceRows /\ IsStrictPrefix(h.old, space[v].path)
<1>1. /\ SpacesTyped /\ h.w \in SpaceRows /\ h.w \in Spaces /\ SpaceRows \subseteq Spaces /\ NoSpace \notin Spaces
      /\ h.old \in Seq(Spaces) /\ h.new \in Seq(Spaces)
  BY RowsAre DEF SpaceIInv, Movable, MoveData
<1>2. /\ SpaceRows' = SpaceRows
      /\ \A v \in Spaces : /\ space'[v].state = space[v].state /\ space'[v].org = space[v].org
                           /\ v # h.w => space'[v].parent = space[v].parent
      /\ space'[h.w].parent = h.parent /\ space'[h.w].path = h.new
      /\ \A v \in Spaces \ {h.w} :
           space'[v].path = IF Carried(v) THEN Onto(h.new, h.old, space[v].path) ELSE space[v].path
  BY <1>1, RebasedRows
<1> HIDE DEF Carried
<1>3. /\ h.old = PathOf(h.w) /\ h.old # <<>> /\ Last(h.old) = h.w
      /\ h.new = Append(PathTo(h.parent), h.w) /\ h.new # <<>> /\ Last(h.new) = h.w
  <2>1. h.old = PathOf(h.w) /\ h.new = Append(PathTo(h.parent), h.w)
    BY DEF Movable
  <2>2. Last(PathOf(h.w)) = h.w
    BY <1>1, TreeIsFormed DEF Formed
  <2>3. PathOf(h.w) # <<>> /\ PathTo(h.parent) \in Seq(Spaces)
    BY <1>1, PathType
  <2>4. PICK t \in Seq(Spaces) : t = PathTo(h.parent)
    BY <2>3
  <2>5. Append(t, h.w) # <<>> /\ Last(Append(t, h.w)) = h.w
    BY <1>1, AppendFacts
  <2> QED
    BY <2>1, <2>2, <2>3, <2>4, <2>5
\* Nothing but the workspace and what lies below it gets another path.
<1>4. ASSUME NEW v \in Spaces, v # h.w, ~Carried(v) PROVE PathOf(v)' = PathOf(v)
  BY <1>2, <1>4 DEF PathOf
<1>5. PathOf(h.w)' = h.new
  BY <1>2, <1>3 DEF PathOf
<1>6. ASSUME NEW v \in Spaces, v # h.w, Carried(v)
      PROVE  PathOf(v) = space[v].path /\ PathOf(v)' = Onto(h.new, h.old, PathOf(v)) /\ Last(PathOf(v)') = Last(PathOf(v))
  <2>1. PICK p : p = space[v].path
    OBVIOUS
  <2>2. p \in Seq(Spaces) /\ IsStrictPrefix(h.old, p)
    BY <1>1, <1>6, <2>1 DEF SpacesTyped, SpaceRow, Carried
  <2>3. p # <<>>
    <3>1. Len(h.old) <= Len(p) /\ Len(h.old) \in Nat /\ Len(h.old) # 0
      BY <1>1, <1>3, <2>2, PrefixPointwise, EmptySeq DEF IsStrictPrefix
    <3> QED
      BY <3>1
  <2>4. PICK t \in Seq(Spaces) : p = Append(t, Last(p)) /\ Last(p) \in Spaces
    BY <2>2, <2>3, FrontAndLast
  <2>5. PICK x \in Spaces : x = Last(p)
    BY <2>4
  <2>6. Len(h.old) <= Len(t)
    <3>1. IsPrefix(h.old, t)
      BY <1>1, <2>2, <2>4, <2>5, PrefixOfAppend
    <3> QED
      BY <1>1, <3>1, PrefixPointwise
  <2>7. PICK n \in Seq(Spaces) : n = Onto(h.new, h.old, t)
    BY <1>1, OntoType
  <2>8. Onto(h.new, h.old, p) = Append(n, x)
    <3>1. p = Append(t, x)
      BY <2>4, <2>5
    <3>2. PICK new \in Seq(Spaces), old \in Seq(Spaces) : new = h.new /\ old = h.old
      BY <1>1
    <3>3. Onto(new, old, Append(t, x)) = Append(Onto(new, old, t), x)
      <4>1. Len(old) <= Len(t)
        BY <2>6, <3>2
      <4> QED
        BY <4>1, OntoAppend
    <3> QED
      BY <2>7, <3>1, <3>2, <3>3
  <2>9. Append(n, x) # <<>> /\ Last(Append(n, x)) = x
    BY AppendFacts
  <2>10. space'[v].path = Append(n, x)
    BY <1>2, <1>6, <2>1, <2>8
  <2>11. PathOf(v)' = Append(n, x)
    BY <2>9, <2>10 DEF PathOf
  <2>12. PathOf(v) = p
    BY <2>1, <2>3 DEF PathOf
  <2> QED
    BY <2>1, <2>5, <2>8, <2>9, <2>11, <2>12
<1>7. ASSUME NEW v \in SpaceRows', NEW u, NEW o, u = space'[v].parent, o = space'[v].org
      PROVE  Formed(v, u, o)'
  <2>1. v \in SpaceRows /\ v \in Spaces /\ o = space[v].org
    BY <1>1, <1>2, <1>7
  <2>2. CASE v = h.w
    <3>1. u = h.parent /\ Last(PathOf(v)') = v
      BY <1>2, <1>3, <1>5, <1>7, <2>2
    <3>2. ASSUME u # NoSpace PROVE u \in Inside(o)' /\ PathOf(v)' = Append(PathOf(u)', v)
      <4>1. u \in SpaceRows /\ u \in Spaces /\ u # h.w /\ u \in Inside(o) /\ ~Below(h.w, u)
        BY <1>1, <2>1, <2>2, <3>1, <3>2 DEF Movable
      <4>2. ~Carried(u)
        <5> SUFFICES ASSUME Carried(u) PROVE FALSE
          OBVIOUS
        <5>1. space[u].path \in Seq(Spaces) /\ IsPrefix(h.old, space[u].path)
          BY <1>1, <4>1 DEF SpacesTyped, SpaceRow, Carried, IsStrictPrefix
        <5>2. PICK p \in Seq(Spaces) : p = space[u].path
          BY <5>1
        <5>3. Last(h.old) \in ToSet(p)
          BY <1>1, <1>3, <5>1, <5>2, PrefixLeadsThrough
        <5> QED
          BY <1>3, <4>1, <5>2, <5>3 DEF Below
      <4>3. PathOf(u)' = PathOf(u)
        BY <1>4, <4>1, <4>2
      <4>4. u \in Inside(o)'
        BY <1>2, <4>1 DEF Inside
      <4>5. PathTo(u) = PathOf(u)
        BY <3>2 DEF PathTo
      <4> QED
        BY <1>3, <1>5, <2>2, <3>1, <4>3, <4>4, <4>5
    <3> QED
      BY <3>1, <3>2 DEF Formed
  <2>3. CASE v # h.w
    <3>1. u = space[v].parent
      BY <1>2, <1>7, <2>1, <2>3
    <3>2. Formed(v, u, o)
      BY <2>1, <3>1, TreeIsFormed
    <3>3. Last(PathOf(v)') = v
      <4>1. CASE Carried(v)
        BY <1>6, <2>1, <2>3, <3>2, <4>1 DEF Formed
      <4>2. CASE ~Carried(v)
        BY <1>4, <2>1, <2>3, <3>2, <4>2 DEF Formed
      <4> QED
        BY <4>1, <4>2
    <3>4. ASSUME u # NoSpace PROVE u \in Inside(o)' /\ PathOf(v)' = Append(PathOf(u)', v)
      <4>1. u \in Inside(o) /\ u \in SpaceRows /\ u \in Spaces /\ PathOf(v) = Append(PathOf(u), v)
        BY <1>1, <3>2, <3>4 DEF Formed, Inside
      <4>2. u \in Inside(o)'
        BY <1>2, <4>1 DEF Inside
      <4>3. PICK p \in Seq(Spaces) : p = PathOf(u)
        BY <1>1, <4>1, PathType
      <4>4. space[v].path = Append(p, v)
        BY <1>1, <2>1, <4>1, <4>3, PathBelow
      <4>5. Carried(v) <=> IsPrefix(h.old, p)
        BY <1>1, <2>1, <4>3, <4>4, PrefixOfAppend DEF Carried
      <4>6. CASE u = h.w
        <5>1. p = h.old /\ Carried(v)
          <6>1. p = h.old
            BY <1>3, <4>3, <4>6
          <6>2. IsPrefix(h.old, h.old)
            BY <1>1 DEF IsPrefix
          <6> QED
            BY <4>5, <6>1, <6>2
        <5>2. PathOf(v)' = Onto(h.new, h.old, Append(h.old, v))
          BY <1>6, <2>1, <2>3, <4>1, <4>3, <5>1
        <5>3. Onto(h.new, h.old, Append(h.old, v)) = Append(Onto(h.new, h.old, h.old), v)
          <6>1. Len(h.old) <= Len(h.old)
            BY <1>1
          <6> QED
            BY <1>1, <2>1, <6>1, OntoAppend
        <5>4. Onto(h.new, h.old, h.old) = h.new
          BY <1>1, OntoSame
        <5> QED
          BY <1>5, <4>2, <4>6, <5>2, <5>3, <5>4
      <4>7. CASE u # h.w /\ Carried(u)
        <5>1. space[u].path = p /\ PathOf(u)' = Onto(h.new, h.old, p)
          BY <1>6, <4>1, <4>3, <4>7
        <5>2. IsPrefix(h.old, p) /\ Len(h.old) <= Len(p)
          <6>1. IsPrefix(h.old, p)
            BY <4>7, <5>1 DEF Carried, IsStrictPrefix
          <6> QED
            BY <1>1, <6>1, PrefixPointwise
        <5>3. PathOf(v)' = Onto(h.new, h.old, Append(p, v))
          BY <1>6, <2>1, <2>3, <4>1, <4>3, <4>5, <5>2
        <5>4. Onto(h.new, h.old, Append(p, v)) = Append(Onto(h.new, h.old, p), v)
          BY <1>1, <2>1, <5>2, OntoAppend
        <5> QED
          BY <4>2, <5>1, <5>3, <5>4
      <4>8. CASE u # h.w /\ ~Carried(u)
        <5>1. PathOf(u)' = p
          BY <1>4, <4>1, <4>3, <4>8
        <5>2. ~Carried(v)
          <6> SUFFICES ASSUME IsPrefix(h.old, p) PROVE FALSE
            BY <4>5
          <6>1. h.old # p
            <7>1. Last(p) = u
              BY <4>1, <4>3, TreeIsFormed DEF Formed
            <7> QED
              BY <1>3, <4>8, <7>1
          <6>2. IsStrictPrefix(h.old, p)
            BY <6>1 DEF IsStrictPrefix
          <6>3. CASE space[u].path = <<>>
            <7>1. p = <<u>>
              BY <4>3, <6>3 DEF PathOf
            <7> QED
              BY <1>1, <1>3, <4>1, <6>2, <7>1, PrefixOfSingle
          <6>4. CASE space[u].path # <<>>
            <7>1. p = space[u].path
              BY <4>3, <6>4 DEF PathOf
            <7> QED
              BY <4>1, <4>8, <6>2, <7>1 DEF Carried
          <6> QED
            BY <6>3, <6>4
        <5> QED
          BY <1>4, <2>1, <2>3, <4>1, <4>2, <4>3, <5>1, <5>2
      <4> QED
        BY <4>6, <4>7, <4>8
    <3> QED
      BY <3>3, <3>4 DEF Formed
  <2> QED
    BY <2>2, <2>3
<1> QED
  BY <1>7, TreeFormedThen

LEMMA TreeStays == ASSUME TreeFormed, TreeKept, SpaceRows' \subseteq SpaceRows PROVE TreeFormed'
<1>1. ASSUME NEW v \in SpaceRows', NEW u, NEW o, u = space'[v].parent, o = space'[v].org
      PROVE  Formed(v, u, o)'
  <2>1. v \in SpaceRows /\ u = space[v].parent /\ o = space[v].org
    BY <1>1 DEF TreeKept
  <2>2. Formed(v, u, o)
    BY <2>1, TreeIsFormed
  <2> QED
    BY <2>1, <2>2, FormedKept
<1> QED
  BY <1>1, TreeFormedThen

\* A new workspace, in its place.
LEMMA NewFormed ==
  ASSUME SpacesTyped, TreeFormed, NEW w \in Spaces, space[w].state = "none", NEW row \in SpaceRow,
         space' = [space EXCEPT ![w] = row],
         row.parent = NoSpace \/ row.parent \in Inside(row.org),
         \/ row.path = Append(PathTo(row.parent), w)
         \/ row.path = <<>> /\ row.parent = NoSpace
  PROVE  TreeFormed'
<1>1. /\ SpaceRows' \subseteq SpaceRows \union {w} /\ space'[w] = row
      /\ \A v \in Spaces \ {w} : space'[v] = space[v] /\ (v \in SpaceRows' <=> v \in SpaceRows)
  BY SpaceWritten
<1>2. w \notin SpaceRows /\ SpaceRows \subseteq Spaces /\ NoSpace \notin Spaces
  BY RowsAre DEF SpaceRows, Row
<1>3. TreeKept
  BY <1>1, <1>2 DEF TreeKept
<1>4. ASSUME NEW u, NEW o, u = row.parent, o = row.org PROVE Formed(w, u, o)'
  <2>1. CASE row.path = <<>> /\ u = NoSpace
    <3>1. PathOf(w)' = <<w>>
      BY <1>1, <2>1 DEF PathOf
    <3>2. Last(<<w>>) = w
      BY DEF Last
    <3> QED
      BY <2>1, <3>1, <3>2 DEF Formed
  <2>2. CASE row.path = Append(PathTo(u), w)
    <3>1. PICK t \in Seq(Spaces) : t = PathTo(u)
      BY <1>4, PathType DEF SpaceRow
    <3>2. Append(t, w) # <<>> /\ Last(Append(t, w)) = w
      BY AppendFacts
    <3>3. PathOf(w)' = Append(t, w)
      BY <1>1, <2>2, <3>1, <3>2 DEF PathOf
    <3>4. ASSUME u # NoSpace PROVE u \in Inside(o)' /\ PathOf(u)' = t
      <4>1. u \in Inside(o) /\ u \in SpaceRows
        BY <1>4, <3>4 DEF Inside
      <4>2. u \in Inside(o)' /\ PathOf(u)' = PathOf(u)
        BY <1>3, <4>1, KeptPaths
      <4> QED
        BY <3>1, <3>4, <4>2 DEF PathTo
    <3> QED
      BY <3>2, <3>3, <3>4 DEF Formed
  <2> QED
    BY <1>4, <2>1, <2>2
<1> QED
  BY <1>1, <1>3, <1>4, TreeGrows

\* The last step of a request is a step of it.
LEMMA EndMoves ==
  ASSUME NEW r \in Requests, Commit(r), req[r].step # ""
  PROVE  Moves(r)
<1>1. req'[r] = Idle
  BY DEF Commit, Overtaken
<1>2. Idle.step = ""
  BY DEF Idle
<1> QED
  BY <1>1, <1>2 DEF Moves

LEMMA TreeStep ==
  ASSUME SpaceIInv, TreeFormed, NEW r \in Requests, SpaceStep(r),
         Moves(r) => Alone(r, TreeOps \union {"updateSpace"}),
         \A w \in SpaceRows : space'[w].state # "gone" => space'[w].org = space[w].org
  PROVE  TreeFormed'
<1>1. SpacesTyped /\ space \in [Spaces -> SpaceRow] /\ SpaceRows \subseteq Spaces
  BY RowsAre DEF SpaceIInv, SpacesTyped
<1>2. CASE UNCHANGED space
  <2>1. TreeKept /\ SpaceRows' = SpaceRows
    BY <1>2, SameRows
  <2> QED
    BY <2>1, TreeStays
<1>3. CASE CreateOrg(r) /\ space' # space
  <2>1. PICK o, w, h : /\ o = AnyOf(Fresh(org, Orgs)) /\ w = AnyOf(Fresh(space, Spaces)) /\ h = req[r].with
    OBVIOUS
  <2>2. /\ req[r].op = "createOrg" /\ Fresh(org, Orgs) # {} /\ Fresh(space, Spaces) # {}
        /\ space' = [space EXCEPT ![w] = NewSpace(o, NoSpace, <<>>, h.name)]
    BY <1>3, <2>1 DEF CreateOrg, At, spaceVars
  <2>3. w \in Spaces /\ space[w].state = "none" /\ o \in Orgs
    BY <2>1, <2>2, FreshId
  <2>4. h.name \in SlugSet
    BY <2>1, <2>2, BaseSlug DEF SpaceIInv, SpaceReqOK, OnboardOK, OnboardData
  <2>5. PICK row : row = NewSpace(o, NoSpace, <<>>, h.name)
    OBVIOUS
  <2>6. row \in SpaceRow /\ row.path = <<>> /\ row.parent = NoSpace
    BY <2>3, <2>4, <2>5, EmptySeq DEF NewSpace, SpaceRow, RowStates
  <2> QED
    BY <1>1, <2>2, <2>3, <2>5, <2>6, NewFormed
<1>4. CASE CreateSpace(r) /\ space' # space
  <2>1. PICK w, h : w = AnyOf(Fresh(space, Spaces)) /\ h = req[r].with
    OBVIOUS
  <2>2. /\ req[r].op = "createSpace" /\ req[r].step = "insert" /\ Commit(r) /\ Fresh(space, Spaces) # {}
        /\ space' = [space EXCEPT ![w] = [h EXCEPT !.path = Append(@, w)]]
    BY <1>4, <2>1 DEF CreateSpace, At
  <2>3. w \in Spaces /\ space[w].state = "none"
    BY <2>1, <2>2, FreshId
  <2>4. req[r].over \intersect TreeChanges = {}
    BY <2>2, EndMoves DEF Alone, TreeChanges
  <2>5. h \in SpaceRow /\ Growing(h)
    BY <2>1, <2>2, <2>4 DEF SpaceIInv, SpaceReqOK, GrowOK
  <2>6. PICK row : row = [h EXCEPT !.path = Append(@, w)]
    OBVIOUS
  <2>7. Append(h.path, w) \in Seq(Spaces)
    BY <2>3, <2>5, AppendFacts DEF SpaceRow
  <2>8. row \in SpaceRow /\ row.path = Append(PathTo(row.parent), w) /\ row.parent = h.parent /\ row.org = h.org
    BY <2>5, <2>6, <2>7 DEF SpaceRow, Growing
  <2>9. row.parent = NoSpace \/ row.parent \in Inside(row.org)
    BY <2>5, <2>8 DEF Growing
  <2> QED
    BY <1>1, <2>2, <2>3, <2>6, <2>8, <2>9, NewFormed
<1>5. CASE MoveSpace(r) /\ space' # space
  <2>1. PICK h : h = req[r].with
    OBVIOUS
  <2>2. /\ req[r].op = "moveSpace" /\ req[r].step = "write" /\ Commit(r)
        /\ h.parent \in SpaceRows \union {NoSpace} /\ space' = Rebased(h)
    BY <1>5, <2>1 DEF MoveSpace, At
  <2>3. req[r].over \intersect TreeChanges = {}
    BY <2>2, EndMoves DEF Alone, TreeChanges
  <2>4. h \in MoveData /\ Movable(h) /\ h.parent # h.w
    BY <2>1, <2>2, <2>3 DEF SpaceIInv, SpaceReqOK, MoveOK
  <2> QED
    BY <2>2, <2>4, MoveFormed
<1>6. CASE UpdateSpace(r)
  <2>1. PICK w \in SpaceRows, o \in OrgRows : \E slug \in Bases \union {space[w].slug} :
          space' = [space EXCEPT ![w].slug = slug, ![w].org = o]
    BY <1>6 DEF UpdateSpace
  <2>2. PICK slug : space' = [space EXCEPT ![w].slug = slug, ![w].org = o]
    BY <2>1
  <2>3. w \in Spaces /\ space[w] \in SpaceRow
    BY <1>1
  <2>4. /\ space'[w].state = space[w].state /\ space'[w].org = o /\ space'[w].parent = space[w].parent
        /\ space'[w].path = space[w].path
        /\ \A v \in Spaces \ {w} : space'[v] = space[v]
    BY <1>1, <2>2, <2>3 DEF SpaceRow
  <2>5. SpaceRows' = SpaceRows
    BY <2>4 DEF SpaceRows, Row
  <2>6. space'[w].org = space[w].org
    BY <2>4 DEF SpaceRows, Row
  <2>7. TreeKept
    BY <1>1, <2>4, <2>5, <2>6 DEF TreeKept
  <2> QED
    BY <2>5, <2>7, TreeStays
<1>7. CASE RemoveOrg(r) \/ RemoveSpace(r)
  <2>1. PICK W : W \in SUBSET SpaceRows /\ Without(W)
    BY <1>7 DEF RemoveOrg, RemoveSpace, Inside
  <2> QED
    BY <2>1, WithoutFormed
<1>8. CASE ArchiveSpace(r) /\ space' # space
  <2>1. PICK w, state : /\ w = req[r].with
                        /\ state = IF req[r].op = "archiveSpace" THEN "archived" ELSE "live"
    OBVIOUS
  <2>2. /\ w \in SpaceRows
        /\ proj' = [p \in Projects |-> IF p \in Held({w}) THEN [proj[p] EXCEPT !.state = state] ELSE proj[p]]
        /\ space' = [space EXCEPT ![w].state = state]
    BY <1>8, <2>1, Zenon DEF ArchiveSpace
  <2>3. SpaceRows' = SpaceRows /\ TreeKept
    BY <1>1, <2>1, <2>2, ShelvedRows
  <2> QED
    BY <2>3, TreeStays
<1>9. CASE \/ AskCreateOrg(r) \/ AskCreateSpace(r) \/ AskMoveSpace(r) \/ AskArchiveSpace(r)
           \/ AskCreateProject(r) \/ AskArchiveProject(r) \/ AskUnarchiveProject(r)
  <2>1. UNCHANGED spaceVars
    BY <1>9 DEF AskCreateOrg, AskCreateSpace, AskMoveSpace, AskArchiveSpace, AskCreateProject,
                AskArchiveProject, AskUnarchiveProject
  <2> QED
    BY <1>2, <2>1 DEF spaceVars
<1>10. CASE ArchiveOrg(r) \/ CreateProject(r) \/ UpdateProject(r) \/ RemoveProject(r) \/ ArchiveProject(r)
  <2>1. UNCHANGED space
    BY <1>10 DEF ArchiveOrg, CreateProject, UpdateProject, RemoveProject, ArchiveProject
  <2> QED
    BY <1>2, <2>1
<1> QED
  BY <1>2, <1>3, <1>4, <1>5, <1>6, <1>7, <1>8, <1>9, <1>10 DEF SpaceStep

\* Every step leaves the tree of workspaces formed, but for a creation or a move
\* that another change of the tree overtook, and a change of the organization.
THEOREM TreeKeepsForm == SpacesSpec => TreeHeld
<1>1. ASSUME SpaceIInv, [SpaceNext]_<<handlerVars, spaceVars>>
      PROVE  [/\ \A r \in Requests : Moves(r) => Alone(r, TreeOps \union {"updateSpace"})
              /\ \A w \in SpaceRows : space'[w].state # "gone" => space'[w].org = space[w].org
              /\ TreeFormed
              => TreeFormed']_<<handlerVars, spaceVars>>
  BY <1>1, TreeStep DEF SpaceNext
<1>2. SpacesSpec => []SpaceIInv
  BY InitSpaceIInv, NextSpaceIInv, PTL DEF SpacesSpec
<1> QED
  BY <1>1, <1>2, PTL DEF SpacesSpec, TreeHeld

-----------------------------------------------------------------------------
(* Projects come back into workspaces that are there, and a creation that  *)
(* nothing overtook succeeds.                                              *)
Asks(r) == ~Active(r) /\ \A q \in Requests \ {r} : req'[q] = req[q]

LEMMA StepShapes ==
  ASSUME NEW r \in Requests, SpaceStep(r)
  PROVE  \/ Asks(r) /\ UNCHANGED spaceVars
         \/ \E op \in SpaceOps : Once(r, op)
         \/ CreateOrg(r) \/ CreateSpace(r) \/ MoveSpace(r) \/ ArchiveSpace(r) \/ CreateProject(r)
         \/ ArchiveProject(r)
<1>1. ASSUME NEW op, NEW step, NEW with, Ask(r, op, step, with) PROVE Asks(r)
  BY <1>1 DEF Ask, Asks
<1>2. CASE \/ AskCreateOrg(r) \/ AskCreateSpace(r) \/ AskMoveSpace(r) \/ AskArchiveSpace(r)
           \/ AskCreateProject(r) \/ AskArchiveProject(r) \/ AskUnarchiveProject(r)
  <2>1. (\E op, step, with : Ask(r, op, step, with)) /\ UNCHANGED spaceVars
    BY <1>2, Zenon DEF AskCreateOrg, AskCreateSpace, AskMoveSpace, AskArchiveSpace, AskCreateProject,
                AskArchiveProject, AskUnarchiveProject
  <2> QED
    BY <1>1, <2>1
<1>3. CASE ArchiveOrg(r) \/ RemoveOrg(r) \/ UpdateSpace(r) \/ RemoveSpace(r) \/ UpdateProject(r) \/ RemoveProject(r)
  <2>1. \E op \in {"removeSpace", "removeOrg", "updateSpace", "removeProject", "updateProject", "archiveOrg"} : Once(r, op)
    BY <1>3 DEF ArchiveOrg, RemoveOrg, UpdateSpace, RemoveSpace, UpdateProject, RemoveProject
  <2> QED
    BY <2>1, SpaceOpNames
<1> QED
  BY <1>2, <1>3 DEF SpaceStep

LEMMA OthersStay ==
  ASSUME SpaceIInv, NEW r \in Requests, NEW q \in Requests \ {r}, NEW op
  PROVE  Overtaken(r, op)[q].step = req[q].step /\ Overtaken(r, op)[q].with = req[q].with
<1>1. req[q] \in SpaceCall(SpaceData)
  BY DEF SpaceIInv
<1>2. PICK D : D = SpaceData
  OBVIOUS
<1>3. req[q] \in SpaceCall(D)
  BY <1>1, <1>2
<1>4. Overtaken(r, op)[q] = IF Active(q) THEN [req[q] EXCEPT !.over = @ \union {op}] ELSE req[q]
  BY DEF Overtaken
<1> QED
  BY <1>3, <1>4 DEF SpaceCall

\* A step moves nobody's request but its own, and a whole request in one
\* statement none.
LEMMA OneMoves ==
  ASSUME SpaceIInv, NEW s \in Requests, SpaceStep(s), NEW r \in Requests, Moves(r)
  PROVE  r = s /\ ~\E op \in SpaceOps : Once(s, op)
<1>1. ASSUME NEW op \in SpaceOps, Once(s, op) PROVE ~Moves(r)
  <2>1. CASE r = s
    BY <1>1, <2>1 DEF Once, Overtaken, Moves
  <2>2. CASE r # s
    BY <1>1, <2>2, OthersStay DEF Once, Moves
  <2> QED
    BY <2>1, <2>2
<1>2. ASSUME r # s PROVE FALSE
  <2>1. CASE Asks(s) \/ Answer(s) \/ \E step, with : GoOn(s, step, with)
    <3>1. req'[r] = req[r]
      BY <1>2, <2>1 DEF Asks, Answer, GoOn, SpaceIInv
    <3> QED
      BY <3>1 DEF Moves
  <2>2. CASE Commit(s)
    <3>1. PICK op : op = req[s].op
      OBVIOUS
    <3>2. req'[r] = Overtaken(s, op)[r]
      BY <1>2, <2>2, <3>1 DEF Commit, Overtaken
    <3> QED
      BY <1>2, <3>2, OthersStay DEF Moves
  <2>3. CASE CreateOrg(s) \/ CreateSpace(s) \/ MoveSpace(s) \/ ArchiveSpace(s) \/ CreateProject(s)
             \/ ArchiveProject(s)
    <3>1. Answer(s) \/ Commit(s) \/ \E step, with : GoOn(s, step, with)
      BY <2>3, Zenon DEF CreateOrg, CreateSpace, MoveSpace, ArchiveSpace, CreateProject, ArchiveProject
    <3> QED
      BY <2>1, <2>2, <3>1
  <2> QED
    BY <1>1, <2>1, <2>3, StepShapes
<1> QED
  BY <1>1, <1>2

LEMMA ReturnsToLive ==
  ASSUME SpaceIInv, NEW r \in Requests, SpaceStep(r), Moves(r), Alone(r, {"archiveSpace", "updateProject"}),
         NEW p \in Projects, proj[p].state = "archived", proj'[p].state = "live"
  PROVE  space'[proj[p].ws].state = "live"
<1>1. /\ SpacesTyped /\ space \in [Spaces -> SpaceRow] /\ proj \in [Projects -> ProjectRow]
      /\ p \in ProjectRows /\ proj[p].ws \in Spaces
  BY DEF SpaceIInv, SpacesTyped, ProjectRow, ProjectRows, Row
<1>2. ~UNCHANGED proj
  OBVIOUS
<1>3. CASE CreateOrg(r) \/ CreateProject(r)
  <2>1. PICK x : x = AnyOf(Fresh(proj, Projects))
    OBVIOUS
  <2>2. Fresh(proj, Projects) # {} /\ \E row : proj' = [proj EXCEPT ![x] = row]
    BY <1>2, <1>3, <2>1, Zenon DEF CreateOrg, CreateProject, spaceVars
  <2>3. x \in Projects /\ proj[x].state = "none"
    BY <2>1, <2>2, FreshId
  <2>4. p # x
    BY <2>3
  <2>5. PICK row : proj' = [proj EXCEPT ![x] = row]
    BY <2>2
  <2>6. proj'[p] = proj[p]
    BY <1>1, <2>4, <2>5
  <2> QED
    BY <2>6
<1>4. CASE ArchiveSpace(r)
  <2>1. PICK w, state, op : /\ w = req[r].with /\ op = req[r].op
                            /\ state = IF op = "archiveSpace" THEN "archived" ELSE "live"
    OBVIOUS
  <2>2. /\ w \in SpaceRows
        /\ proj' = [q \in Projects |-> IF q \in Held({w}) THEN [proj[q] EXCEPT !.state = state] ELSE proj[q]]
        /\ space' = [space EXCEPT ![w].state = state]
    BY <1>2, <1>4, <2>1, Zenon DEF ArchiveSpace
  <2>3. w \in Spaces
    BY <2>2, RowsAre
  <2>4. p \in Held({w})
    BY <1>1, <2>2
  <2>5. proj[p].ws = w /\ state = "live"
    <3>1. proj'[p] = [proj[p] EXCEPT !.state = state]
      BY <2>2, <2>4
    <3>2. proj[p] \in ProjectRow
      BY <1>1
    <3> QED
      BY <2>4, <3>1, <3>2 DEF Held, ProjectRow
  <2>6. space'[w].state = state
    <3>1. space[w] \in SpaceRow
      BY <1>1, <2>3
    <3> QED
      BY <1>1, <2>2, <2>3, <3>1 DEF SpaceRow
  <2> QED
    BY <2>5, <2>6
<1>5. CASE ArchiveProject(r)
  <2>1. PICK q, op, state : /\ q = req[r].with /\ op = req[r].op
                            /\ state = IF op = "archiveProject" THEN "archived" ELSE "live"
    OBVIOUS
  <2>2. /\ op \in {"archiveProject", "unarchiveProject"} /\ q \in ProjectRows
        /\ proj' = [proj EXCEPT ![q].state = state] /\ UNCHANGED space
    BY <1>2, <1>5, <2>1, Zenon DEF ArchiveProject
  <2>3. p = q
    BY <1>1, <2>2
  <2>4. state = "live"
    <3>1. proj[p] \in ProjectRow
      BY <1>1
    <3> QED
      BY <1>1, <2>2, <2>3, <3>1 DEF ProjectRow
  <2>5. op = "unarchiveProject"
    BY <2>1, <2>2, <2>4
  <2>6. req[r].over \intersect ShelfChanges = {}
    BY DEF Alone, ShelfChanges
  <2>7. space[proj[p].ws].state = "live"
    BY <1>1, <2>1, <2>3, <2>5, <2>6 DEF SpaceIInv, SpaceReqOK, ReturnOK
  <2> QED
    BY <2>2, <2>7
<1>6. CASE CreateSpace(r) \/ MoveSpace(r) \/ UNCHANGED spaceVars
  BY <1>2, <1>6 DEF CreateSpace, MoveSpace, spaceVars
<1> QED
  BY <1>3, <1>4, <1>5, <1>6, StepShapes, OneMoves

LEMMA CreationSucceeds ==
  ASSUME SpaceIInv, NEW r \in Requests, SpaceStep(r), Moves(r),
         req[r].op \in {"createSpace", "createProject"}, req[r].over = {}
  PROVE  space' # space \/ proj' # proj
<1>1. space \in [Spaces -> SpaceRow] /\ proj \in [Projects -> ProjectRow] /\ SpaceReqOK(req[r])
  BY DEF SpaceIInv, SpacesTyped
<1>2. CASE CreateSpace(r)
  <2>1. PICK w, h : w = AnyOf(Fresh(space, Spaces)) /\ h = req[r].with
    OBVIOUS
  <2>2. req[r].op = "createSpace" /\ Fresh(space, Spaces) # {}
    BY <1>2 DEF CreateSpace, At
  <2>3. w \in Spaces /\ space[w].state = "none"
    BY <2>1, <2>2, FreshId
  <2>4. /\ h \in SpaceRow /\ h.state = "live" /\ Growing(h)
        /\ Row(org, h.org) /\ h.slug \notin SpaceSlugs(h.org)
    BY <1>1, <2>1, <2>2 DEF SpaceReqOK, GrowOK
  <2>5. h.parent \in SpaceRows \union {NoSpace}
    BY <2>4 DEF Growing, Inside
  <2>6. space' = [space EXCEPT ![w] = [h EXCEPT !.path = Append(@, w)]]
    BY <1>2, <2>1, <2>4, <2>5 DEF CreateSpace
  <2>7. space'[w].state = "live"
    BY <1>1, <2>3, <2>4, <2>6 DEF SpaceRow
  <2> QED
    BY <2>3, <2>7
<1>3. CASE CreateProject(r)
  <2>1. PICK p, h : p = AnyOf(Fresh(proj, Projects)) /\ h = req[r].with
    OBVIOUS
  <2>2. req[r].op = "createProject" /\ Fresh(proj, Projects) # {}
    BY <1>3 DEF CreateProject, At
  <2>3. p \in Projects /\ proj[p].state = "none"
    BY <2>1, <2>2, FreshId
  <2>4. h.row.state = "live" /\ h.row.ws \in SpaceRows /\ h.row.slug \notin ProjectSlugs
    BY <1>1, <2>1, <2>2 DEF SpaceReqOK, DraftOK
  <2>5. proj' = [proj EXCEPT ![p] = h.row]
    BY <1>3, <2>1, <2>4 DEF CreateProject
  <2>6. proj'[p].state = "live"
    BY <1>1, <2>3, <2>4, <2>5
  <2> QED
    BY <2>3, <2>6
<1>4. ~Asks(r) /\ ~CreateOrg(r) /\ ~MoveSpace(r) /\ ~ArchiveSpace(r) /\ ~ArchiveProject(r)
  BY DEF Asks, Active, CreateOrg, MoveSpace, ArchiveSpace, ArchiveProject, At
<1> QED
  BY <1>2, <1>3, <1>4, StepShapes, OneMoves

\* An archived project comes back only into a workspace that is not archived, or
\* with it, unless the check was overtaken; and a creation that nothing overtook
\* finds a slug the database accepts.
THEOREM ProjectsKept == SpacesSpec => ProjectsHeld
<1>1. ASSUME SpaceIInv, [SpaceNext]_<<handlerVars, spaceVars>>
      PROVE  [\A r \in Requests : Moves(r) =>
                /\ Alone(r, {"archiveSpace", "updateProject"}) =>
                     \A p \in Projects : proj[p].state = "archived" /\ proj'[p].state = "live"
                                         => space'[proj[p].ws].state = "live"
                /\ /\ req[r].op \in {"createSpace", "createProject"} /\ req[r].step = "insert"
                   /\ req[r].over = {}
                   => (space' # space \/ proj' # proj)]_<<handlerVars, spaceVars>>
  <2>1. ASSUME NEW s \in Requests, SpaceStep(s), NEW r \in Requests, Moves(r)
        PROVE  /\ Alone(r, {"archiveSpace", "updateProject"}) =>
                     \A p \in Projects : proj[p].state = "archived" /\ proj'[p].state = "live"
                                         => space'[proj[p].ws].state = "live"
               /\ /\ req[r].op \in {"createSpace", "createProject"} /\ req[r].step = "insert"
                  /\ req[r].over = {}
                  => (space' # space \/ proj' # proj)
    <3>1. SpaceStep(r)
      BY <1>1, <2>1, OneMoves
    <3> QED
      BY <1>1, <2>1, <3>1, ReturnsToLive, CreationSucceeds
  <2> QED
    BY <1>1, <2>1 DEF SpaceNext
<1>2. SpacesSpec => []SpaceIInv
  BY InitSpaceIInv, NextSpaceIInv, PTL DEF SpacesSpec
<1> QED
  BY <1>1, <1>2, PTL DEF SpacesSpec, ProjectsHeld
=============================================================================
