--------------------------- MODULE Accounts_proofs ---------------------------
(***************************************************************************)
(* For any set of users, any number of requests and whatever operations    *)
(* the clients ask: administrators, sessions and reset links survive the   *)
(* interleaving of requests, each of which acts on a row it read earlier.  *)
(***************************************************************************)
EXTENDS Accounts, TLAPS

(* What a request in progress relies on between its queries.  As long as   *)
(* no other request wrote what it read ("since" holds the kinds written),  *)
(* its reading is still true.                                              *)
ShapeOK(r) ==
  /\ req[r].step \in {"bootstrap", "promote"} => req[r].op = "login"
  /\ req[r].step = "create" => req[r].op \in {"sso", "register"}
  /\ req[r].step = "setup" => req[r].op = "setup"
  /\ req[r].step = "read" => req[r].op \in AdminOps
  /\ req[r].step = "count" => req[r].op \in {"role", "delete"}
  /\ req[r].step = "write" => req[r].op \in AdminOps \union {"refresh", "logout", "forgot", "reset"}
  /\ req[r].step \in {"count", "write"} => ~Own(r)
  /\ At(r, "refresh", "write") => req[r].key \in 0 .. MaxSignIns + 1

\* The administrator who asked is one still.
ActorOK(r) ==
  /\ req[r].step \in {"read", "count", "write"} /\ req[r].op \in AdminOps
  /\ "admins" \notin since[r]
  => req[r].actor \in LiveAdmins

\* login found no administrator.
PromotionOK(r) == At(r, "login", "promote") /\ "admins" \notin since[r] => ~ExistingAdmin

\* The token presented is stored.
TokenOK(r) ==
  At(r, "refresh", "write") /\ "session" \notin since[r]
    => rows[req[r].user].session = req[r].key

\* The link presented is stored, by this account if at all.
LinkOK(r) ==
  At(r, "reset", "write") =>
    /\ req[r].key \in 1 .. links
    /\ \A u \in Users : rows[u].reset = req[r].key => u = req[r].user
    /\ "reset" \notin since[r] => rows[req[r].user].reset = req[r].key

RequestOK(r) == ShapeOK(r) /\ ActorOK(r) /\ PromotionOK(r) /\ TokenOK(r) /\ LinkOK(r)

\* Links are sent once, to one account, and a stored link is not yet used.
LinksFresh ==
  /\ \A u \in Users : rows[u].reset <= links
  /\ \A u, v \in Users : rows[u].reset = rows[v].reset /\ rows[u].reset # None => u = v
  /\ \A u \in Users : rows[u].reset # None => uses[rows[u].reset] = 0
  /\ \A n \in DOMAIN uses : n > links => uses[n] = 0

RequestType == [step : Steps, op : Ops, user : Users, actor : Users,
                value : Values, key : 0 .. MaxSignIns + MaxResets]

IInv == TypeOK /\ LinksFresh /\ \A r \in Requests : RequestOK(r)

-----------------------------------------------------------------------------
LEMMA Bounds == MaxSignIns \in Nat /\ MaxResets \in Nat
BY AccountsBoundsAssumption

LEMMA NoneType ==
  /\ None \in 0 .. MaxSignIns + 1 /\ None \in 0 .. MaxResets
  /\ SetupSession \in 0 .. MaxSignIns + 1
BY Bounds DEF None, SetupSession

LEMMA IdleType == Idle \in RequestType /\ Idle.step = "idle"
<1>1. (CHOOSE u \in Users : TRUE) \in Users
  BY UsersAssumption
<1> QED
  BY <1>1, Bounds DEF Idle, RequestType, Steps, Ops, AdminOps, Values, None

LEMMA NoAccountType == NoAccount \in Accounts
BY Bounds DEF NoAccount, Accounts, Roles, None

LEMMA InitIInv == Init => IInv
<1> SUFFICES ASSUME Init PROVE IInv
  OBVIOUS
<1>1. TypeOK
  <2>1. req \in [Requests -> RequestType]
    BY IdleType DEF Init
  <2>2. rows \in [Users -> Accounts] /\ \A u \in Users : rows[u] = NoAccount
    BY NoAccountType DEF Init
  <2>3. signer \in Seq(Users) /\ Len(signer) = 0
    BY DEF Init
  <2>4. uses \in [1 .. MaxResets -> Nat]
    BY DEF Init
  <2>5. links \in 0 .. MaxResets
    BY Bounds DEF Init
  <2>6. setup \in BOOLEAN
    BY DEF Init
  <2>7. ended = {} /\ since \in [Requests -> SUBSET {"session", "reset", "admins"}]
    BY DEF Init
  <2> QED
    BY <2>1, <2>2, <2>3, <2>4, <2>5, <2>6, <2>7, Bounds DEF TypeOK, RequestType
<1>2. LinksFresh
  BY Bounds DEF Init, LinksFresh, NoAccount, None
<1>3. ASSUME NEW r \in Requests PROVE RequestOK(r)
  <2>1. req[r].step = "idle"
    BY IdleType DEF Init
  <2> QED
    BY <2>1 DEF RequestOK, ShapeOK, ActorOK, PromotionOK, TokenOK, LinkOK, At
<1> QED
  BY <1>1, <1>2, <1>3 DEF IInv

-----------------------------------------------------------------------------
(* A step of r that writes no row, and leaves the other requests alone.    *)
LEMMA QuietKeeps ==
  ASSUME IInv, NEW r \in Requests,
         req' \in [Requests -> RequestType],
         since' \in [Requests -> SUBSET {"session", "reset", "admins"}],
         \A q \in Requests \ {r} : req'[q] = req[q] /\ since'[q] = since[q],
         UNCHANGED <<rows, signer, links, ended, uses>>, setup' \in BOOLEAN,
         RequestOK(r)'
  PROVE  IInv'
<1>1. TypeOK'
  BY DEF IInv, TypeOK, RequestType
<1>2. LinksFresh'
  BY DEF IInv, LinksFresh
<1>3. ASSUME NEW q \in Requests \ {r} PROVE RequestOK(q)'
  <2>1. RequestOK(q) /\ req'[q] = req[q] /\ since'[q] = since[q]
    BY DEF IInv
  <2> QED
    BY <2>1 DEF RequestOK, ShapeOK, At, Own, ActorOK, LiveAdmins, PromotionOK, ExistingAdmin,
       TokenOK, LinkOK
<1> QED
  BY <1>1, <1>2, <1>3 DEF IInv

(* The kinds of a write, one by one.                                       *)
LEMMA KindsAre ==
  ASSUME NEW q, NEW u, NEW a
  PROVE  /\ Kinds(q, u, a) \subseteq {"session", "reset", "admins"}
         /\ req[q].user = u /\ a.session # rows[u].session => "session" \in Kinds(q, u, a)
         /\ req[q].user = u /\ a.reset # rows[u].reset => "reset" \in Kinds(q, u, a)
         /\ /\ "SUPER_ADMIN" \in {a.role, rows[u].role}
            /\ \/ a.role # rows[u].role
               \/ a.active # rows[u].active
               \/ a.deleted # rows[u].deleted
            => "admins" \in Kinds(q, u, a)
BY DEF Kinds

(* What a write makes of the rows and of the requests.                     *)
LEMMA WriteEffect ==
  ASSUME TypeOK, NEW r \in Requests, NEW u \in Users, NEW a \in Accounts,
         NEW step \in Steps, Write(r, u, a, step)
  PROVE  /\ rows' \in [Users -> Accounts] /\ rows'[u] = a
         /\ \A v \in Users \ {u} : rows'[v] = rows[v]
         /\ req' \in [Requests -> RequestType]
         /\ step = "idle" => req'[r] = Idle
         /\ step # "idle" => /\ req'[r].step = step
                             /\ \A f \in {"op", "user", "actor", "value", "key"} :
                                  req'[r][f] = req[r][f]
         /\ since' \in [Requests -> SUBSET {"session", "reset", "admins"}]
         /\ step # "idle" => since'[r] = IF req[r].step = "idle" THEN {} ELSE since[r]
         /\ \A q \in Requests \ {r} :
              /\ req'[q] = req[q]
              /\ req[q].step # "idle" => since'[q] = since[q] \union Kinds(q, u, a)
         /\ ended' \subseteq 1 .. MaxSignIns + 1
<1>1. /\ rows' \in [Users -> Accounts] /\ rows'[u] = a
      /\ \A v \in Users \ {u} : rows'[v] = rows[v]
  BY DEF TypeOK, Write
<1>2. req' \in [Requests -> RequestType]
  <2>1. CASE step = "idle"
    BY <2>1, IdleType DEF TypeOK, Write, RequestType
  <2>2. CASE step # "idle"
    BY ZenonT(30), <2>2 DEF TypeOK, Write, RequestType
  <2> QED
    BY <2>1, <2>2
<1>3. /\ step = "idle" => req'[r] = Idle
      /\ step # "idle" => /\ req'[r].step = step
                          /\ \A f \in {"op", "user", "actor", "value", "key"} :
                               req'[r][f] = req[r][f]
      /\ \A q \in Requests \ {r} : req'[q] = req[q]
  BY DEF TypeOK, Write
<1>4. since' \in [Requests -> SUBSET {"session", "reset", "admins"}]
  <2>1. \A q \in Requests : Kinds(q, u, a) \subseteq {"session", "reset", "admins"}
    BY KindsAre
  <2> QED
    BY <2>1 DEF TypeOK, Write
<1>5. /\ step # "idle" => since'[r] = IF req[r].step = "idle" THEN {} ELSE since[r]
      /\ \A q \in Requests \ {r} :
           req[q].step # "idle" => since'[q] = since[q] \union Kinds(q, u, a)
  BY DEF Write
<1>6. ended' \subseteq 1 .. MaxSignIns + 1
  <2>1. rows[u].session \in 0 .. MaxSignIns + 1
    BY DEF TypeOK, Accounts
  <2> QED
    BY <2>1, Bounds DEF TypeOK, Write, None
<1> QED
  BY <1>1, <1>2, <1>3, <1>4, <1>5, <1>6

(* A write of r leaves true what the other requests rely on: whatever they *)
(* read and it changes is in their "since".                                *)
LEMMA WriteKeepsOthers ==
  ASSUME IInv, NEW r \in Requests, NEW u \in Users, NEW a \in Accounts,
         NEW step \in Steps, Write(r, u, a, step),
         \/ links' = links /\ a.reset \in {None, rows[u].reset}
         \/ links' = links + 1 /\ a.reset = links + 1,
         NEW q \in Requests \ {r}
  PROVE  RequestOK(q)'
<1>1. /\ rows' \in [Users -> Accounts] /\ rows'[u] = a
      /\ \A v \in Users \ {u} : rows'[v] = rows[v]
      /\ req'[q] = req[q]
      /\ req[q].step # "idle" => since'[q] = since[q] \union Kinds(q, u, a)
  <2>1. TypeOK
    BY DEF IInv
  <2> QED
    BY <2>1, WriteEffect
<1>2. RequestOK(q) /\ req[q] \in RequestType /\ rows \in [Users -> Accounts] /\ links \in Nat
  BY Bounds DEF IInv, TypeOK, RequestType
<1>3. ShapeOK(q)'
  BY <1>1, <1>2 DEF RequestOK, ShapeOK, At, Own
<1>4. ActorOK(q)'
  <2> SUFFICES ASSUME req[q].step \in {"read", "count", "write"}, req[q].op \in AdminOps,
                      "admins" \notin since'[q]
               PROVE  rows'[req[q].actor].role = "SUPER_ADMIN" /\ rows'[req[q].actor].active
    BY <1>1, <1>2 DEF ActorOK, LiveAdmins, RequestType
  <2>1. "admins" \notin since[q] /\ "admins" \notin Kinds(q, u, a)
    BY <1>1
  <2>2. rows[req[q].actor].role = "SUPER_ADMIN" /\ rows[req[q].actor].active
    BY <1>2, <2>1 DEF RequestOK, ActorOK, LiveAdmins
  <2> QED
    BY <1>1, <1>2, <2>1, <2>2, KindsAre DEF RequestType
<1>5. PromotionOK(q)'
  <2> SUFFICES ASSUME At(q, "login", "promote"), "admins" \notin since'[q],
                      NEW v \in Users, rows'[v].exists, rows'[v].role = "SUPER_ADMIN",
                      ~rows'[v].deleted
               PROVE  FALSE
    BY <1>1 DEF PromotionOK, ExistingAdmin, At
  <2>1. "admins" \notin since[q] /\ "admins" \notin Kinds(q, u, a)
    BY <1>1 DEF At
  <2>2. ~(rows[v].exists /\ rows[v].role = "SUPER_ADMIN" /\ ~rows[v].deleted)
    BY <1>2, <2>1 DEF RequestOK, PromotionOK, ExistingAdmin
  <2>3. v = u
    BY <1>1, <2>2
  <2>4. rows[u].role = "SUPER_ADMIN" /\ ~rows[u].deleted
    BY <1>1, <2>1, <2>3, KindsAre
  <2>5. rows[u].exists
    BY <2>4 DEF IInv, TypeOK, NoAccount
  <2> QED
    BY <2>2, <2>3, <2>4, <2>5
<1>6. TokenOK(q)'
  BY <1>1, <1>2, KindsAre DEF RequestOK, TokenOK, At, RequestType
<1>7. LinkOK(q)'
  <2> SUFFICES ASSUME At(q, "reset", "write")
               PROVE  /\ req[q].key \in 1 .. links'
                      /\ \A v \in Users : rows'[v].reset = req[q].key => v = req[q].user
                      /\ "reset" \notin since'[q] => rows'[req[q].user].reset = req[q].key
    BY <1>1 DEF LinkOK, At
  <2>1. /\ req[q].key \in 1 .. links
        /\ \A v \in Users : rows[v].reset = req[q].key => v = req[q].user
        /\ "reset" \notin since[q] => rows[req[q].user].reset = req[q].key
    BY <1>2 DEF RequestOK, LinkOK
  <2>2. req[q].key \in 1 .. links'
    BY <1>2, <2>1
  <2>3. a.reset = req[q].key => rows[u].reset = req[q].key
    BY <1>2, <2>1 DEF None
  <2>4. \A v \in Users : rows'[v].reset = req[q].key => v = req[q].user
    BY <1>1, <2>1, <2>3
  <2>5. "reset" \notin since'[q] => rows'[req[q].user].reset = req[q].key
    BY <1>1, <1>2, <2>1, KindsAre DEF At, RequestType
  <2> QED
    BY <2>2, <2>4, <2>5
<1> QED
  BY <1>3, <1>4, <1>5, <1>6, <1>7 DEF RequestOK

-----------------------------------------------------------------------------
(* A write keeps the invariant when the account it stores is one, carries  *)
(* no reset link but its own or a new one, and a link that is used is      *)
(* cleared with it.                                                        *)
LEMMA WriteKeeps ==
  ASSUME IInv, NEW r \in Requests, NEW u \in Users, NEW a \in Accounts,
         NEW step \in {"idle", "signIn"}, Write(r, u, a, step),
         a.exists \/ a = NoAccount,
         signer' \in Seq(Users), Len(signer') <= MaxSignIns, setup' \in BOOLEAN,
         \/ links' = links /\ a.reset \in {None, rows[u].reset}
         \/ links' = links + 1 /\ a.reset = links + 1 /\ links < MaxResets,
         \/ uses' = uses
         \/ /\ a.reset = None
            /\ \E n \in 1 .. links : /\ uses' = [uses EXCEPT ![n] = @ + 1]
                                     /\ \A v \in Users : rows[v].reset = n => v = u
  PROVE  IInv'
<1>1. TypeOK /\ LinksFresh /\ step \in Steps
  BY DEF IInv, Steps
<1>2. /\ rows' \in [Users -> Accounts] /\ rows'[u] = a
      /\ \A v \in Users \ {u} : rows'[v] = rows[v]
      /\ req' \in [Requests -> RequestType]
      /\ step = "idle" => req'[r] = Idle
      /\ step # "idle" => req'[r].step = step
      /\ since' \in [Requests -> SUBSET {"session", "reset", "admins"}]
      /\ ended' \subseteq 1 .. MaxSignIns + 1
  BY <1>1, WriteEffect
<1>3. /\ links \in 0 .. MaxResets /\ links' \in 0 .. MaxResets /\ links <= links'
      /\ uses \in [1 .. MaxResets -> Nat] /\ uses' \in [1 .. MaxResets -> Nat]
      /\ \A v \in Users : rows[v].reset \in 0 .. MaxResets
  <2>1. links \in 0 .. MaxResets /\ uses \in [1 .. MaxResets -> Nat] /\ rows \in [Users -> Accounts]
    BY <1>1 DEF TypeOK
  <2>2. links' \in 0 .. MaxResets /\ links <= links'
    BY <2>1, Bounds
  <2>3. uses' \in [1 .. MaxResets -> Nat]
    <3>1. CASE uses' = uses
      BY <2>1, <3>1
    <3>2. ASSUME NEW n \in 1 .. links, uses' = [uses EXCEPT ![n] = @ + 1]
          PROVE  uses' \in [1 .. MaxResets -> Nat]
      BY <2>1, <3>2, Bounds
    <3> QED
      BY <3>1, <3>2
  <2> QED
    BY <2>1, <2>2, <2>3 DEF Accounts
<1>4. TypeOK'
  <2>1. \A v \in Users : rows'[v].exists \/ rows'[v] = NoAccount
    BY <1>1, <1>2 DEF TypeOK
  <2> QED
    BY <1>2, <1>3, <2>1 DEF TypeOK, RequestType
<1>5. LinksFresh'
  <2>0. /\ links' = links => a.reset \in {None, rows[u].reset}
        /\ links' # links => links' = links + 1 /\ a.reset = links + 1
    BY <1>3, Bounds
  <2>1. \A v \in Users : rows'[v].reset <= links'
    <3>1. \A v \in Users : rows[v].reset <= links
      BY <1>1 DEF LinksFresh
    <3>2. a.reset <= links'
      BY <1>3, <2>0, <3>1, Bounds DEF None
    <3>3. \A v \in Users \ {u} : rows'[v].reset <= links'
      BY <1>2, <1>3, <3>1, Bounds
    <3> QED
      BY <1>2, <3>2, <3>3
  <2>2. ASSUME NEW v \in Users, NEW w \in Users, rows'[v].reset = rows'[w].reset,
               rows'[v].reset # None
        PROVE  v = w
    <3>1. rows[u].reset <= links /\ rows[v].reset <= links /\ rows[w].reset <= links
      BY <1>1 DEF LinksFresh
    <3>2. rows[v].reset = rows[w].reset /\ rows[v].reset # None => v = w
      BY <1>1 DEF LinksFresh
    <3>3. CASE links' = links
      <4>1. rows[v].reset = rows'[v].reset /\ rows[w].reset = rows'[w].reset
        <5>1. \A x \in Users : rows'[x].reset # None => rows[x].reset = rows'[x].reset
          BY <1>2, <2>0, <3>3
        <5> QED
          BY <2>2, <5>1
      <4> QED
        BY <2>2, <3>2, <4>1
    <3>4. CASE links' # links
      <4>1. a.reset = links + 1 /\ rows[v].reset # links + 1 /\ rows[w].reset # links + 1
        BY <1>3, <2>0, <3>1, <3>4, Bounds
      <4> QED
        BY <1>2, <2>2, <3>2, <4>1
    <3> QED
      BY <3>3, <3>4
  <2>3. ASSUME NEW n \in DOMAIN uses', n > links' PROVE uses'[n] = 0
    <3>1. n \in 1 .. MaxResets /\ n > links /\ n \in DOMAIN uses
      BY <1>3, <2>3, Bounds
    <3>2. uses[n] = 0
      BY <1>1, <3>1 DEF LinksFresh
    <3>3. ASSUME NEW m \in 1 .. links, uses' = [uses EXCEPT ![m] = @ + 1]
          PROVE  uses'[n] = 0
      BY <1>3, <3>1, <3>2, <3>3, Bounds
    <3> QED
      BY <3>2, <3>3
  <2>4. \A v \in Users : rows'[v].reset # None => uses'[rows'[v].reset] = 0
    <3> SUFFICES ASSUME NEW v \in Users, rows'[v].reset # None
                 PROVE  uses'[rows'[v].reset] = 0
      OBVIOUS
    <3>1. CASE v # u
      <4>1. rows'[v].reset = rows[v].reset /\ rows[v].reset \in 1 .. MaxResets
        BY <1>2, <1>3, <3>1, Bounds DEF None
      <4>2. uses[rows[v].reset] = 0
        BY <1>1, <4>1 DEF LinksFresh, None
      <4> QED
        BY <1>3, <3>1, <4>1, <4>2
    <3>2. CASE v = u /\ links' = links
      <4>1. a.reset = rows[u].reset /\ a.reset \in 1 .. MaxResets /\ uses' = uses
        BY <1>2, <1>3, <3>2, Bounds DEF None
      <4> QED
        BY <1>1, <1>2, <3>2, <4>1 DEF LinksFresh, None
    <3>3. CASE v = u /\ links' # links
      <4>1. a.reset = links + 1 /\ links + 1 \in 1 .. MaxResets
        BY <1>3, <3>3, Bounds
      <4>2. uses' = uses
        BY <1>3, <4>1, Bounds DEF None
      <4>3. uses[links + 1] = 0
        BY <1>1, <1>3, <4>1, Bounds DEF LinksFresh
      <4> QED
        BY <1>2, <3>3, <4>1, <4>2, <4>3
    <3> QED
      BY <3>1, <3>2, <3>3
  <2> QED
    BY <2>1, <2>2, <2>3, <2>4 DEF LinksFresh
<1>6. RequestOK(r)'
  <2>1. req'[r].step \in {"idle", "signIn"}
    BY <1>2, IdleType
  <2> QED
    BY <2>1 DEF RequestOK, ShapeOK, ActorOK, PromotionOK, TokenOK, LinkOK, At
<1>7. ASSUME NEW q \in Requests \ {r} PROVE RequestOK(q)'
  BY <1>1, WriteKeepsOthers
<1> QED
  BY <1>4, <1>5, <1>6, <1>7 DEF IInv

LEMMA AnsweredKeeps ==
  ASSUME IInv, NEW r \in Requests, Answered(r),
         UNCHANGED <<rows, signer, links, ended, uses>>, setup' \in BOOLEAN
  PROVE  IInv'
<1>1. /\ req' \in [Requests -> RequestType] /\ req'[r] = Idle
      /\ since' \in [Requests -> SUBSET {"session", "reset", "admins"}]
      /\ \A q \in Requests \ {r} : req'[q] = req[q] /\ since'[q] = since[q]
  BY IdleType DEF IInv, TypeOK, RequestType, Answered
<1>2. RequestOK(r)'
  BY <1>1, IdleType DEF RequestOK, ShapeOK, ActorOK, PromotionOK, TokenOK, LinkOK, At
<1> QED
  BY <1>1, <1>2, QuietKeeps

(* A request goes on without a write.                                      *)
LEMMA GoKeeps ==
  ASSUME IInv, NEW r \in Requests, NEW step \in Steps, Go(r, step),
         UNCHANGED <<rows, setup, signer, links, ended, uses, since>>, RequestOK(r)'
  PROVE  IInv'
<1>1. req' \in [Requests -> RequestType] /\ \A q \in Requests \ {r} : req'[q] = req[q]
  BY DEF IInv, TypeOK, RequestType, Go
<1>2. since' \in [Requests -> SUBSET {"session", "reset", "admins"}] /\ setup' \in BOOLEAN
  BY DEF IInv, TypeOK
<1> QED
  BY <1>1, <1>2, QuietKeeps

(* A new request that is no administrator's.                               *)
LEMMA BeginKeeps ==
  ASSUME IInv, NEW r \in Requests, NEW u \in Users, NEW op, NEW step,
         NEW key \in 0 .. MaxSignIns + MaxResets, Begin(r, op, step, u, key),
         <<op, step>> \in {<<"login", "signIn">>, <<"login", "bootstrap">>, <<"sso", "signIn">>,
                           <<"sso", "create">>, <<"register", "create">>, <<"setup", "setup">>,
                           <<"refresh", "write">>, <<"logout", "write">>,
                           <<"forgot", "write">>, <<"reset", "write">>},
         op = "refresh" => rows[u].session = key,
         op = "reset" => rows[u].reset = key /\ key # None,
         UNCHANGED <<rows, signer, links, ended, uses>>, setup' \in BOOLEAN
  PROVE  IInv'
<1> DEFINE x == [step |-> step, op |-> op, user |-> u, actor |-> u, value |-> "-", key |-> key]
<1>1. x \in RequestType
  BY DEF RequestType, Steps, Ops, AdminOps, Values
<1>2. /\ req' \in [Requests -> RequestType] /\ req'[r] = x
      /\ since' \in [Requests -> SUBSET {"session", "reset", "admins"}] /\ since'[r] = {}
      /\ \A q \in Requests \ {r} : req'[q] = req[q] /\ since'[q] = since[q]
  BY <1>1 DEF IInv, TypeOK, RequestType, Begin
<1>3. RequestOK(r)'
  <2>1. ShapeOK(r)'
    <3>1. rows[u].session \in 0 .. MaxSignIns + 1
      BY DEF IInv, TypeOK, Accounts
    <3> QED
      BY <1>2, <3>1 DEF ShapeOK, At, Own
  <2>2. ActorOK(r)' /\ PromotionOK(r)'
    BY <1>2 DEF ActorOK, PromotionOK, At, AdminOps
  <2>3. TokenOK(r)'
    BY <1>2 DEF TokenOK, At
  <2>4. op = "reset" => /\ key \in 1 .. links
                        /\ \A v \in Users : rows[v].reset = key => v = u
    <3> SUFFICES ASSUME op = "reset"
                 PROVE  key \in 1 .. links /\ \A v \in Users : rows[v].reset = key => v = u
      OBVIOUS
    <3>1. rows[u].reset = key /\ key \in Nat /\ key # 0 /\ links \in Nat
      BY Bounds DEF None, IInv, TypeOK
    <3> QED
      BY <3>1 DEF IInv, LinksFresh, None
  <2>5. LinkOK(r)'
    BY <1>2, <2>4 DEF LinkOK, At
  <2> QED
    BY <2>1, <2>2, <2>3, <2>5 DEF RequestOK
<1> QED
  BY <1>2, <1>3, QuietKeeps

-----------------------------------------------------------------------------
\* The steps that write no row.
LEMMA BeginsKeepIInv ==
  ASSUME IInv, NEW r \in Requests,
         \/ Login(r) \/ SsoLogin(r) \/ Register(r) \/ SetupCheck(r) \/ Refresh(r)
         \/ Forgot(r) \/ Reset(r)
  PROVE  IInv'
<1>1. None \in 0 .. MaxSignIns + MaxResets /\ setup \in BOOLEAN
  BY Bounds DEF None, IInv, TypeOK
<1>2. CASE Login(r)
  BY <1>1, <1>2, BeginKeeps DEF Login
<1>3. CASE SsoLogin(r)
  BY <1>1, <1>3, BeginKeeps DEF SsoLogin
<1>4. CASE Register(r)
  BY <1>1, <1>4, BeginKeeps DEF Register
<1>5. CASE SetupCheck(r)
  BY <1>1, <1>5, BeginKeeps DEF SetupCheck
<1>6. CASE Refresh(r)
  <2>1. \A n \in DOMAIN signer : signer[n] \in Users /\ n \in 0 .. MaxSignIns + MaxResets
    BY Bounds DEF IInv, TypeOK
  <2> QED
    BY <1>1, <1>6, <2>1, BeginKeeps DEF Refresh
<1>7. CASE Forgot(r)
  BY <1>1, <1>7, BeginKeeps DEF Forgot
<1>8. CASE Reset(r)
  <2>1. \A u \in Users : rows[u].reset \in 0 .. MaxSignIns + MaxResets
    BY Bounds DEF IInv, TypeOK, Accounts
  <2> QED
    BY <1>1, <1>8, <2>1, BeginKeeps DEF Reset
<1> QED
  BY <1>2, <1>3, <1>4, <1>5, <1>6, <1>7, <1>8

LEMMA FindAdminKeepsIInv ==
  ASSUME IInv, NEW r \in Requests, FindAdmin(r)
  PROVE  IInv'
<1> DEFINE step == IF ExistingAdmin THEN "signIn" ELSE "promote"
<1>1. step \in Steps /\ Go(r, step) /\ UNCHANGED <<rows, setup, signer, links, ended, uses, since>>
  BY DEF FindAdmin, Steps
<1>2. req'[r].step = step /\ req'[r].op = "login"
  BY <1>1 DEF FindAdmin, At, Go, IInv, TypeOK
<1>3. step = "promote" => ~ExistingAdmin'
  BY <1>1 DEF ExistingAdmin
<1>4. RequestOK(r)'
  BY <1>2, <1>3 DEF RequestOK, ShapeOK, ActorOK, PromotionOK, TokenOK, LinkOK, At
<1> QED
  BY <1>1, <1>4, GoKeeps

LEMMA AuthenticateKeepsIInv ==
  ASSUME IInv, NEW r \in Requests, Authenticate(r)
  PROVE  IInv'
<1>1. PICK a \in Users :
        /\ rows[a].exists /\ rows[a].active
        /\ \/ Begin(r, "logout", "write", a, None)
           \/ /\ rows[a].role = "SUPER_ADMIN"
              /\ \E op \in AdminOps, u \in Users, v \in Values :
                   /\ req' = [req EXCEPT ![r] = [step |-> "read", op |-> op, user |-> u,
                                                 actor |-> a, value |-> v, key |-> None]]
                   /\ since' = [since EXCEPT ![r] = {}]
  BY DEF Authenticate, Values, Roles
<1>2. None \in 0 .. MaxSignIns + MaxResets /\ setup \in BOOLEAN
  BY Bounds DEF None, IInv, TypeOK
<1>3. UNCHANGED <<rows, setup, signer, links, ended, uses>>
  BY DEF Authenticate
<1>4. CASE Begin(r, "logout", "write", a, None)
  BY <1>2, <1>3, <1>4, BeginKeeps
<1>5. ASSUME NEW op \in AdminOps, NEW u \in Users, NEW v \in Values,
             req' = [req EXCEPT ![r] = [step |-> "read", op |-> op, user |-> u,
                                        actor |-> a, value |-> v, key |-> None]],
             since' = [since EXCEPT ![r] = {}], rows[a].role = "SUPER_ADMIN"
      PROVE  IInv'
  <2> DEFINE x == [step |-> "read", op |-> op, user |-> u, actor |-> a, value |-> v,
                   key |-> None]
  <2>1. x \in RequestType
    BY <1>2 DEF RequestType, Steps, Ops
  <2>2. /\ req' \in [Requests -> RequestType] /\ req'[r] = x
        /\ since' \in [Requests -> SUBSET {"session", "reset", "admins"}]
        /\ \A q \in Requests \ {r} : req'[q] = req[q] /\ since'[q] = since[q]
    BY <1>5, <2>1 DEF IInv, TypeOK, RequestType
  <2>3. a \in LiveAdmins'
    BY <1>1, <1>3, <1>5 DEF LiveAdmins
  <2>4. RequestOK(r)'
    BY <2>2, <2>3 DEF RequestOK, ShapeOK, ActorOK, PromotionOK, TokenOK, LinkOK, At
  <2> QED
    BY <1>2, <1>3, <2>2, <2>4, QuietKeeps
<1> QED
  BY <1>1, <1>4, <1>5

LEMMA ReadTargetKeepsIInv ==
  ASSUME IInv, NEW r \in Requests, ReadTarget(r)
  PROVE  IInv'
<1>1. UNCHANGED <<rows, setup, signer, links, ended, uses>> /\ setup' \in BOOLEAN
  BY DEF ReadTarget, IInv, TypeOK
<1>2. CASE Answered(r)
  BY <1>1, <1>2, AnsweredKeeps
<1>3. CASE ~Answered(r)
  <2> DEFINE step == IF TakesAdmin(r) THEN "count" ELSE "write"
  <2>1. ~Own(r) /\ step \in Steps /\ Go(r, step) /\ UNCHANGED since
    BY <1>3 DEF ReadTarget, Steps
  <2>2. /\ req'[r].step = step /\ req'[r].op = req[r].op
        /\ req'[r].actor = req[r].actor /\ req'[r].user = req[r].user
    BY <2>1 DEF Go, IInv, TypeOK
  <2>3. req[r].op \in AdminOps /\ ActorOK(r) /\ req[r].step = "read"
    BY DEF ReadTarget, IInv, RequestOK, ShapeOK
  <2>4. ShapeOK(r)'
    BY <2>1, <2>2, <2>3 DEF ShapeOK, At, Own, TakesAdmin, AdminOps
  <2>5. ActorOK(r)'
    BY <1>1, <2>1, <2>2, <2>3 DEF ActorOK, LiveAdmins
  <2>6. PromotionOK(r)' /\ TokenOK(r)' /\ LinkOK(r)'
    BY <2>2, <2>3 DEF PromotionOK, TokenOK, LinkOK, At, AdminOps
  <2> QED
    BY <1>1, <2>1, <2>4, <2>5, <2>6, GoKeeps DEF RequestOK
<1> QED
  BY <1>2, <1>3

LEMMA CountAdminsKeepsIInv ==
  ASSUME IInv, NEW r \in Requests, CountAdmins(r)
  PROVE  IInv'
<1>1. UNCHANGED <<rows, setup, signer, links, ended, uses>> /\ setup' \in BOOLEAN
  BY DEF CountAdmins, IInv, TypeOK
<1>2. CASE Answered(r)
  BY <1>1, <1>2, AnsweredKeeps
<1>3. CASE ~Answered(r)
  <2>1. "write" \in Steps /\ Go(r, "write") /\ UNCHANGED since
    BY <1>3 DEF CountAdmins, Steps
  <2>2. /\ req'[r].step = "write" /\ req'[r].op = req[r].op
        /\ req'[r].actor = req[r].actor /\ req'[r].user = req[r].user
    BY <2>1 DEF Go, IInv, TypeOK
  <2>3. req[r].op \in {"role", "delete"} /\ ActorOK(r) /\ ShapeOK(r) /\ req[r].step = "count"
    BY DEF CountAdmins, IInv, RequestOK, ShapeOK
  <2>4. ShapeOK(r)'
    BY <2>2, <2>3 DEF ShapeOK, At, Own, AdminOps
  <2>5. ActorOK(r)'
    BY <1>1, <2>1, <2>2, <2>3 DEF ActorOK, LiveAdmins
  <2>6. PromotionOK(r)' /\ TokenOK(r)' /\ LinkOK(r)'
    BY <2>2, <2>3 DEF PromotionOK, TokenOK, LinkOK, At
  <2> QED
    BY <1>1, <2>1, <2>4, <2>5, <2>6, GoKeeps DEF RequestOK
<1> QED
  BY <1>2, <1>3

LEMMA OwnsOrganizationsKeepsIInv ==
  ASSUME IInv, NEW r \in Requests, OwnsOrganizations(r)
  PROVE  IInv'
<1>1. setup' \in BOOLEAN
  BY DEF OwnsOrganizations, IInv, TypeOK
<1> QED
  BY <1>1, AnsweredKeeps DEF OwnsOrganizations

-----------------------------------------------------------------------------
\* The steps that write a row, and the account each of them stores.
LEMMA Row ==
  ASSUME TypeOK, NEW r \in Requests
  PROVE  /\ req[r].user \in Users /\ req[r].actor \in Users /\ rows[req[r].user] \in Accounts
         /\ rows[req[r].user].exists \/ rows[req[r].user] = NoAccount
BY DEF TypeOK

LEMMA PromotedRow ==
  ASSUME NEW x \in Accounts, NEW v \in Roles, NEW y, y = [x EXCEPT !.role = v]
  PROVE  /\ y \in Accounts /\ y.role = v
         /\ y.exists = x.exists /\ y.active = x.active /\ y.deleted = x.deleted
         /\ y.reset = x.reset /\ y.session = x.session
BY DEF Accounts

LEMMA SessionRow ==
  ASSUME NEW x \in Accounts, NEW n \in 0 .. MaxSignIns + 1, NEW y, y = [x EXCEPT !.session = n]
  PROVE  /\ y \in Accounts /\ y.role = x.role
         /\ y.exists = x.exists /\ y.active = x.active /\ y.deleted = x.deleted
         /\ y.reset = x.reset /\ y.session = n
BY DEF Accounts

LEMMA ResetRow ==
  ASSUME NEW x \in Accounts, NEW n \in 0 .. MaxResets, NEW y, y = [x EXCEPT !.reset = n]
  PROVE  /\ y \in Accounts /\ y.role = x.role
         /\ y.exists = x.exists /\ y.active = x.active /\ y.deleted = x.deleted
         /\ y.reset = n /\ y.session = x.session
BY DEF Accounts

LEMMA PasswordRow ==
  ASSUME NEW x \in Accounts, NEW y,
         y = [x EXCEPT !.password = TRUE, !.reset = None, !.session = None]
  PROVE  /\ y \in Accounts /\ y.role = x.role
         /\ y.exists = x.exists /\ y.active = x.active /\ y.deleted = x.deleted
         /\ y.reset = None /\ y.session = None
BY NoneType DEF Accounts

LEMMA NewRow ==
  ASSUME NEW b \in BOOLEAN, NEW y, y = NewAccount(b)
  PROVE  /\ y \in Accounts /\ y.role = "MEMBER" /\ y.exists /\ y.active /\ ~y.deleted
         /\ y.reset = None /\ y.session = None
BY NoneType DEF NewAccount, NoAccount, Accounts, Roles

LEMMA SetupRow ==
  ASSUME NEW y,
         y = [NewAccount(TRUE) EXCEPT !.role = "SUPER_ADMIN", !.session = SetupSession]
  PROVE  /\ y \in Accounts /\ y.role = "SUPER_ADMIN" /\ y.exists /\ y.active /\ ~y.deleted
         /\ y.reset = None /\ y.session = SetupSession
BY NoneType DEF NewAccount, NoAccount, Accounts, Roles

\* An administrator's change stores an account without a new link or session,
\* and only a deletion of the row frees it.
LEMMA ChangedRow ==
  ASSUME NEW x \in Accounts, x.exists, NEW r \in Requests, NEW y, y = Changed(r, x),
         req[r] \in RequestType, req[r].op \in AdminOps \ {"sendReset"}
  PROVE  /\ y \in Accounts
         /\ y.exists \/ y = NoAccount
         /\ y.reset \in {None, x.reset} /\ y.session \in {None, x.session}
         /\ y.role = "SUPER_ADMIN" /\ y.role # x.role
            => req[r].op \in {"role", "patch"} /\ y.active = x.active
<1>1. CASE req[r].op \in {"role", "patch"} /\ req[r].value \in Roles
  <2>1. y = [x EXCEPT !.role = req[r].value]
    BY <1>1 DEF Changed
  <2> QED
    BY <1>1, <2>1, PromotedRow
<1>2. CASE req[r].op = "patch" /\ req[r].value \notin Roles
  BY <1>2 DEF Changed, Accounts
<1>3. CASE req[r].op = "status" /\ req[r].value = "ACTIVE"
  BY <1>3 DEF Changed, Accounts
<1>4. CASE req[r].op = "status" /\ req[r].value # "ACTIVE"
  BY <1>4, NoneType DEF Changed, Accounts
<1>5. CASE req[r].op = "delete"
  BY <1>5, NoneType DEF Changed, Accounts
<1>6. CASE req[r].op = "remove" \/ (req[r].op = "role" /\ req[r].value \notin Roles)
  BY <1>6, NoAccountType DEF Changed, NoAccount
<1> QED
  BY <1>1, <1>2, <1>3, <1>4, <1>5, <1>6 DEF AdminOps

LEMMA PromoteKeepsIInv ==
  ASSUME IInv, NEW r \in Requests, Promote(r)
  PROVE  IInv'
<1>1. setup' \in BOOLEAN /\ signer' \in Seq(Users) /\ Len(signer') <= MaxSignIns
  BY DEF Promote, IInv, TypeOK
<1>2. CASE Missing(r)
  BY <1>1, <1>2, AnsweredKeeps DEF Promote, Missing
<1>3. CASE ~Missing(r)
  <2> DEFINE u == req[r].user
             a == [rows[u] EXCEPT !.role = "SUPER_ADMIN"]
  <2>1. u \in Users /\ rows[u] \in Accounts /\ rows[u].exists /\ Write(r, u, a, "signIn")
    BY <1>3, Row DEF Promote, IInv
  <2>2. a \in Accounts /\ a.exists /\ a.reset = rows[u].reset
    BY <2>1, PromotedRow DEF Roles
  <2> HIDE DEF a
  <2> QED
    BY <1>1, <2>1, <2>2, WriteKeeps DEF Promote
<1> QED
  BY <1>2, <1>3

LEMMA CreateKeepsIInv ==
  ASSUME IInv, NEW r \in Requests, Create(r)
  PROVE  IInv'
<1> DEFINE u == req[r].user
           a == NewAccount(req[r].op = "register")
<1>1. setup' \in BOOLEAN /\ signer' \in Seq(Users) /\ Len(signer') <= MaxSignIns
  BY DEF Create, IInv, TypeOK
<1>2. CASE rows[u].exists
  BY <1>1, <1>2, AnsweredKeeps DEF Create
<1>3. CASE ~rows[u].exists
  <2>1. u \in Users /\ Write(r, u, a, "signIn")
    BY <1>3, Row DEF Create, IInv
  <2>2. a \in Accounts /\ a.exists /\ a.reset = None
    BY NewRow
  <2> HIDE DEF a
  <2> QED
    BY <1>1, <2>1, <2>2, WriteKeeps DEF Create
<1> QED
  BY <1>2, <1>3

LEMMA SignInKeepsIInv ==
  ASSUME IInv, NEW r \in Requests, SignIn(r)
  PROVE  IInv'
<1>1. setup' \in BOOLEAN
  BY DEF SignIn, IInv, TypeOK
<1>2. CASE Missing(r) /\ UNCHANGED signer
  BY <1>1, <1>2, AnsweredKeeps DEF SignIn, Missing, IInv, TypeOK
<1>3. CASE ~(Missing(r) /\ UNCHANGED signer)
  <2> DEFINE u == req[r].user
             a == [rows[u] EXCEPT !.session = Len(signer) + 1]
  <2>1. signer \in Seq(Users) /\ Len(signer) \in Nat /\ Len(signer) < MaxSignIns
    BY DEF SignIn, IInv, TypeOK
  <2>2. /\ u \in Users /\ rows[u] \in Accounts /\ rows[u].exists /\ Write(r, u, a, "idle")
        /\ signer' = Append(signer, u)
    BY <1>3, Row DEF SignIn, IInv
  <2>3. Len(signer) + 1 \in 0 .. MaxSignIns + 1
    BY <2>1, Bounds
  <2>4. a \in Accounts /\ a.exists /\ a.reset = rows[u].reset
    BY <2>2, <2>3, SessionRow
  <2>5. signer' \in Seq(Users) /\ Len(signer') <= MaxSignIns
    BY <2>1, <2>2, Bounds
  <2> HIDE DEF a
  <2> QED
    BY <1>1, <2>2, <2>4, <2>5, WriteKeeps DEF SignIn
<1> QED
  BY <1>2, <1>3

LEMMA SetupCreateKeepsIInv ==
  ASSUME IInv, NEW r \in Requests, SetupCreate(r)
  PROVE  IInv'
<1> DEFINE u == req[r].user
           a == [NewAccount(TRUE) EXCEPT !.role = "SUPER_ADMIN", !.session = SetupSession]
<1>1. setup' \in BOOLEAN /\ signer' \in Seq(Users) /\ Len(signer') <= MaxSignIns
  BY DEF SetupCreate, IInv, TypeOK
<1>2. CASE rows[u].exists
  BY <1>1, <1>2, AnsweredKeeps DEF SetupCreate
<1>3. CASE ~rows[u].exists
  <2>1. u \in Users /\ Write(r, u, a, "idle")
    BY <1>3, Row DEF SetupCreate, IInv
  <2>2. a \in Accounts /\ a.exists /\ a.reset = None
    BY SetupRow
  <2> HIDE DEF a
  <2> QED
    BY <1>1, <2>1, <2>2, WriteKeeps DEF SetupCreate
<1> QED
  BY <1>2, <1>3

LEMMA RefreshWriteKeepsIInv ==
  ASSUME IInv, NEW r \in Requests, RefreshWrite(r)
  PROVE  IInv'
<1>1. setup' \in BOOLEAN /\ signer' \in Seq(Users) /\ Len(signer') <= MaxSignIns
  BY DEF RefreshWrite, IInv, TypeOK
<1>2. CASE Missing(r)
  BY <1>1, <1>2, AnsweredKeeps DEF RefreshWrite, Missing
<1>3. CASE ~Missing(r)
  <2> DEFINE u == req[r].user
             a == [rows[u] EXCEPT !.session = req[r].key]
  <2>1. u \in Users /\ rows[u] \in Accounts /\ rows[u].exists /\ Write(r, u, a, "idle")
    BY <1>3, Row DEF RefreshWrite, IInv
  <2>2. req[r].key \in 0 .. MaxSignIns + 1
    BY DEF RefreshWrite, IInv, RequestOK, ShapeOK
  <2>3. a \in Accounts /\ a.exists /\ a.reset = rows[u].reset
    BY <2>1, <2>2, SessionRow
  <2> HIDE DEF a
  <2> QED
    BY <1>1, <2>1, <2>3, WriteKeeps DEF RefreshWrite
<1> QED
  BY <1>2, <1>3

LEMMA LogoutKeepsIInv ==
  ASSUME IInv, NEW r \in Requests, Logout(r)
  PROVE  IInv'
<1>1. setup' \in BOOLEAN /\ signer' \in Seq(Users) /\ Len(signer') <= MaxSignIns
  BY DEF Logout, IInv, TypeOK
<1>2. CASE Missing(r)
  BY <1>1, <1>2, AnsweredKeeps DEF Logout, Missing
<1>3. CASE ~Missing(r)
  <2> DEFINE u == req[r].user
             a == [rows[u] EXCEPT !.session = None]
  <2>1. u \in Users /\ rows[u] \in Accounts /\ rows[u].exists /\ Write(r, u, a, "idle")
    BY <1>3, Row DEF Logout, IInv
  <2>2. a \in Accounts /\ a.exists /\ a.reset = rows[u].reset
    BY <2>1, NoneType, SessionRow
  <2> HIDE DEF a
  <2> QED
    BY <1>1, <2>1, <2>2, WriteKeeps DEF Logout
<1> QED
  BY <1>2, <1>3

LEMMA SendResetKeepsIInv ==
  ASSUME IInv, NEW r \in Requests, SendReset(r)
  PROVE  IInv'
<1>1. setup' \in BOOLEAN /\ signer' \in Seq(Users) /\ Len(signer') <= MaxSignIns
  BY DEF SendReset, IInv, TypeOK
<1>2. CASE Missing(r) /\ UNCHANGED links
  BY <1>1, <1>2, AnsweredKeeps DEF SendReset, Missing
<1>3. CASE ~(Missing(r) /\ UNCHANGED links)
  <2> DEFINE u == req[r].user
             a == [rows[u] EXCEPT !.reset = links + 1]
  <2>1. /\ u \in Users /\ rows[u] \in Accounts /\ rows[u].exists /\ Write(r, u, a, "idle")
        /\ links' = links + 1 /\ links < MaxResets
    BY <1>3, Row DEF SendReset, IInv
  <2>2. links + 1 \in 0 .. MaxResets
    BY <2>1, Bounds DEF IInv, TypeOK
  <2>3. a \in Accounts /\ a.exists /\ a.reset = links + 1
    BY <2>1, <2>2, ResetRow
  <2> HIDE DEF a
  <2> QED
    BY <1>1, <2>1, <2>3, WriteKeeps DEF SendReset
<1> QED
  BY <1>2, <1>3

LEMMA ResetPasswordKeepsIInv ==
  ASSUME IInv, NEW r \in Requests, ResetPassword(r)
  PROVE  IInv'
<1>1. setup' \in BOOLEAN /\ signer' \in Seq(Users) /\ Len(signer') <= MaxSignIns
  BY DEF ResetPassword, IInv, TypeOK
<1>2. CASE Missing(r) /\ UNCHANGED uses
  BY <1>1, <1>2, AnsweredKeeps DEF ResetPassword, Missing
<1>3. CASE ~(Missing(r) /\ UNCHANGED uses)
  <2> DEFINE u == req[r].user
             a == [rows[u] EXCEPT !.password = TRUE, !.reset = None, !.session = None]
  <2>1. /\ u \in Users /\ rows[u] \in Accounts /\ rows[u].exists /\ Write(r, u, a, "idle")
        /\ uses' = [uses EXCEPT ![req[r].key] = @ + 1] /\ UNCHANGED links
    BY <1>3, Row DEF ResetPassword, IInv
  <2>2. a \in Accounts /\ a.exists /\ a.reset = None
    BY <2>1, PasswordRow
  <2>3. req[r].key \in 1 .. links /\ \A v \in Users : rows[v].reset = req[r].key => v = u
    BY DEF ResetPassword, IInv, RequestOK, LinkOK
  <2> HIDE DEF a
  <2> QED
    BY <1>1, <2>1, <2>2, <2>3, WriteKeeps
<1> QED
  BY <1>2, <1>3

LEMMA ResetExpiredKeepsIInv ==
  ASSUME IInv, NEW r \in Requests, ResetExpired(r)
  PROVE  IInv'
<1>1. setup' \in BOOLEAN /\ signer' \in Seq(Users) /\ Len(signer') <= MaxSignIns
  BY DEF ResetExpired, IInv, TypeOK
<1>2. CASE Missing(r)
  BY <1>1, <1>2, AnsweredKeeps DEF ResetExpired, Missing
<1>3. CASE ~Missing(r)
  <2> DEFINE u == req[r].user
             a == [rows[u] EXCEPT !.reset = None]
  <2>1. u \in Users /\ rows[u] \in Accounts /\ rows[u].exists /\ Write(r, u, a, "idle")
    BY <1>3, Row DEF ResetExpired, IInv
  <2>2. a \in Accounts /\ a.exists /\ a.reset = None
    BY <2>1, NoneType, ResetRow
  <2> HIDE DEF a
  <2> QED
    BY <1>1, <2>1, <2>2, WriteKeeps DEF ResetExpired
<1> QED
  BY <1>2, <1>3

LEMMA AdminWriteKeepsIInv ==
  ASSUME IInv, NEW r \in Requests, AdminWrite(r)
  PROVE  IInv'
<1>1. setup' \in BOOLEAN /\ signer' \in Seq(Users) /\ Len(signer') <= MaxSignIns
  BY DEF AdminWrite, IInv, TypeOK
<1>2. CASE Missing(r)
  BY <1>1, <1>2, AnsweredKeeps DEF AdminWrite, Missing
<1>3. CASE ~Missing(r)
  <2> DEFINE u == req[r].user
             a == Changed(r, rows[u])
  <2>1. u \in Users /\ rows[u] \in Accounts /\ rows[u].exists /\ Write(r, u, a, "idle")
    BY <1>3, Row DEF AdminWrite, IInv
  <2>2. req[r] \in RequestType /\ req[r].op \in AdminOps \ {"sendReset"}
    BY DEF AdminWrite, IInv, TypeOK, RequestType
  <2>3. a \in Accounts /\ (a.exists \/ a = NoAccount) /\ a.reset \in {None, rows[u].reset}
    BY <2>1, <2>2, ChangedRow
  <2> HIDE DEF a
  <2> QED
    BY <1>1, <2>1, <2>3, WriteKeeps DEF AdminWrite
<1> QED
  BY <1>2, <1>3

LEMMA StepKeepsIInv ==
  ASSUME IInv, NEW r \in Requests, Step(r)
  PROVE  IInv'
<1>1. CASE \/ Login(r) \/ SsoLogin(r) \/ Register(r) \/ SetupCheck(r) \/ Refresh(r)
           \/ Forgot(r) \/ Reset(r)
  BY <1>1, BeginsKeepIInv
<1>2. CASE \/ FindAdmin(r) \/ Authenticate(r) \/ ReadTarget(r) \/ CountAdmins(r)
           \/ OwnsOrganizations(r)
  BY <1>2, FindAdminKeepsIInv, AuthenticateKeepsIInv, ReadTargetKeepsIInv,
     CountAdminsKeepsIInv, OwnsOrganizationsKeepsIInv
<1>3. CASE Promote(r) \/ Create(r) \/ SignIn(r) \/ SetupCreate(r)
  BY <1>3, PromoteKeepsIInv, CreateKeepsIInv, SignInKeepsIInv, SetupCreateKeepsIInv
<1>4. CASE RefreshWrite(r) \/ Logout(r) \/ SendReset(r) \/ ResetPassword(r) \/ ResetExpired(r)
  BY <1>4, RefreshWriteKeepsIInv, LogoutKeepsIInv, SendResetKeepsIInv,
     ResetPasswordKeepsIInv, ResetExpiredKeepsIInv
<1>5. CASE AdminWrite(r)
  BY <1>5, AdminWriteKeepsIInv
<1> QED
  BY <1>1, <1>2, <1>3, <1>4, <1>5 DEF Step

LEMMA NextKeepsIInv == IInv /\ [Next]_vars => IInv'
<1> SUFFICES ASSUME IInv, [Next]_vars PROVE IInv'
  OBVIOUS
<1>1. ASSUME NEW r \in Requests, Step(r) PROVE IInv'
  BY <1>1, StepKeepsIInv
<1>2. CASE UNCHANGED vars
  BY <1>2 DEF vars, IInv, TypeOK, LinksFresh, RequestOK, ShapeOK, At, Own, ActorOK, LiveAdmins,
     PromotionOK, ExistingAdmin, TokenOK, LinkOK
<1> QED
  BY <1>1, <1>2 DEF Next

-----------------------------------------------------------------------------
\* What the account a stored by a step of r may be, given the one it replaces:
\* only an administrator's change takes the role or the status away, and the
\* session is the old one, none, that of a new sign-in or the refreshed one.
Succeeds(r, b, a) ==
  /\ AdminWrite(r) \/ (b.role = "SUPER_ADMIN" /\ b.active => a.role = "SUPER_ADMIN" /\ a.active)
  /\ \/ a.session \in {None, b.session} \/ a.session > Len(signer)
     \/ At(r, "refresh", "write") /\ a.session = req[r].key

LEMMA SameRowSucceeds ==
  ASSUME NEW r, NEW b, NEW a, a.role = b.role, a.active = b.active, a.session \in {None, b.session}
  PROVE  Succeeds(r, b, a)
BY DEF Succeeds

LEMMA StoredRow ==
  ASSUME IInv, NEW r \in Requests, Step(r)
  PROVE  \/ UNCHANGED rows
         \/ /\ \A v \in Users \ {req[r].user} : rows'[v] = rows[v]
            /\ Succeeds(r, rows[req[r].user], rows'[req[r].user])
<1> DEFINE u == req[r].user
<1>0. TypeOK /\ "idle" \in Steps /\ "signIn" \in Steps
  BY DEF IInv, Steps
<1>1. u \in Users /\ rows[u] \in Accounts
  BY <1>0, Row
<1>2. ASSUME NEW a \in Accounts, NEW step \in {"idle", "signIn"}, Write(r, u, a, step)
      PROVE  rows'[u] = a /\ \A v \in Users \ {u} : rows'[v] = rows[v]
  BY <1>0, <1>1, <1>2, WriteEffect
<1>3. Len(signer) \in 0 .. MaxSignIns
  BY <1>0, Bounds DEF TypeOK
<1>4. CASE Promote(r) /\ ~UNCHANGED rows
  <2> DEFINE a == [rows[u] EXCEPT !.role = "SUPER_ADMIN"]
  <2>1. Write(r, u, a, "signIn")
    BY <1>4 DEF Promote, Missing
  <2>2. a \in Accounts /\ a.role = "SUPER_ADMIN" /\ a.active = rows[u].active
        /\ a.session = rows[u].session
    BY <1>1, PromotedRow DEF Roles
  <2> HIDE DEF a
  <2> QED
    BY <1>2, <2>1, <2>2 DEF Succeeds
<1>5. CASE Create(r) /\ ~UNCHANGED rows
  <2> DEFINE a == NewAccount(req[r].op = "register")
  <2>1. Write(r, u, a, "signIn") /\ rows[u] = NoAccount
    BY <1>0, <1>5, Row DEF Create
  <2>2. a \in Accounts /\ a.session = None
    BY NewRow
  <2> HIDE DEF a
  <2> QED
    BY <1>2, <2>1, <2>2 DEF Succeeds, NoAccount
<1>6. CASE SignIn(r) /\ ~UNCHANGED rows
  <2> DEFINE a == [rows[u] EXCEPT !.session = Len(signer) + 1]
  <2>1. Write(r, u, a, "idle") /\ Len(signer) + 1 \in 0 .. MaxSignIns + 1
    BY <1>3, <1>6, Bounds DEF SignIn, Missing
  <2>2. /\ a \in Accounts /\ a.role = rows[u].role /\ a.active = rows[u].active
        /\ a.session > Len(signer)
    BY <1>1, <1>3, <2>1, SessionRow
  <2> HIDE DEF a
  <2> QED
    BY <1>2, <2>1, <2>2 DEF Succeeds
<1>7. CASE SetupCreate(r) /\ ~UNCHANGED rows
  <2> DEFINE a == [NewAccount(TRUE) EXCEPT !.role = "SUPER_ADMIN", !.session = SetupSession]
  <2>1. Write(r, u, a, "idle") /\ rows[u] = NoAccount
    BY <1>0, <1>7, Row DEF SetupCreate
  <2>2. a \in Accounts /\ a.session > Len(signer)
    BY <1>3, Bounds, SetupRow DEF SetupSession
  <2> HIDE DEF a
  <2> QED
    BY <1>2, <2>1, <2>2 DEF Succeeds, NoAccount
<1>8. CASE RefreshWrite(r) /\ ~UNCHANGED rows
  <2> DEFINE a == [rows[u] EXCEPT !.session = req[r].key]
  <2>1. Write(r, u, a, "idle") /\ At(r, "refresh", "write")
    BY <1>8 DEF RefreshWrite, Missing
  <2>2. req[r].key \in 0 .. MaxSignIns + 1
    BY <2>1 DEF IInv, RequestOK, ShapeOK
  <2>3. /\ a \in Accounts /\ a.role = rows[u].role /\ a.active = rows[u].active
        /\ a.session = req[r].key
    BY <1>1, <2>2, SessionRow
  <2> HIDE DEF a
  <2> QED
    BY <1>2, <2>1, <2>3 DEF Succeeds
<1>9. CASE Logout(r) /\ ~UNCHANGED rows
  <2> DEFINE a == [rows[u] EXCEPT !.session = None]
  <2>1. Write(r, u, a, "idle")
    BY <1>9 DEF Logout, Missing
  <2>2. a \in Accounts /\ a.role = rows[u].role /\ a.active = rows[u].active /\ a.session = None
    BY <1>1, NoneType, SessionRow
  <2> HIDE DEF a
  <2> QED
    BY <1>2, <2>1, <2>2, SameRowSucceeds
<1>10. CASE SendReset(r) /\ ~UNCHANGED rows
  <2> DEFINE a == [rows[u] EXCEPT !.reset = links + 1]
  <2>1. Write(r, u, a, "idle") /\ links + 1 \in 0 .. MaxResets
    BY <1>0, <1>10, Bounds DEF SendReset, Missing, TypeOK
  <2>2. /\ a \in Accounts /\ a.role = rows[u].role /\ a.active = rows[u].active
        /\ a.session = rows[u].session
    BY <1>1, <2>1, ResetRow
  <2> HIDE DEF a
  <2> QED
    BY <1>2, <2>1, <2>2, SameRowSucceeds
<1>11. CASE ResetPassword(r) /\ ~UNCHANGED rows
  <2> DEFINE a == [rows[u] EXCEPT !.password = TRUE, !.reset = None, !.session = None]
  <2>1. Write(r, u, a, "idle")
    BY <1>11 DEF ResetPassword, Missing
  <2>2. a \in Accounts /\ a.role = rows[u].role /\ a.active = rows[u].active /\ a.session = None
    BY <1>1, PasswordRow
  <2> HIDE DEF a
  <2> QED
    BY <1>2, <2>1, <2>2, SameRowSucceeds
<1>12. CASE ResetExpired(r) /\ ~UNCHANGED rows
  <2> DEFINE a == [rows[u] EXCEPT !.reset = None]
  <2>1. Write(r, u, a, "idle")
    BY <1>12 DEF ResetExpired, Missing
  <2>2. /\ a \in Accounts /\ a.role = rows[u].role /\ a.active = rows[u].active
        /\ a.session = rows[u].session
    BY <1>1, NoneType, ResetRow
  <2> HIDE DEF a
  <2> QED
    BY <1>2, <2>1, <2>2, SameRowSucceeds
<1>13. CASE AdminWrite(r) /\ ~UNCHANGED rows
  <2> DEFINE a == Changed(r, rows[u])
  <2>1. Write(r, u, a, "idle") /\ rows[u].exists
    BY <1>13 DEF AdminWrite, Missing
  <2>2. req[r] \in RequestType /\ req[r].op \in AdminOps \ {"sendReset"}
    BY <1>0, <1>13 DEF AdminWrite, TypeOK, RequestType
  <2>3. a \in Accounts /\ a.session \in {None, rows[u].session}
    BY <1>1, <2>1, <2>2, ChangedRow
  <2> HIDE DEF a
  <2> QED
    BY <1>2, <1>13, <2>1, <2>3 DEF Succeeds
<1>14. CASE \/ Login(r) \/ FindAdmin(r) \/ SsoLogin(r) \/ Register(r) \/ SetupCheck(r)
            \/ Refresh(r) \/ Forgot(r) \/ Reset(r) \/ Authenticate(r) \/ ReadTarget(r)
            \/ CountAdmins(r) \/ OwnsOrganizations(r)
  BY <1>14 DEF Login, FindAdmin, SsoLogin, Register, SetupCheck, Refresh, Forgot, Reset,
     Authenticate, ReadTarget, CountAdmins, OwnsOrganizations
<1> QED
  BY <1>4, <1>5, <1>6, <1>7, <1>8, <1>9, <1>10, <1>11, <1>12, <1>13, <1>14 DEF Step

-----------------------------------------------------------------------------
(* Every variable keeps its type, and an address without an account has    *)
(* nothing: no role, no session, no link.                                  *)
THEOREM TypeCorrect == Spec => []TypeOK
<1>1. IInv => TypeOK
  BY DEF IInv
<1> QED
  BY <1>1, InitIInv, NextKeepsIInv, PTL DEF Spec

LEMMA LastAdminStaysOnRequest ==
  ASSUME IInv, IInv', NEW r \in Requests, Step(r), LiveAdmins # {}, LiveAdmins' = {}
  PROVE  \/ Writes(r, {"patch", "remove"})
         \/ Writes(r, {"role", "status", "delete"}) /\ "admins" \in since[r]
<1>1. rows' # rows
  BY DEF LiveAdmins
<1>2. PICK v \in Users : rows[v].role = "SUPER_ADMIN" /\ rows[v].active
  BY DEF LiveAdmins
<1>3. ~(rows'[v].role = "SUPER_ADMIN" /\ rows'[v].active)
  BY DEF LiveAdmins
<1>4. v = req[r].user /\ AdminWrite(r)
  BY <1>1, <1>2, <1>3, StoredRow DEF Succeeds
<1>5. /\ req[r].op \in AdminOps \ {"sendReset"} /\ req[r].step = "write"
      /\ Write(r, req[r].user, Changed(r, rows[req[r].user]), "idle")
  BY <1>1, <1>4 DEF AdminWrite, Missing
<1>6. req'[r].step = "idle"
  BY <1>5, IdleType DEF Write, IInv, TypeOK
<1>7. CASE req[r].op \in {"patch", "remove"}
  BY <1>1, <1>5, <1>6, <1>7 DEF Writes
<1>8. CASE req[r].op \in {"role", "status", "delete"}
  <2>1. req[r].actor # req[r].user
    BY <1>5, <1>8 DEF IInv, RequestOK, ShapeOK, Own
  <2>2. req[r].actor \in Users
    BY DEF IInv, TypeOK
  <2>3. rows'[req[r].actor] = rows[req[r].actor]
    BY <1>1, <2>1, <2>2, StoredRow
  <2>4. req[r].actor \notin LiveAdmins
    BY <2>2, <2>3 DEF LiveAdmins
  <2>5. "admins" \in since[r]
    BY <1>5, <1>8, <2>4 DEF IInv, RequestOK, ActorOK
  <2> QED
    BY <1>1, <1>5, <1>6, <1>8, <2>5 DEF Writes
<1> QED
  BY <1>5, <1>7, <1>8 DEF AdminOps

(* Through updateUserRole, updateUserStatus and deleteUser an instance     *)
(* keeps a working administrator, whoever asks what and when: the acting   *)
(* one remains, unless an administrator was written since the request was  *)
(* authenticated.                                                          *)
THEOREM LastAdmin == Spec => AdminRemains
<1>1. IInv /\ IInv' /\ [Next]_vars
      => [LiveAdmins # {} /\ LiveAdmins' = {}
            => \E r \in Requests : \/ Writes(r, {"patch", "remove"})
                                  \/ /\ Writes(r, {"role", "status", "delete"})
                                     /\ "admins" \in since[r]]_vars
  BY LastAdminStaysOnRequest DEF Next
<1> QED
  BY <1>1, InitIInv, NextKeepsIInv, PTL DEF Spec, AdminRemains

(* login hands the administrator's role only to the first user of an       *)
(* instance without one, unless one came to be after it looked.            *)
THEOREM Bootstrap == Spec => FirstAdminOnly
<1>1. IInv
      => \A r \in Requests :
           /\ At(r, "login", "promote") /\ req'[r].step = "signIn"
           /\ \E u \in Users : rows[u].role = "SUPER_ADMIN" /\ ~rows[u].deleted
           => "admins" \in since[r]
  BY DEF IInv, TypeOK, NoAccount, RequestOK, PromotionOK, ExistingAdmin
<1> QED
  BY <1>1, InitIInv, NextKeepsIInv, PTL DEF Spec, FirstAdminOnly

LEMMA OnlyRefreshRevives ==
  ASSUME IInv, NEW r \in Requests, Step(r), NEW u \in Users,
         rows'[u].session # rows[u].session, rows'[u].session \in DOMAIN signer
  PROVE  At(r, "refresh", "write") /\ req[r].user = u /\ "session" \in since[r]
<1>1. u = req[r].user /\ Succeeds(r, rows[u], rows'[u])
  BY StoredRow
<1>2. rows'[u].session \in 1 .. Len(signer) /\ Len(signer) \in Nat
  BY DEF IInv, TypeOK
<1>3. At(r, "refresh", "write") /\ rows'[u].session = req[r].key
  BY <1>1, <1>2 DEF Succeeds, None
<1> QED
  BY <1>1, <1>3 DEF IInv, RequestOK, TokenOK

(* A sign-in that was ended stays ended in every interleaving, except for  *)
(* a refresh that read the token before and stores its successor after.    *)
THEOREM EndedSessions == Spec => SessionsStayEnded
<1>1. IInv /\ [Next]_vars
      => [\A u \in Users :
            /\ rows'[u].session # rows[u].session
            /\ rows'[u].session \in ended \intersect DOMAIN signer
            => \E r \in Requests : /\ At(r, "refresh", "write") /\ req[r].user = u
                                  /\ "session" \in since[r]]_vars
  BY OnlyRefreshRevives DEF Next
<1> QED
  BY <1>1, InitIInv, NextKeepsIInv, PTL DEF Spec, SessionsStayEnded

LEMMA SecondUseOvertaken ==
  ASSUME IInv, NEW r \in Requests, Step(r), NEW n \in DOMAIN uses,
         uses'[n] > 1, uses'[n] # uses[n]
  PROVE  At(r, "reset", "write") /\ "reset" \in since[r]
<1>1. ResetPassword(r) /\ uses' = [uses EXCEPT ![req[r].key] = @ + 1]
  BY DEF Step, Login, FindAdmin, Promote, SsoLogin, Register, Create, SignIn, SetupCheck,
     SetupCreate, Refresh, RefreshWrite, Logout, Forgot, SendReset, Reset, ResetPassword,
     ResetExpired, Authenticate, ReadTarget, CountAdmins, AdminWrite, OwnsOrganizations
<1>2. n = req[r].key /\ uses[n] # 0
  BY <1>1 DEF IInv, TypeOK
<1>3. rows[req[r].user].reset # req[r].key
  BY <1>2 DEF IInv, LinksFresh, TypeOK, None
<1> QED
  BY <1>1, <1>3 DEF ResetPassword, IInv, RequestOK, LinkOK

(* A reset link sets a password once, unless the second request had looked *)
(* it up before the first one cleared it.                                  *)
THEOREM OneReset == Spec => LinkUsedOnce
<1>1. IInv /\ [Next]_vars
      => [\A n \in DOMAIN uses :
            uses'[n] > 1 /\ uses'[n] # uses[n]
            => \E r \in Requests : At(r, "reset", "write") /\ "reset" \in since[r]]_vars
  BY SecondUseOvertaken DEF Next
<1> QED
  BY <1>1, InitIInv, NextKeepsIInv, PTL DEF Spec, LinkUsedOnce
=============================================================================
